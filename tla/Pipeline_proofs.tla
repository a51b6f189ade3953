---------------------------- MODULE Pipeline_proofs ----------------------------
(***************************************************************************)
(* Stages of the pipeline, for every corpus and every order of edits, runs *)
(* and crashes.                                                            *)
(***************************************************************************)
EXTENDS Corpus, Building, HtmlParser, Planning, Segmentation, Integers, FiniteSets, Sequences,
        SequenceTheorems, FiniteSetTheorems, WellFoundedInduction, TLAPS

\* The provers of a step that names none, in the order they are tried.
USE Z3T(60), ZenonT(20), SMTT(40)

\* A sequence, whatever its elements are.
IsList(s) == s \in Seq({s[i] : i \in DOMAIN s})

\* Appending to a sequence of whatever values.
LEMMA Appended ==
  ASSUME NEW s, NEW e, IsList(s)
  PROVE  /\ IsList(Append(s, e)) /\ Len(Append(s, e)) = Len(s) + 1 /\ Len(s) \in Nat
         /\ DOMAIN s = 1 .. Len(s) /\ DOMAIN Append(s, e) = 1 .. Len(s) + 1
         /\ Append(s, e)[Len(s) + 1] = e /\ \A i \in DOMAIN s : Append(s, e)[i] = s[i]
<1> DEFINE S == {s[i] : i \in DOMAIN s} \cup {e}
           t == Append(s, e)
<1>1. s \in Seq(S) /\ e \in S
  BY DEF IsList
<1>2. t \in Seq(S) /\ Len(t) = Len(s) + 1 /\ DOMAIN t = 1 .. Len(s) + 1 /\ DOMAIN s = 1 .. Len(s) /\ Len(s) \in Nat
      /\ t[Len(s) + 1] = e /\ \A i \in 1 .. Len(s) : t[i] = s[i]
  BY <1>1, AppendProperties
<1> HIDE DEF t
<1>3. t \in Seq({t[i] : i \in DOMAIN t})
  BY <1>2
<1> QED
  BY <1>2, <1>3 DEF IsList, t

\* A run has its fields and no others.
Shaped(r) ==
  r = [stage |-> r.stage, kb |-> r.kb, walk |-> r.walk, items |-> r.items, results |-> r.results,
       families |-> r.families, blocks |-> r.blocks, sets |-> r.sets]

\* The sets of a run grow with its results, and nothing superseded is ever frozen.
SuppressionInv ==
  /\ Shaped(run) /\ IsList(run.sets)
  /\ run.stage \in {"idle", "collect", "assess"} => run.sets = <<>>
  /\ \A h \in DOMAIN frozen : frozen[h].kind # "superseded"
  /\ SuppressionFollowsRole

\* Only a result of that role gets a superseded set; none is ever kept on disk.
LEMMA DecomposedIsKept ==
  ASSUME NEW result
  PROVE  Decomposed(result).kind # "superseded" /\ Torn.kind # "superseded" /\ NoSet.kind # "superseded"
         /\ Superseded_(result).kind = "superseded"
BY DEF Decomposed, Torn, NoSet, Superseded_, Stamped

\* Every step of a run, of a file or of an operator keeps it.
LEMMA SuppressionStep ==
  ASSUME SuppressionInv, [CorpusNext]_corpusVars
  PROVE  SuppressionInv'
<1> USE DEF SuppressionInv
<1>e. IsList(<<>>) /\ DOMAIN <<>> = {}
  BY DEF IsList
<1>1. CASE UNCHANGED <<frozen, run>>
  BY <1>1 DEF SuppressionFollowsRole, Shaped
<1>2. ASSUME NEW path \in Paths, Edit(path) \/ Deny(path) \/ Remove_(path)
      PROVE  SuppressionInv'
  BY <1>1, <1>2 DEF Edit, Deny, Remove_
<1>3. CASE SwitchOcr
  BY <1>1, <1>3 DEF SwitchOcr
<1>4. ASSUME NEW hash \in DOMAIN frozen, RemoveArtifacts(hash)
      PROVE  SuppressionInv'
  BY <1>4, DecomposedIsKept DEF RemoveArtifacts, SuppressionFollowsRole
<1>5. ASSUME NEW kb \in KBs, StartRun(kb)
      PROVE  SuppressionInv'
  <2>1. run'.stage = "collect" /\ run'.sets = <<>> /\ Shaped(run')
    BY <1>5 DEF StartRun, Idle_, Shaped
  <2> QED
    BY <1>5, <1>e, <2>1 DEF StartRun, SuppressionFollowsRole, Shaped
<1>6. CASE CollectFile
  <2>1. run'.stage = "collect" /\ run'.sets = run.sets /\ Shaped(run') /\ run.stage = "collect"
    BY <1>6 DEF CollectFile, Shaped
  <2> QED
    BY <1>6, <1>e, <2>1 DEF CollectFile, SuppressionFollowsRole
<1>7. CASE FinishCollect
  <2>1. run'.stage = "assess" /\ run'.sets = run.sets /\ Shaped(run') /\ run.stage = "collect"
    BY ZenonT(60), <1>7 DEF FinishCollect, Shaped
  <2> QED
    BY <1>7, <1>e, <2>1 DEF FinishCollect, SuppressionFollowsRole
<1>8. CASE AssessItem
  <2>1. run'.stage = "assess" /\ run'.sets = run.sets /\ Shaped(run') /\ run.stage = "assess"
    BY <1>8 DEF AssessItem, Shaped
  <2> QED
    BY ZenonT(60), <1>8, <1>e, <2>1 DEF AssessItem, SuppressionFollowsRole
<1>9. CASE FinishAssess
  <2>1. run'.stage = "decompose" /\ run'.sets = run.sets /\ Shaped(run') /\ run.stage = "assess"
    BY <1>9 DEF FinishAssess, Shaped
  <2> QED
    BY <1>9, <1>e, <2>1 DEF FinishAssess, SuppressionFollowsRole
<1>10. CASE DecomposeResult
  <2>1. /\ run.stage = "decompose" /\ run'.stage = "decompose" /\ run'.sets = Append(run.sets, SetFor(NextResult))
        /\ run'.results = run.results /\ Shaped(run')
    BY <1>10 DEF DecomposeResult, Pending_, Shaped
  <2>2. SetFor(NextResult).kind = "superseded" <=> NextResult.role = "superseded"
    BY DecomposedIsKept DEF SetFor, FrozenFor
  <2>3. \A h \in DOMAIN frozen' : frozen'[h].kind # "superseded"
    BY <1>10, DecomposedIsKept DEF DecomposeResult
  <2>4. SuppressionFollowsRole'
    BY <2>1, <2>2, Appended DEF SuppressionFollowsRole, NextResult
  <2> QED
    BY <2>1, <2>3, <2>4, Appended
<1>11. CASE FinishDecompose
  <2>1. run'.stage = "done" /\ run'.sets = run.sets /\ run'.results = run.results /\ Shaped(run')
    BY <1>11 DEF FinishDecompose, Shaped
  <2> QED
    BY <1>11, <2>1 DEF FinishDecompose, SuppressionFollowsRole
<1>12. CASE Crash_
  <2>1. run'.sets = <<>> /\ Shaped(run')
    BY <1>12 DEF Crash_, Restarted, Shaped
  <2>2. \A h \in DOMAIN frozen' : frozen'[h].kind # "superseded"
    BY <1>12, DecomposedIsKept DEF Crash_
  <2> QED
    BY <1>e, <2>1, <2>2 DEF SuppressionFollowsRole
<1>13. CASE UNCHANGED corpusVars
  BY <1>1, <1>13 DEF corpusVars
<1> QED
  BY <1>2, <1>3, <1>4, <1>5, <1>6, <1>7, <1>8, <1>9, <1>10, <1>11, <1>12, <1>13 DEF CorpusNext

\* Whatever sets earlier runs left on disk, and whenever runs die: a document is suppressed
\* in a run exactly if the corpus passes of this run superseded it (DecomposeStage.run).
THEOREM SuppressionIsOfItsRun == CorpusSpec => []SuppressionFollowsRole
<1>1. CorpusInit => SuppressionInv
  BY DEF CorpusInit, CorpusFrom, SuppressionInv, Shaped, IsList, Idle_, NoSet, SuppressionFollowsRole
<1>2. SuppressionInv /\ [CorpusNext]_corpusVars => SuppressionInv'
  BY SuppressionStep
<1>3. SuppressionInv => SuppressionFollowsRole
  BY DEF SuppressionInv
<1> QED
  BY <1>1, <1>2, <1>3, PTL DEF CorpusSpec

-----------------------------------------------------------------------------
(* The chunker, by induction on the part of the text that is left: the set of *)
(* places from which it fails has no greatest member.                        *)

\* A set of natural numbers that has a member has a least one.
LEMMA Least ==
  ASSUME NEW S \in SUBSET Nat, S # {}
  PROVE  \E m \in S : \A k \in S : m <= k
<1>1. IsWellFoundedOn(OpToRel(<, Nat), Nat)
  BY NatLessThanWellFounded
<1> DEFINE R == OpToRel(<, Nat)
<1>2. \A x, y \in Nat : x < y => <<x, y>> \in R
  BY DEF OpToRel
<1> HIDE DEF R
<1>3. IsWellFoundedOn(R, Nat)
  BY <1>1 DEF R
<1>4. \E x \in S : \A y \in S : ~ (<<y, x>> \in R)
  BY <1>3, WFMin
<1>5. PICK x \in S : \A y \in S : ~ (<<y, x>> \in R)
  BY <1>4
<1>6. \A y \in S : ~ (y < x)
  <2> SUFFICES ASSUME NEW y \in S, y < x PROVE FALSE
    OBVIOUS
  <2>1. x \in Nat /\ y \in Nat
    OBVIOUS
  <2>2. <<y, x>> \in R
    BY <1>2, <2>1
  <2> QED
    BY <1>5, <2>2
<1> QED
  BY <1>6

\* One that is bounded has a greatest one.
LEMMA Greatest ==
  ASSUME NEW S \in SUBSET Nat, S # {}, NEW b \in Nat, \A x \in S : x <= b
  PROVE  \E m \in S : \A k \in S : k <= m
<1> DEFINE T == {b - x : x \in S}
<1>1. T \in SUBSET Nat /\ T # {}
  <2>1. \A x \in S : b - x \in Nat
    OBVIOUS
  <2>2. PICK x \in S : TRUE
    OBVIOUS
  <2>3. b - x \in T
    BY <2>2
  <2> QED
    BY <2>1, <2>3
<1>2. PICK t \in T : \A u \in T : t <= u
  BY <1>1, Least
<1>3. PICK m \in S : t = b - m
  BY <1>2
<1>4. ASSUME NEW k \in S PROVE k <= m
  <2>1. b - k \in T
    OBVIOUS
  <2>2. b - m <= b - k
    BY <1>2, <1>3, <2>1
  <2> QED
    BY <2>2
<1> QED
  BY <1>4

LEMMA MaxIsGreatest ==
  ASSUME NEW S \in SUBSET Nat, S # {}, NEW b \in Nat, \A x \in S : x <= b
  PROVE  Max(S) \in S
<1>1. \E m \in S : \A k \in S : m >= k
  BY Greatest
<1> QED
  BY <1>1 DEF Max

LEMMA MinIsLeast ==
  ASSUME NEW S \in SUBSET Nat, S # {}
  PROVE  Min(S) \in S /\ \A x \in S : Min(S) <= x
<1>1. \E m \in S : \A k \in S : m <= k
  BY Least
<1> QED
  BY <1>1 DEF Min

\* What holds first and goes from each number to the next holds up to the last.
LEMMA Climbs ==
  ASSUME NEW n \in Nat, NEW S, \A m \in 1 .. n : (m = 1 \/ m - 1 \in S) => m \in S
  PROVE  1 .. n \subseteq S
<1> DEFINE Open == (1 .. n) \ S
<1> SUFFICES ASSUME Open # {} PROVE FALSE
  OBVIOUS
<1>1. Open \in SUBSET Nat
  OBVIOUS
<1>2. PICK m \in Open : \A k \in Open : m <= k
  BY <1>1, Least
<1>3. CASE m = 1
  BY <1>3
<1>4. CASE m # 1
  <2>1. m - 1 \in 1 .. n /\ ~(m <= m - 1)
    BY <1>4
  <2>2. m - 1 \in S
    BY <1>2, <2>1
  <2> QED
    BY <2>2
<1> QED
  BY <1>3, <1>4

\* FlattenSeq of the community modules: the lists one after the other.
LEMMA Unfolded ==
  ASSUME NEW ss, IsList(ss), Len(ss) # 0
  PROVE  \E f : /\ FlattenSeq(ss) = f[Len(ss)]
                /\ \A i \in 1 .. Len(ss) : f[i] = IF i = 1 THEN ss[i] ELSE f[i - 1] \o ss[i]
<1> DEFINE n == Len(ss)
           Join(f, i) == IF i = 1 THEN ss[i] ELSE f[i - 1] \o ss[i]
           Solves(f) == f = [i \in 1 .. n |-> Join(f, i)]
<1>1. n \in Nat /\ DOMAIN ss = 1 .. n
  <2>1. ss \in Seq({ss[i] : i \in DOMAIN ss})
    BY DEF IsList
  <2> QED
    BY <2>1, LenProperties
<1>2. n # 0
  OBVIOUS
<1>3. FlattenSeq(ss) = (CHOOSE f : Solves(f))[n]
  BY <1>2 DEF FlattenSeq
<1>4. \E f : Solves(f)
  <2> DEFINE S == {m \in 1 .. n : \E f : DOMAIN f = 1 .. m /\ \A i \in 1 .. m : f[i] = Join(f, i)}
  <2>1. ASSUME NEW m \in 1 .. n, m = 1 \/ m - 1 \in S PROVE m \in S
    <3>1. PICK f : \A i \in 1 .. m - 1 : f[i] = Join(f, i)
      <4>1. CASE m = 1
        BY <4>1
      <4>2. CASE m # 1
        BY <2>1, <4>2
      <4> QED
        BY <4>1, <4>2
    <3> DEFINE g == [i \in 1 .. m |-> IF i = m THEN Join(f, m) ELSE f[i]]
    <3>2. \A i \in 1 .. m : Join(g, i) = Join(f, i)
      <4> SUFFICES ASSUME NEW i \in 1 .. m, i # 1 PROVE g[i - 1] = f[i - 1]
        OBVIOUS
      <4>1. i - 1 \in 1 .. m /\ i - 1 # m
        OBVIOUS
      <4> QED
        BY <4>1
    <3>3. \A i \in 1 .. m : g[i] = Join(f, i)
      <4> SUFFICES ASSUME NEW i \in 1 .. m, i # m PROVE f[i] = Join(f, i)
        OBVIOUS
      <4>1. i \in 1 .. m - 1
        OBVIOUS
      <4> QED
        BY <3>1, <4>1
    <3>4. DOMAIN g = 1 .. m
      OBVIOUS
    <3> HIDE DEF g, Join
    <3>5. \A i \in 1 .. m : g[i] = Join(g, i)
      BY <3>2, <3>3
    <3> QED
      BY <3>4, <3>5
  <2> HIDE DEF S
  <2>2. 1 .. n \subseteq S
    BY <1>1, <2>1, Climbs
  <2>3. n \in S
    BY <1>1, <1>2, <2>2
  <2> HIDE DEF Join
  <2>4. PICK f : DOMAIN f = 1 .. n /\ \A i \in 1 .. n : f[i] = Join(f, i)
    BY <2>3 DEF S
  <2> DEFINE g == [i \in 1 .. n |-> f[i]]
  <2>5. \A i \in 1 .. n : Join(g, i) = Join(f, i)
    <3> SUFFICES ASSUME NEW i \in 1 .. n PROVE Join(g, i) = Join(f, i)
      OBVIOUS
    <3>1. CASE i = 1
      BY <3>1 DEF Join
    <3>2. CASE i # 1
      <4>1. i - 1 \in 1 .. n
        BY <1>1, <3>2
      <4> QED
        BY <4>1 DEF Join
    <3> QED
      BY <3>1, <3>2
  <2>6. \A i \in 1 .. n : g[i] = Join(g, i)
    BY <2>4, <2>5
  <2>7. g = [i \in 1 .. n |-> g[i]]
    OBVIOUS
  <2> HIDE DEF g
  <2>8. [i \in 1 .. n |-> g[i]] = [i \in 1 .. n |-> Join(g, i)]
    BY <2>6
  <2>9. Solves(g)
    BY <2>7, <2>8
  <2> QED
    BY <2>9
<1> DEFINE f == CHOOSE f : Solves(f)
<1>5. Solves(f)
  BY ZenonT(60), <1>4
<1> HIDE DEF f
<1>6. \A i \in 1 .. n : f[i] = Join(f, i)
  BY <1>5
<1>7. FlattenSeq(ss) = f[n]
  BY <1>3 DEF f
<1> HIDE DEF f
<1> QED
  BY <1>6, <1>7

\* Lists of one type are flattened to a list of that type.
LEMMA FlattenedIn ==
  ASSUME NEW ss, NEW T, IsList(ss), \A i \in DOMAIN ss : ss[i] \in Seq(T)
  PROVE  FlattenSeq(ss) \in Seq(T)
<1>1. Len(ss) \in Nat /\ DOMAIN ss = 1 .. Len(ss)
  <2>1. ss \in Seq({ss[i] : i \in DOMAIN ss})
    BY DEF IsList
  <2> QED
    BY <2>1, LenProperties
<1>2. CASE Len(ss) = 0
  <2>1. ss = <<>>
    BY <1>1, <1>2 DEF IsList
  <2> QED
    BY <1>2, <2>1 DEF FlattenSeq
<1>3. CASE Len(ss) # 0
  <2>1. PICK f : /\ FlattenSeq(ss) = f[Len(ss)]
                 /\ \A i \in 1 .. Len(ss) : f[i] = IF i = 1 THEN ss[i] ELSE f[i - 1] \o ss[i]
    BY <1>3, Unfolded
  <2> DEFINE S == {m \in 1 .. Len(ss) : f[m] \in Seq(T)}
  <2>2. ASSUME NEW m \in 1 .. Len(ss), m = 1 \/ m - 1 \in S PROVE m \in S
    <3>1. ss[m] \in Seq(T)
      BY <1>1
    <3>2. CASE m = 1
      BY <2>1, <3>1, <3>2
    <3>3. CASE m # 1
      <4>1. f[m - 1] \in Seq(T) /\ f[m] = f[m - 1] \o ss[m]
        BY <2>1, <2>2, <3>3
      <4> QED
        BY ZenonT(60), <3>1, <4>1, ConcatProperties
    <3> QED
      BY <3>2, <3>3
  <2> HIDE DEF S
  <2>3. Len(ss) \in S
    <3>1. 1 .. Len(ss) \subseteq S
      BY <1>1, <2>2, Climbs
    <3> QED
      BY <1>1, <1>3, <3>1
  <2> QED
    BY <2>1, <2>3 DEF S
<1> QED
  BY <1>2, <1>3

\* A list of one type is a list.
LEMMA ListIn ==
  ASSUME NEW T, NEW s \in Seq(T)
  PROVE  IsList(s)
<1>1. Len(s) \in Nat /\ DOMAIN s = 1 .. Len(s) /\ s \in [1 .. Len(s) -> T]
  BY LenProperties
<1>2. s \in Seq({s[i] : i \in DOMAIN s})
  BY <1>1
<1> QED
  BY <1>2 DEF IsList

\* A recursive definition of lists over 0 .. n, as data: where it stops and with which list, which
\* list it puts in front elsewhere, and where it goes on.
ValueIn(r, f, c) == IF r.stops[c] THEN r.base[c] ELSE r.head[c] \o f[r.next[c]]
IsDescent(n, r) == \A c \in 0 .. n : ~r.stops[c] => r.next[c] \in c + 1 .. n

\* A recursion that descends from every number up to n has a solution, whatever it collects.
LEMMA Descends ==
  ASSUME NEW n \in Nat, NEW r, IsDescent(n, r)
  PROVE  \E f : f = [c \in 0 .. n |-> ValueIn(r, f, c)]
<1> USE DEF IsDescent
<1> DEFINE Value(f, c) == ValueIn(r, f, c)
           Solved(m) == \E f : DOMAIN f = n - m .. n /\ \A c \in n - m .. n : f[c] = Value(f, c)
           Open == {m \in 0 .. n : ~Solved(m)}
<1> USE DEF ValueIn
<1>1. ASSUME NEW m \in 0 .. n, m = 0 \/ Solved(m - 1) PROVE Solved(m)
  <2>1. PICK f : \A c \in n - m + 1 .. n : f[c] = Value(f, c)
    <3>1. CASE m = 0
      <4>1. n - m + 1 .. n = {}
        BY <3>1
      <4> QED
        BY <4>1
    <3>2. CASE m # 0
      <4>1. n - (m - 1) .. n = n - m + 1 .. n
        OBVIOUS
      <4> QED
        BY <1>1, <3>2, <4>1
    <3> QED
      BY <3>1, <3>2
  <2> DEFINE g == [c \in n - m .. n |-> IF c = n - m THEN Value(f, c) ELSE f[c]]
  <2>2. ASSUME NEW c \in n - m .. n PROVE Value(g, c) = Value(f, c)
    <3>1. CASE r.stops[c]
      BY <3>1
    <3>2. CASE ~r.stops[c]
      <4>1. r.next[c] \in n - m .. n /\ r.next[c] # n - m
        BY <3>2
      <4>2. g[r.next[c]] = f[r.next[c]]
        BY <4>1
      <4> QED
        BY <4>2
    <3> QED
      BY <3>1, <3>2
  <2>3. ASSUME NEW c \in n - m .. n PROVE g[c] = Value(g, c)
    <3>1. CASE c = n - m
      BY <2>2, <3>1
    <3>2. CASE c # n - m
      <4>1. c \in n - m + 1 .. n
        BY <3>2
      <4> QED
        BY <2>1, <2>2, <3>2, <4>1
    <3> QED
      BY <3>1, <3>2
  <2>4. DOMAIN g = n - m .. n
    OBVIOUS
  <2> HIDE DEF g
  <2> QED
    BY <2>3, <2>4
<1> HIDE DEF Solved
<1>2. Open = {}
  <2> SUFFICES ASSUME Open # {} PROVE FALSE
    OBVIOUS
  <2>1. Open \in SUBSET Nat
    OBVIOUS
  <2>2. PICK m \in Open : \A k \in Open : m <= k
    BY <2>1, Least
  <2>3. m = 0 \/ Solved(m - 1)
    <3>1. CASE m # 0
      <4>1. m - 1 \in 0 .. n /\ ~(m <= m - 1)
        BY <3>1
      <4> QED
        BY <2>2, <4>1
    <3> QED
      BY <3>1
  <2> QED
    BY <1>1, <2>2, <2>3
<1>3. Solved(n)
  BY <1>2
<1>4. PICK f : DOMAIN f = 0 .. n /\ \A c \in 0 .. n : f[c] = Value(f, c)
  <2>1. n - n = 0
    OBVIOUS
  <2> QED
    BY <1>3, <2>1 DEF Solved
<1> DEFINE g == [c \in 0 .. n |-> f[c]]
<1>5. ASSUME NEW c \in 0 .. n PROVE g[c] = Value(g, c)
  <2>3. g[c] = f[c] /\ f[c] = Value(f, c)
    BY <1>4
  <2> HIDE DEF g
  <2>1. CASE r.stops[c]
    <3>1. Value(f, c) = r.base[c] /\ Value(g, c) = r.base[c]
      BY <2>1
    <3> QED
      BY <2>3, <3>1
  <2>2. CASE ~r.stops[c]
    <3>1. r.next[c] \in 0 .. n
      BY <2>2
    <3>2. g[r.next[c]] = f[r.next[c]]
      BY <3>1 DEF g
    <3>3. Value(f, c) = Value(g, c)
      BY <2>2, <3>2
    <3> QED
      BY <2>3, <3>3
  <2> QED
    BY <2>1, <2>2
<1>6. g = [c \in 0 .. n |-> Value(g, c)]
  <2> DEFINE h == [c \in 0 .. n |-> Value(g, c)]
  <2>1. \A c \in 0 .. n : h[c] = g[c]
    BY <1>5
  <2> QED
    BY <2>1
<1> QED
  BY <1>6

\* Spans from c to n: one after the other, none empty, no gap between two; without overlap, tiles.
CoversFrom(s, c, n, overlap) ==
  /\ s \in Seq(Nat \X Nat) /\ Len(s) >= 1 /\ s[1][1] = c /\ s[Len(s)][2] = n
  /\ \A i \in 1 .. Len(s) : s[i][1] < s[i][2]
  /\ \A i \in 1 .. Len(s) - 1 : /\ s[i][1] < s[i + 1][1] /\ s[i + 1][1] <= s[i][2]
                                /\ overlap = 0 => s[i + 1][1] = s[i][2]

\* One span.
LEMMA OneSpan ==
  ASSUME NEW c \in Nat, NEW n \in Nat, c < n, NEW overlap
  PROVE  CoversFrom(<<<<c, n>>>>, c, n, overlap)
<1> DEFINE one == <<<<c, n>>>>
<1>1. one \in Seq(Nat \X Nat) /\ Len(one) = 1 /\ one[1] = <<c, n>>
  <2>1. <<c, n>> \in Nat \X Nat
    OBVIOUS
  <2> QED
    BY <2>1
<1> HIDE DEF one
<1>2. CoversFrom(one, c, n, overlap)
  BY <1>1 DEF CoversFrom
<1> QED
  BY <1>2 DEF one

\* Spans that go on within the last of those before them.
LEMMA JoinedSpans ==
  ASSUME NEW n \in Nat, NEW c \in Nat, NEW to \in Nat, NEW next \in Nat, NEW s, NEW t, NEW overlap,
         CoversFrom(s, c, to, overlap), CoversFrom(t, next, n, overlap),
         s[Len(s)][1] < next, next <= to, overlap = 0 => next = to
  PROVE  CoversFrom(s \o t, c, n, overlap)
<1> DEFINE u == s \o t
           Spans_ == Nat \X Nat
<1>1. s \in Seq(Spans_) /\ Len(s) \in Nat /\ Len(s) >= 1
  BY DEF CoversFrom
<1>2. t \in Seq(Spans_) /\ Len(t) \in Nat /\ Len(t) >= 1
  BY DEF CoversFrom
<1> HIDE DEF Spans_
<1>3. /\ u \in Seq(Spans_) /\ Len(u) = Len(s) + Len(t)
      /\ \A i \in 1 .. Len(s) + Len(t) : u[i] = IF i <= Len(s) THEN s[i] ELSE t[i - Len(s)]
  BY <1>1, <1>2, ConcatProperties
<1>4. (\A i \in 1 .. Len(s) : u[i] = s[i]) /\ \A i \in Len(s) + 1 .. Len(u) : u[i] = t[i - Len(s)]
  BY <1>1, <1>2, <1>3
<1> HIDE DEF u
<1>5. u[1] = s[1] /\ u[Len(u)] = t[Len(t)]
  <2>1. Len(u) \in Len(s) + 1 .. Len(u) /\ Len(u) - Len(s) = Len(t) /\ 1 \in 1 .. Len(s)
    BY <1>1, <1>2, <1>3
  <2> QED
    BY <1>4, <2>1
<1>6. ASSUME NEW i \in 1 .. Len(u) PROVE u[i][1] < u[i][2]
  <2>1. CASE i <= Len(s)
    <3>1. i \in 1 .. Len(s)
      BY <1>1, <2>1
    <3> QED
      BY <1>4, <3>1 DEF CoversFrom
  <2>2. CASE ~(i <= Len(s))
    <3>1. i \in Len(s) + 1 .. Len(u) /\ i - Len(s) \in 1 .. Len(t)
      BY <1>1, <1>2, <1>3, <2>2
    <3> QED
      BY <1>4, <3>1 DEF CoversFrom
  <2> QED
    BY <2>1, <2>2
<1>7. ASSUME NEW i \in 1 .. Len(u) - 1
      PROVE  u[i][1] < u[i + 1][1] /\ u[i + 1][1] <= u[i][2] /\ (overlap = 0 => u[i + 1][1] = u[i][2])
  <2>1. CASE i < Len(s)
    <3>1. i \in 1 .. Len(s) /\ i + 1 \in 1 .. Len(s) /\ i \in 1 .. Len(s) - 1
      BY <1>1, <2>1
    <3>2. u[i] = s[i] /\ u[i + 1] = s[i + 1]
      BY <1>4, <3>1
    <3>3. s[i][1] < s[i + 1][1] /\ s[i + 1][1] <= s[i][2] /\ (overlap = 0 => s[i + 1][1] = s[i][2])
      BY <3>1 DEF CoversFrom
    <3> QED
      BY <3>2, <3>3
  <2>2. CASE i = Len(s)
    <3>1. i \in 1 .. Len(s) /\ i + 1 \in Len(s) + 1 .. Len(u) /\ (i + 1) - Len(s) = 1
      BY <1>1, <1>2, <1>3, <2>2
    <3>2. u[i] = s[Len(s)] /\ u[i + 1] = t[1]
      BY <1>4, <2>2, <3>1
    <3> QED
      BY <3>2 DEF CoversFrom
  <2>3. CASE i > Len(s)
    <3> DEFINE j == i - Len(s)
    <3>1. /\ i \in Len(s) + 1 .. Len(u) /\ i + 1 \in Len(s) + 1 .. Len(u)
          /\ j \in 1 .. Len(t) - 1 /\ (i + 1) - Len(s) = j + 1
      BY <1>1, <1>2, <1>3, <2>3
    <3>a. i - Len(s) = j
      OBVIOUS
    <3> HIDE DEF j
    <3>2. u[i] = t[j] /\ u[i + 1] = t[j + 1]
      BY ZenonT(60), <1>4, <3>1, <3>a
    <3>3. t[j][1] < t[j + 1][1] /\ t[j + 1][1] <= t[j][2] /\ (overlap = 0 => t[j + 1][1] = t[j][2])
      BY <3>1 DEF CoversFrom
    <3> QED
      BY <3>2, <3>3
  <2> QED
    BY <1>1, <2>1, <2>2, <2>3
<1>8. CoversFrom(u, c, n, overlap)
  <2>1. s[1][1] = c /\ t[Len(t)][2] = n
    BY DEF CoversFrom
  <2> QED
    BY <1>1, <1>2, <1>3, <1>5, <1>6, <1>7, <2>1 DEF CoversFrom, Spans_
<1> QED
  BY <1>8 DEF u

\* A recursion that covers its place up to n, or up to beyond where it goes on.
CutsSpans(n, r, overlap) ==
  \A c \in 0 .. n - 1 :
    /\ r.stops[c] => CoversFrom(r.base[c], c, n, overlap)
    /\ ~r.stops[c] => \E to \in c + 1 .. n - 1 :
                        /\ CoversFrom(r.head[c], c, to, overlap)
                        /\ r.next[c] \in c + 1 .. to /\ r.head[c][Len(r.head[c])][1] < r.next[c]
                        /\ overlap = 0 => r.next[c] = to

LEMMA DescentCovers ==
  ASSUME NEW n \in Nat \ {0}, NEW overlap, NEW r, NEW f, CutsSpans(n, r, overlap),
         \A c \in 0 .. n - 1 : f[c] = ValueIn(r, f, c)
  PROVE  CoversFrom(f[0], 0, n, overlap)
<1> DEFINE Open == {c \in 0 .. n - 1 : ~CoversFrom(f[c], c, n, overlap)}
<1>1. ASSUME NEW c \in 0 .. n - 1, \A d \in c + 1 .. n - 1 : CoversFrom(f[d], d, n, overlap)
      PROVE  CoversFrom(f[c], c, n, overlap)
  <2>1. f[c] = ValueIn(r, f, c)
    OBVIOUS
  <2>2. CASE r.stops[c]
    BY <2>1, <2>2 DEF CutsSpans, ValueIn
  <2>3. CASE ~r.stops[c]
    <3>1. PICK to \in c + 1 .. n - 1 :
            /\ CoversFrom(r.head[c], c, to, overlap)
            /\ r.next[c] \in c + 1 .. to /\ r.head[c][Len(r.head[c])][1] < r.next[c]
            /\ overlap = 0 => r.next[c] = to
      BY <2>3 DEF CutsSpans
    <3>2. f[c] = r.head[c] \o f[r.next[c]]
      BY <2>1, <2>3 DEF ValueIn
    <3>3. CoversFrom(f[r.next[c]], r.next[c], n, overlap)
      BY <1>1, <3>1
    <3>4. r.next[c] \in Nat /\ r.next[c] <= to /\ to \in Nat /\ c \in Nat /\ n \in Nat
      BY <3>1
    <3>5. CoversFrom(r.head[c] \o f[r.next[c]], c, n, overlap)
      BY ZenonT(60), <3>1, <3>3, <3>4, JoinedSpans
    <3> QED
      BY <3>2, <3>5
  <2> QED
    BY <2>2, <2>3
<1>2. Open = {}
  <2> SUFFICES ASSUME Open # {} PROVE FALSE
    OBVIOUS
  <2>1. Open \in SUBSET Nat /\ \A c \in Open : c <= n
    OBVIOUS
  <2>2. PICK c \in Open : \A d \in Open : d <= c
    BY <2>1, Greatest
  <2>3. \A d \in c + 1 .. n - 1 : CoversFrom(f[d], d, n, overlap)
    BY <2>2
  <2> QED
    BY <1>1, <2>2, <2>3
<1> QED
  BY <1>2

\* What is cut from a text.
LEMMA CutIsAList ==
  ASSUME NEW text, IsList(text), NEW from \in 0 .. Len(text), NEW to \in from .. Len(text)
  PROVE  IsList(Cut(text, from, to)) /\ Len(Cut(text, from, to)) = to - from
<1> DEFINE S == {text[i] : i \in DOMAIN text}
           cut == SubSeq(text, from + 1, to)
<1>1. text \in Seq(S) /\ Len(text) \in Nat
  BY DEF IsList
<1>2. \A i \in from + 1 .. to : text[i] \in S
  BY <1>1
<1>3. from + 1 \in Int /\ to \in Int
  BY <1>1
<1> HIDE DEF S
<1>4. cut \in Seq(S) /\ Len(cut) = IF from + 1 <= to THEN to - (from + 1) + 1 ELSE 0
  BY <1>2, <1>3, SubSeqProperties
<1>5. Len(cut) = to - from
  BY <1>1, <1>4
<1> HIDE DEF cut
<1>6. cut \in Seq({cut[i] : i \in DOMAIN cut})
  BY <1>4
<1> QED
  BY <1>5, <1>6 DEF Cut, IsList, cut

LEMMA CountIsANumber ==
  ASSUME NEW text, IsList(text)
  PROVE  Count(text) \in Nat
<1> DEFINE words == {i \in DOMAIN text : ~Space(text[i]) /\ (i = 1 \/ Space(text[i - 1]))}
<1>1. DOMAIN text = 1 .. Len(text) /\ Len(text) \in Nat
  BY DEF IsList
<1>2. IsFiniteSet(DOMAIN text)
  BY <1>1, FS_Interval
<1>3. words \in SUBSET DOMAIN text
  OBVIOUS
<1> HIDE DEF words
<1>4. IsFiniteSet(words)
  BY <1>2, <1>3, FS_Subset
<1>5. Cardinality(words) \in Nat
  BY <1>4, FS_CardinalityType
<1> QED
  BY <1>5 DEF Count, words

\* A range that starts later is part of one that starts at 1.
LEMMA LaterRange ==
  ASSUME NEW a \in Nat \ {0}, NEW b \in Nat
  PROVE  a .. b \subseteq 1 .. b
OBVIOUS

\* A list that is not empty has a length above zero.
LEMMA SomeLength ==
  ASSUME NEW s, IsList(s), s # <<>>
  PROVE  Len(s) \in Nat \ {0}
BY DEF IsList

\* The split point is inside the window.
LEMMA SplitPointInWindow ==
  ASSUME NEW rest, NEW size \in Nat \ {0}, IsList(rest), size <= Len(rest)
  PROVE  SplitPoint(rest, size) \in 1 .. size
<1> DEFINE window == SubSeq(rest, 1, size)
           found == {s \in DOMAIN Separators : Ends(window, Separators[s]) # {}}
<1>1. Cut(rest, 0, size) = window
  BY DEF Cut
<1>2. Len(window) = size
  <2>1. 0 \in 0 .. Len(rest) /\ size \in 0 .. Len(rest)
    BY DEF IsList
  <2>2. Len(Cut(rest, 0, size)) = size - 0
    BY <2>1, CutIsAList
  <2> QED
    BY <1>1, <2>2
<1> HIDE DEF window
<1>3. DOMAIN Separators = 1 .. 4 /\ \A s \in 1 .. 4 : Len(Separators[s]) \in 1 .. 2
  BY DEF Separators
<1>4. ASSUME NEW s \in 1 .. 4 PROVE Ends(window, Separators[s]) \subseteq 1 .. size
  <2> DEFINE sep == Separators[s]
  <2>1. Len(sep) \in 1 .. 2
    BY <1>3
  <2> HIDE DEF sep
  <2>2. Ends(window, sep) \subseteq Len(sep) .. Len(window)
    BY Zenon DEF Ends
  <2>3. Len(sep) .. Len(window) \subseteq 1 .. size
    <3>1. Len(sep) \in Nat \ {0} /\ size \in Nat
      BY <2>1
    <3> QED
      BY ZenonT(60), <1>2, <3>1, LaterRange
  <2> QED
    BY <2>2, <2>3 DEF sep
<1> DEFINE ends == Ends(window, Separators[Min(found)])
<1>5. SplitPoint(rest, size) = IF found = {} THEN size ELSE Max(ends)
  BY DEF SplitPoint, window
<1>6. CASE found # {}
  <2>1. found \in SUBSET Nat
    BY <1>3
  <2>2. Min(found) \in found
    BY <1>6, <2>1, MinIsLeast
  <2>3. ends # {} /\ ends \subseteq 1 .. size
    BY <1>3, <1>4, <2>2
  <2> HIDE DEF ends, found
  <2>4. ends \in SUBSET Nat /\ \A x \in ends : x <= size
    BY <2>3
  <2>5. Max(ends) \in ends
    BY <2>3, <2>4, MaxIsGreatest
  <2> QED
    BY <1>5, <1>6, <2>3, <2>5
<1>7. CASE found = {}
  BY <1>5, <1>7
<1> QED
  BY <1>6, <1>7

\* The cursor advances, and not beyond the chunk.
LEMMA ResumeInChunk ==
  ASSUME NEW text, IsList(text), NEW from \in 0 .. Len(text), NEW to \in from + 1 .. Len(text), NEW overlap \in Nat
  PROVE  /\ Resume(text, from, to, overlap) \in from + 1 .. to
         /\ overlap = 0 => Resume(text, from, to, overlap) = to
<1> DEFINE words == Count(Cut(text, from, to))
           shared == IF words > 0 /\ overlap > 0 THEN Min({overlap, words - 1}) ELSE 0
           back == IF words = 0 THEN 0 ELSE ((to - from) * shared) \div words
           next == to - back
<1>1. Len(text) \in Nat
  BY DEF IsList
<1>2. IsList(Cut(text, from, to))
  <2>1. to \in from .. Len(text)
    BY <1>1
  <2> QED
    BY <2>1, CutIsAList
<1>3. words \in Nat
  BY <1>2, CountIsANumber
<1> HIDE DEF words
<1>4. shared \in Nat
  <2>1. CASE words > 0 /\ overlap > 0
    <3>1. {overlap, words - 1} \in SUBSET Nat /\ {overlap, words - 1} # {}
      BY <1>3, <2>1
    <3>2. Min({overlap, words - 1}) \in {overlap, words - 1}
      BY <3>1, MinIsLeast
    <3> QED
      BY <2>1, <3>1, <3>2
  <2> QED
    BY <2>1
<1>a. overlap = 0 => shared = 0
  OBVIOUS
<1> HIDE DEF shared
<1>5. back \in Nat
  <2>1. to - from \in Nat
    BY <1>1
  <2>2. \A a, b \in Nat : a * b \in Nat
    OBVIOUS
  <2>3. (to - from) * shared \in Nat
    BY <1>4, <2>1, <2>2
  <2>4. \A a \in Nat, b \in Nat \ {0} : a \div b \in Nat
    OBVIOUS
  <2> QED
    BY <1>3, <2>3, <2>4
<1>b. overlap = 0 => back = 0
  <2> SUFFICES ASSUME overlap = 0 PROVE back = 0
    OBVIOUS
  <2>1. (to - from) * shared = 0
    BY <1>1, <1>a
  <2>2. \A b \in Nat \ {0} : 0 \div b = 0
    OBVIOUS
  <2> QED
    BY <1>3, <2>1, <2>2
<1> HIDE DEF back
<1>6. (IF next <= from THEN from + 1 ELSE next) \in from + 1 .. to
  BY <1>1, <1>5
<1>7. Resume(text, from, to, overlap) = IF next <= from THEN from + 1 ELSE next
  BY DEF Resume, back, shared, words
<1> QED
  BY <1>1, <1>6, <1>7, <1>b

\* The chunks of a text cover it, for every text, limit and overlap.
LEMMA SplitCovers ==
  ASSUME NEW text, IsList(text), text # <<>>, NEW max \in Nat \ {0}, NEW overlap \in Nat
  PROVE  CoversFrom(SplitText(text, max, overlap), 0, Len(text), overlap)
<1> DEFINE n == Len(text)
           Rest(c) == Cut(text, c, n)
           Window(c) == Min({c + (Len(Rest(c)) * max) \div Count(Rest(c)) + 1, n})
           To(c) == c + SplitPoint(Rest(c), Window(c) - c)
           Stops(c) == c = n \/ Count(Rest(c)) <= max \/ To(c) >= n
           Base(c) == IF c = n THEN <<>> ELSE IF Count(Rest(c)) <= max THEN <<<<c, n>>>> ELSE <<<<c, To(c)>>>>
           stops == [c \in 0 .. n |-> Stops(c)]
           base == [c \in 0 .. n |-> Base(c)]
           head == [c \in 0 .. n |-> <<<<c, To(c)>>>>]
           next == [c \in 0 .. n |-> Resume(text, c, To(c), overlap)]
           r == [stops |-> stops, base |-> base, head |-> head, next |-> next]
<1>1. n \in Nat \ {0}
  BY DEF IsList
<1>2. ASSUME NEW c \in 0 .. n - 1, ~(Count(Rest(c)) <= max) PROVE To(c) \in c + 1 .. n
  <2>1. IsList(Rest(c)) /\ Len(Rest(c)) = n - c
    <3>1. c \in 0 .. Len(text) /\ n \in c .. Len(text)
      BY <1>1
    <3> QED
      BY <3>1, CutIsAList
  <2>2. Count(Rest(c)) \in Nat \ {0}
    BY <1>2, <2>1, CountIsANumber
  <2> DEFINE reach == (Len(Rest(c)) * max) \div Count(Rest(c))
  <2>3. reach \in Nat
    <3>1. \A a, b \in Nat : a * b \in Nat
      OBVIOUS
    <3>2. \A a \in Nat, b \in Nat \ {0} : a \div b \in Nat
      OBVIOUS
    <3>3. Len(Rest(c)) * max \in Nat
      BY <1>1, <2>1, <3>1
    <3> QED
      BY <2>2, <3>2, <3>3
  <2>4. Window(c) \in c + 1 .. n
    <3> HIDE DEF reach
    <3> DEFINE both == {c + reach + 1, n}
    <3>1. both \in SUBSET Nat /\ both # {} /\ both \subseteq {c + reach + 1, n} /\ n \in both
      BY <1>1, <2>3
    <3>a. \A x \in both : x = c + reach + 1 \/ x = n
      OBVIOUS
    <3> HIDE DEF both
    <3>2. Min(both) \in both /\ Min(both) <= n
      BY <3>1, MinIsLeast
    <3>3. Min(both) \in c + 1 .. n
      BY <1>1, <2>3, <3>2, <3>a
    <3> QED
      BY <3>3 DEF both, reach
  <2> HIDE DEF Window, Rest
  <2>5. Window(c) - c \in Nat \ {0} /\ Window(c) - c <= Len(Rest(c))
    BY <1>1, <2>1, <2>4
  <2>6. SplitPoint(Rest(c), Window(c) - c) \in 1 .. Window(c) - c
    BY <2>1, <2>5, SplitPointInWindow
  <2> QED
    BY <1>1, <2>4, <2>6
<1>3. ASSUME NEW c \in 0 .. n - 1, ~Stops(c)
      PROVE  /\ To(c) \in c + 1 .. n - 1 /\ Resume(text, c, To(c), overlap) \in c + 1 .. To(c)
             /\ overlap = 0 => Resume(text, c, To(c), overlap) = To(c)
  <2>1. To(c) \in c + 1 .. n /\ ~(To(c) >= n)
    BY <1>2, <1>3
  <2> HIDE DEF To
  <2>2. To(c) \in c + 1 .. n - 1 /\ c \in 0 .. Len(text) /\ To(c) \in c + 1 .. Len(text)
    BY <1>1, <2>1
  <2>3. /\ Resume(text, c, To(c), overlap) \in c + 1 .. To(c)
        /\ overlap = 0 => Resume(text, c, To(c), overlap) = To(c)
    BY <2>2, ResumeInChunk
  <2> QED
    BY ZenonT(60), <2>2, <2>3
<1>4. ASSUME NEW c \in 0 .. n - 1, Stops(c) PROVE Base(c) = <<<<c, n>>>>
  <2>1. c # n
    BY <1>1
  <2>2. CASE Count(Rest(c)) <= max
    BY <2>1, <2>2
  <2>3. CASE ~(Count(Rest(c)) <= max)
    <3>1. To(c) \in c + 1 .. n /\ To(c) >= n
      BY <1>2, <1>4, <2>1, <2>3
    <3> HIDE DEF To
    <3>2. To(c) = n
      BY <1>1, <3>1
    <3> QED
      BY <2>1, <2>3, <3>2
  <2> QED
    BY <2>2, <2>3
<1> DEFINE Value(f, c) == IF c = n THEN <<>> ELSE IF Count(Rest(c)) <= max THEN <<<<c, n>>>>
                          ELSE IF To(c) >= n THEN <<<<c, To(c)>>>>
                          ELSE <<<<c, To(c)>>>> \o f[Resume(text, c, To(c), overlap)]
           spans == CHOOSE f : f = [c \in 0 .. n |-> Value(f, c)]
<1>5. SplitText(text, max, overlap) = spans[0]
  BY <1>1 DEF SplitText
<1> HIDE DEF Rest, Window, To
<1>6. ASSUME NEW f, NEW c \in 0 .. n
      PROVE  Value(f, c) = ValueIn(r, f, c)
  BY DEF ValueIn
<1>7. \A c \in 0 .. n : ~stops[c] => next[c] \in c + 1 .. n
  <2> SUFFICES ASSUME NEW c \in 0 .. n, ~Stops(c) PROVE Resume(text, c, To(c), overlap) \in c + 1 .. n
    OBVIOUS
  <2>1. c \in 0 .. n - 1
    BY <1>1
  <2> QED
    BY <1>1, <1>3, <2>1
<1>n. n \in Nat
  BY <1>1
<1> HIDE DEF stops, base, head, next, Value, n
<1>r. r.stops = stops /\ r.base = base /\ r.head = head /\ r.next = next
  OBVIOUS
<1> HIDE DEF r
<1>d. IsDescent(n, r)
  BY <1>7, <1>r DEF IsDescent
<1>8. PICK g : g = [c \in 0 .. n |-> ValueIn(r, g, c)]
  BY <1>n, <1>d, Descends
<1>9. g = [c \in 0 .. n |-> Value(g, c)]
  <2> DEFINE left == [c \in 0 .. n |-> ValueIn(r, g, c)]
             right == [c \in 0 .. n |-> Value(g, c)]
  <2>1. \A c \in 0 .. n : left[c] = right[c]
    BY <1>6
  <2>2. left = right
    BY <2>1
  <2> QED
    BY <1>8, <2>2
<1>10. spans = [c \in 0 .. n |-> Value(spans, c)]
  BY <1>9
<1> HIDE DEF spans
<1>11. \A c \in 0 .. n - 1 : spans[c] = ValueIn(r, spans, c)
  <2>1. \A c \in 0 .. n : spans[c] = Value(spans, c)
    BY <1>10
  <2> QED
    BY <1>6, <1>n, <2>1
<1>12. ASSUME NEW c \in 0 .. n - 1, stops[c] PROVE CoversFrom(base[c], c, n, overlap)
  <2>1. c \in 0 .. n /\ c \in Nat /\ c < n
    BY <1>1
  <2>2. Stops(c)
    BY <1>12, <2>1 DEF stops
  <2> HIDE DEF Stops, Base
  <2>3. Base(c) = <<<<c, n>>>>
    BY <1>4, <2>2 DEF n
  <2>4. base[c] = <<<<c, n>>>>
    BY <2>1, <2>3 DEF base
  <2> QED
    BY <1>n, <2>1, <2>4, OneSpan
<1>13. ASSUME NEW c \in 0 .. n - 1, ~stops[c]
       PROVE  \E to \in c + 1 .. n - 1 :
                /\ CoversFrom(head[c], c, to, overlap)
                /\ next[c] \in c + 1 .. to /\ head[c][Len(head[c])][1] < next[c]
                /\ overlap = 0 => next[c] = to
  <2>1. c \in 0 .. n
    BY <1>1
  <2>2. ~Stops(c)
    BY <1>13, <2>1 DEF stops
  <2>3. /\ To(c) \in c + 1 .. n - 1 /\ Resume(text, c, To(c), overlap) \in c + 1 .. To(c)
        /\ overlap = 0 => Resume(text, c, To(c), overlap) = To(c)
    <3> HIDE DEF Stops
    <3> QED
      BY <1>3, <2>2 DEF n
  <2>4. head[c] = <<<<c, To(c)>>>> /\ next[c] = Resume(text, c, To(c), overlap)
    BY <2>1 DEF head, next
  <2>5. c \in Nat /\ To(c) \in Nat /\ c < To(c)
    BY <2>3
  <2>6. CoversFrom(head[c], c, To(c), overlap)
    BY <2>4, <2>5, OneSpan
  <2>7. head[c][Len(head[c])][1] = c
    BY <2>4
  <2> QED
    BY <2>3, <2>4, <2>5, <2>6, <2>7
<1>c. CutsSpans(n, r, overlap)
  BY <1>12, <1>13, <1>r DEF CutsSpans
<1>14. CoversFrom(spans[0], 0, n, overlap)
  BY <1>1, <1>11, <1>c, DescentCovers
<1> QED
  BY <1>5, <1>14 DEF n

\* Numbers moved by the same amount stay in their order.
LEMMA SameShift ==
  ASSUME NEW c \in Nat, NEW x \in Nat, NEW y \in Nat
  PROVE  (x < y => c + x < c + y) /\ (x <= y => c + x <= c + y) /\ (x = y => c + x = c + y)
OBVIOUS

\* Spans of a part of a text, counted from where the text begins.
LEMMA ShiftedSpans ==
  ASSUME NEW c \in Nat, NEW m \in Nat, NEW s, NEW overlap, CoversFrom(s, 0, m, overlap)
  PROVE  CoversFrom([i \in DOMAIN s |-> <<c + s[i][1], c + s[i][2]>>], c, c + m, overlap)
<1> DEFINE u == [i \in DOMAIN s |-> <<c + s[i][1], c + s[i][2]>>]
<1>1. s \in Seq(Nat \X Nat) /\ Len(s) \in Nat /\ Len(s) >= 1 /\ DOMAIN s = 1 .. Len(s)
  BY DEF CoversFrom
<1>2. \A i \in 1 .. Len(s) : s[i][1] \in Nat /\ s[i][2] \in Nat
  BY <1>1
<1>3. \A i \in 1 .. Len(s) : u[i] \in Nat \X Nat /\ u[i][1] = c + s[i][1] /\ u[i][2] = c + s[i][2]
  BY <1>1, <1>2
<1>4. DOMAIN u = 1 .. Len(s)
  BY <1>1
<1>a. u = [i \in 1 .. Len(s) |-> u[i]]
  <2>1. DOMAIN u = DOMAIN s /\ \A i \in DOMAIN s : u[i] = <<c + s[i][1], c + s[i][2]>>
    OBVIOUS
  <2>2. u = [i \in DOMAIN u |-> u[i]]
    OBVIOUS
  <2> HIDE DEF u
  <2> QED
    BY <1>1, <2>1, <2>2
<1> HIDE DEF u
<1> DEFINE Spans_ == Nat \X Nat
           size == Len(s)
<1>b. \A i \in 1 .. size : u[i] \in Spans_
  BY <1>3
<1> HIDE DEF Spans_
<1>5. u \in Seq(Spans_) /\ Len(u) = size
  <2>1. size \in Nat /\ DOMAIN u = 1 .. size /\ u = [i \in 1 .. size |-> u[i]]
    BY <1>1, <1>4, <1>a
  <2> HIDE DEF size
  <2>2. u \in [1 .. size -> Spans_]
    BY <1>b, <2>1
  <2>3. u \in Seq(Spans_)
    BY <2>1, <2>2, SeqDef
  <2>4. Len(u) = size
    <3>a. Len(u) \in Nat /\ DOMAIN u = 1 .. Len(u)
      BY <2>3, LenProperties
    <3>1. Len(u) \in Nat /\ 1 .. Len(u) = 1 .. size
      BY <2>1, <3>a
    <3>b. Len(u) \in 1 .. Len(u) \/ Len(u) = 0
      BY <3>a
    <3>2. Len(u) \in 1 .. size \/ Len(u) = 0
      BY <3>1, <3>b
    <3>3. size \in 1 .. Len(u) \/ size = 0
      BY <2>1, <3>1
    <3> QED
      BY <2>1, <3>1, <3>2, <3>3
  <2> QED
    BY <2>3, <2>4
<1>6. u[1][1] = c /\ u[Len(u)][2] = c + m
  <2>1. s[1][1] = 0 /\ s[Len(s)][2] = m /\ 1 \in 1 .. Len(s) /\ Len(s) \in 1 .. Len(s)
    BY <1>1 DEF CoversFrom
  <2>2. u[1][1] = c + s[1][1] /\ u[Len(s)][2] = c + s[Len(s)][2]
    BY <1>3, <2>1
  <2> QED
    BY <1>5, <2>1, <2>2
<1>7. ASSUME NEW i \in 1 .. Len(s) PROVE u[i][1] < u[i][2]
  <2>1. s[i][1] < s[i][2]
    BY DEF CoversFrom
  <2> QED
    BY <1>2, <1>3, <2>1
<1>8. ASSUME NEW i \in 1 .. Len(s) - 1
      PROVE  u[i][1] < u[i + 1][1] /\ u[i + 1][1] <= u[i][2] /\ (overlap = 0 => u[i + 1][1] = u[i][2])
  <2>1. s[i][1] < s[i + 1][1] /\ s[i + 1][1] <= s[i][2] /\ (overlap = 0 => s[i + 1][1] = s[i][2])
    BY DEF CoversFrom
  <2>2. i \in 1 .. Len(s) /\ i + 1 \in 1 .. Len(s)
    BY <1>1
  <2>3. /\ s[i][1] \in Nat /\ s[i][2] \in Nat /\ s[i + 1][1] \in Nat
        /\ u[i][1] = c + s[i][1] /\ u[i][2] = c + s[i][2] /\ u[i + 1][1] = c + s[i + 1][1]
    BY <1>2, <1>3, <2>2
  <2>4. /\ c + s[i][1] < c + s[i + 1][1] /\ c + s[i + 1][1] <= c + s[i][2]
        /\ overlap = 0 => c + s[i + 1][1] = c + s[i][2]
    BY ZenonT(60), <2>1, <2>3, SameShift
  <2> QED
    BY ZenonT(60), <2>3, <2>4
<1>9. CoversFrom(u, c, c + m, overlap)
  BY <1>1, <1>5, <1>6, <1>7, <1>8 DEF CoversFrom, Spans_
<1> QED
  BY <1>9 DEF u

\* The chunks of code tile it, wherever the boundaries of its language are.
LEMMA CodeCovers ==
  ASSUME NEW text, IsList(text), text # <<>>, NEW max \in Nat \ {0}, NEW language
  PROVE  CoversFrom(SplitCode(text, max, language), 0, Len(text), 0)
<1> DEFINE n == Len(text)
           starts == {LineStarts(text)[k] : k \in Boundaries(Lines(text), language)}
           Ahead(c) == {s \in c + 1 .. n : s \in starts \/ s = n}
           End(c) == Min(Ahead(c))
           Inner(c) == SplitText(Cut(text, c, End(c)), max, 0)
           Unit(c) == [i \in DOMAIN Inner(c) |-> <<c + Inner(c)[i][1], c + Inner(c)[i][2]>>]
           Value(f, c) == IF End(c) = n THEN Unit(c) ELSE Unit(c) \o f[End(c)]
           spans == CHOOSE f : f = [c \in 0 .. n - 1 |-> Value(f, c)]
<1>1. n \in Nat \ {0}
  BY ZenonT(60), SomeLength
<1>2. SplitCode(text, max, language) = spans[0]
  BY <1>1 DEF SplitCode
<1> HIDE DEF starts
<1>3. ASSUME NEW c \in 0 .. n - 1 PROVE End(c) \in c + 1 .. n
  <2>1. n \in Ahead(c) /\ Ahead(c) \in SUBSET Nat /\ Ahead(c) \subseteq c + 1 .. n
    BY <1>1
  <2> HIDE DEF Ahead
  <2>2. Min(Ahead(c)) \in Ahead(c)
    BY <2>1, MinIsLeast
  <2> QED
    BY <2>1, <2>2
<1> HIDE DEF End
<1>4. ASSUME NEW c \in 0 .. n - 1 PROVE CoversFrom(Unit(c), c, End(c), 0)
  <2>1. c \in 0 .. Len(text) /\ End(c) \in c .. Len(text) /\ End(c) - c \in Nat \ {0} /\ c \in Nat /\ c + (End(c) - c) = End(c)
    BY <1>1, <1>3
  <2>2. IsList(Cut(text, c, End(c))) /\ Len(Cut(text, c, End(c))) = End(c) - c
    BY <2>1, CutIsAList
  <2>3. Cut(text, c, End(c)) # <<>>
    BY <2>1, <2>2
  <2>4. CoversFrom(Inner(c), 0, End(c) - c, 0)
    <3>1. 0 \in Nat
      OBVIOUS
    <3>2. CoversFrom(Inner(c), 0, Len(Cut(text, c, End(c))), 0)
      BY <2>2, <2>3, <3>1, SplitCovers
    <3> QED
      BY <2>2, <3>2
  <2> HIDE DEF Inner
  <2>5. CoversFrom(Unit(c), c, c + (End(c) - c), 0)
    BY <2>1, <2>4, ShiftedSpans
  <2> QED
    BY <2>1, <2>5
<1> HIDE DEF Inner, Unit
<1> DEFINE stops == [c \in 0 .. n - 1 |-> End(c) = n]
           units == [c \in 0 .. n - 1 |-> Unit(c)]
           next == [c \in 0 .. n - 1 |-> End(c)]
           r == [stops |-> stops, base |-> units, head |-> units, next |-> next]
<1>5. ASSUME NEW f, NEW c \in 0 .. n - 1 PROVE Value(f, c) = ValueIn(r, f, c)
  BY DEF ValueIn
<1>6. IsDescent(n - 1, r)
  <2> SUFFICES ASSUME NEW c \in 0 .. n - 1, End(c) # n PROVE End(c) \in c + 1 .. n - 1
    BY DEF IsDescent
  <2> QED
    BY <1>1, <1>3
<1>7. CutsSpans(n, r, 0)
  <2>1. ASSUME NEW c \in 0 .. n - 1, End(c) = n PROVE CoversFrom(Unit(c), c, n, 0)
    BY <1>4, <2>1
  <2>2. ASSUME NEW c \in 0 .. n - 1, End(c) # n
        PROVE  /\ End(c) \in c + 1 .. n - 1 /\ CoversFrom(Unit(c), c, End(c), 0)
               /\ Unit(c)[Len(Unit(c))][1] < End(c)
    <3>1. End(c) \in c + 1 .. n - 1 /\ CoversFrom(Unit(c), c, End(c), 0)
      BY <1>1, <1>3, <1>4, <2>2
    <3>2. Len(Unit(c)) \in 1 .. Len(Unit(c))
      BY <3>1 DEF CoversFrom
    <3> QED
      BY <3>1, <3>2 DEF CoversFrom
  <2>3. ASSUME NEW c \in 0 .. n - 1
        PROVE  /\ r.stops[c] <=> End(c) = n
               /\ r.base[c] = Unit(c) /\ r.head[c] = Unit(c) /\ r.next[c] = End(c)
    OBVIOUS
  <2> HIDE DEF r
  <2>4. ASSUME NEW c \in 0 .. n - 1, ~r.stops[c]
        PROVE  \E to \in c + 1 .. n - 1 :
                 /\ CoversFrom(r.head[c], c, to, 0)
                 /\ r.next[c] \in c + 1 .. to /\ r.head[c][Len(r.head[c])][1] < r.next[c]
                 /\ 0 = 0 => r.next[c] = to
    <3>1. End(c) \in c + 1 .. n - 1 /\ End(c) \in c + 1 .. End(c)
      BY <2>2, <2>3, <2>4
    <3> QED
      BY ZenonT(60), <2>2, <2>3, <2>4, <3>1
  <2>5. ASSUME NEW c \in 0 .. n - 1, r.stops[c] PROVE CoversFrom(r.base[c], c, n, 0)
    BY <2>1, <2>3, <2>5
  <2> QED
    BY <2>4, <2>5 DEF CutsSpans
<1> HIDE DEF r, Value, n
<1>m. n - 1 \in Nat
  BY <1>1 DEF n
<1>8. PICK g : g = [c \in 0 .. n - 1 |-> ValueIn(r, g, c)]
  BY <1>6, <1>m, Descends
<1>9. g = [c \in 0 .. n - 1 |-> Value(g, c)]
  <2> DEFINE left == [c \in 0 .. n - 1 |-> ValueIn(r, g, c)]
             right == [c \in 0 .. n - 1 |-> Value(g, c)]
  <2>1. \A c \in 0 .. n - 1 : left[c] = right[c]
    BY <1>5
  <2>2. left = right
    BY <2>1
  <2> QED
    BY <1>8, <2>2
<1>10. spans = [c \in 0 .. n - 1 |-> Value(spans, c)]
  BY <1>9
<1> HIDE DEF spans
<1>11. \A c \in 0 .. n - 1 : spans[c] = ValueIn(r, spans, c)
  <2>1. \A c \in 0 .. n - 1 : spans[c] = Value(spans, c)
    BY <1>10
  <2> QED
    BY <1>5, <2>1
<1>12. CoversFrom(spans[0], 0, n, 0)
  BY <1>1, <1>7, <1>11, DescentCovers
<1> QED
  BY <1>2, <1>12 DEF n

\* Each span ends where the next begins.
Tiled(spans) == \A i \in 1 .. Len(spans) - 1 : spans[i][2] = spans[i + 1][1]

\* What a rule cuts from a text covers it, and code is tiled in every language.
LEMMA SpansCover ==
  ASSUME NEW text, IsList(text), NEW rule, rule.max \in Nat \ {0}, rule.overlap \in Nat, NEW language
  PROVE  /\ IsList(Spans(text, rule, language)) /\ Covers(Spans(text, rule, language), text)
         /\ Covers(SplitCode(text, rule.max, language), text)
         /\ Tiled(SplitCode(text, rule.max, language))
<1>1. ASSUME NEW s, NEW overlap, CoversFrom(s, 0, Len(text), overlap)
      PROVE  IsList(s) /\ Covers(s, text)
  <2>1. s \in Seq(Nat \X Nat) /\ DOMAIN s = 1 .. Len(s)
    BY <1>1 DEF CoversFrom
  <2>2. IsList(s)
    BY ZenonT(60), <2>1, ListIn
  <2> QED
    BY <1>1, <2>1, <2>2 DEF Covers, CoversFrom, Last
<1> DEFINE code == SplitCode(text, rule.max, language)
<1>2. CASE text = <<>>
  <2>1. Len(text) = 0 /\ DOMAIN text = {}
    BY <1>2
  <2>2. Count(text) = 0
    BY <2>1, FS_EmptySet DEF Count
  <2>3. code = <<<<0, 0>>>> /\ Spans(text, rule, language) = <<<<0, 0>>>>
    BY <1>2, <2>1, <2>2 DEF Spans, SplitCode
  <2> DEFINE none == <<<<0, 0>>>>
  <2>4. Len(none) = 1 /\ none[1] = <<0, 0>> /\ DOMAIN none = {1}
    OBVIOUS
  <2>5. IsList(none)
    BY <2>4 DEF IsList
  <2>6. Covers(none, text)
    BY <1>2, <2>1, <2>4 DEF Covers, Last
  <2>7. Tiled(none)
    BY <2>4 DEF Tiled
  <2> QED
    BY <2>3, <2>5, <2>6, <2>7
<1>3. CASE text # <<>>
  <2>1. Len(text) \in Nat /\ 0 < Len(text)
    BY <1>3 DEF IsList
  <2>2. CoversFrom(code, 0, Len(text), 0)
    BY <1>3, CodeCovers
  <2>3. Tiled(code)
    BY <2>2 DEF CoversFrom, Tiled
  <2>4. IsList(code) /\ Covers(code, text)
    BY <1>1, <2>2
  <2>5. CASE rule.strategy = "code_syntax"
    BY <2>3, <2>4, <2>5 DEF Spans
  <2>6. CASE rule.strategy # "code_syntax" /\ Count(text) = 0
    <3>1. 0 \in Nat
      OBVIOUS
    <3>2. CoversFrom(<<<<0, Len(text)>>>>, 0, Len(text), 0)
      BY <2>1, <3>1, OneSpan
    <3>3. Spans(text, rule, language) = <<<<0, Len(text)>>>>
      BY <2>6 DEF Spans
    <3> QED
      BY <1>1, <2>3, <2>4, <3>2, <3>3
  <2>7. CASE rule.strategy # "code_syntax" /\ Count(text) # 0
    <3>1. CoversFrom(SplitText(text, rule.max, rule.overlap), 0, Len(text), rule.overlap)
      BY <1>3, SplitCovers
    <3>2. Spans(text, rule, language) = SplitText(text, rule.max, rule.overlap)
      BY <2>7 DEF Spans
    <3> QED
      BY <1>1, <2>3, <2>4, <3>1, <3>2
  <2> QED
    BY <2>5, <2>6, <2>7
<1> QED
  BY <1>2, <1>3

-----------------------------------------------------------------------------
(* Tier 1: a normalised text is a text *)

\* A loop over 1 .. n that starts from v and whose every step stays in V has a course.
IsLoop(n, V, v, step) == n \in Nat /\ v \in V /\ step \in [1 .. n -> [V -> V]]
IsCourse(f, n, V, v, step) ==
  f \in [0 .. n -> V] /\ f[0] = v /\ \A i \in 1 .. n : f[i] = step[i][f[i - 1]]
LEMMA Iterated ==
  ASSUME NEW n, NEW V, NEW v, NEW step, IsLoop(n, V, v, step)
  PROVE  \E f : IsCourse(f, n, V, v, step)
<1> DEFINE Next_(f, i) == IF i = 0 THEN v ELSE step[i][f[i - 1]]
           Upto(f, k) == f \in [0 .. k -> V] /\ \A i \in 0 .. k : f[i] = Next_(f, i)
           S == {m \in 1 .. n + 1 : \E f : Upto(f, m - 1)}
<1> USE DEF IsLoop
<1>1. ASSUME NEW m \in 1 .. n + 1, m = 1 \/ m - 1 \in S PROVE m \in S
  <2>1. CASE m = 1
    <3> DEFINE g == [i \in 0 .. 0 |-> v]
    <3>1. g \in [0 .. 0 -> V] /\ \A i \in 0 .. 0 : g[i] = Next_(g, i)
      OBVIOUS
    <3>2. m - 1 = 0
      BY <2>1
    <3> QED
      BY <3>1, <3>2
  <2>2. CASE m # 1
    <3>1. m - 1 \in 1 .. n /\ m - 1 - 1 = m - 2
      BY <2>2
    <3>2. PICK f : f \in [0 .. m - 2 -> V] /\ \A i \in 0 .. m - 2 : f[i] = Next_(f, i)
      BY <1>1, <2>2, <3>1
    <3> DEFINE x == step[m - 1][f[m - 2]]
               g == [i \in 0 .. m - 1 |-> IF i = m - 1 THEN x ELSE f[i]]
    <3>3. x \in V
      <4>1. m - 2 \in 0 .. m - 2
        BY <3>1
      <4>2. f[m - 2] \in V /\ step[m - 1] \in [V -> V]
        BY <3>1, <3>2, <4>1
      <4> QED
        BY <4>2
    <3>4. \A i \in 0 .. m - 1 : i # m - 1 => i \in 0 .. m - 2
      BY <3>1
    <3>5. g \in [0 .. m - 1 -> V]
      BY <3>2, <3>3, <3>4
    <3>6. (\A i \in 0 .. m - 2 : g[i] = f[i]) /\ g[m - 1] = x
      BY <3>1
    <3> HIDE DEF g, x
    <3>7. ASSUME NEW i \in 0 .. m - 1 PROVE g[i] = Next_(g, i)
      <4>1. CASE i = m - 1
        <5>1. i # 0 /\ i - 1 = m - 2 /\ m - 2 \in 0 .. m - 2
          BY <3>1, <4>1
        <5>2. g[i - 1] = f[m - 2] /\ step[i] = step[m - 1]
          BY <3>6, <4>1, <5>1
        <5> QED
          BY <3>6, <4>1, <5>1, <5>2 DEF x
      <4>2. CASE i # m - 1
        <5>1. i \in 0 .. m - 2 /\ (i # 0 => i - 1 \in 0 .. m - 2)
          BY <3>1, <4>2
        <5>2. i # 0 => g[i - 1] = f[i - 1]
          BY <3>6, <5>1
        <5> QED
          BY <3>2, <3>6, <5>1, <5>2
      <4> QED
        BY <4>1, <4>2
    <3>8. Upto(g, m - 1)
      BY <3>5, <3>7
    <3> QED
      BY <3>8
  <2> QED
    BY <2>1, <2>2
<1> HIDE DEF S
<1>2. \E k \in S : k - 1 = n
  <2>1. 1 .. n + 1 \subseteq S
    <3>1. n + 1 \in Nat
      OBVIOUS
    <3> QED
      BY <1>1, <3>1, Climbs
  <2>2. n + 1 \in 1 .. n + 1 /\ n + 1 - 1 = n
    OBVIOUS
  <2> QED
    BY <2>1, <2>2
<1> HIDE DEF Upto
<1>3. \A k \in S : \E f : Upto(f, k - 1)
  BY DEF S
<1>4. PICK f : Upto(f, n)
  BY <1>2, <1>3
<1>5. 0 \in 0 .. n /\ \A i \in 1 .. n : i \in 0 .. n /\ i # 0
  OBVIOUS
<1> QED
  BY <1>4, <1>5 DEF Upto, IsCourse

\* What is in V at first and after every step is in V at last.
LEMMA StaysIn ==
  ASSUME NEW n \in Nat, NEW V, NEW g, g[0] \in V, \A i \in 1 .. n : g[i - 1] \in V => g[i] \in V
  PROVE  g[n] \in V
<1> DEFINE S == {i \in 1 .. n : g[i] \in V}
<1>1. ASSUME NEW m \in 1 .. n, m = 1 \/ m - 1 \in S PROVE m \in S
  <2>1. CASE m = 1
    <3>1. m - 1 = 0
      BY <2>1
    <3> QED
      BY <3>1
  <2>2. CASE m # 1
    BY <1>1, <2>2
  <2> QED
    BY <2>1, <2>2
<1> HIDE DEF S
<1>2. 1 .. n \subseteq S
  BY <1>1, Climbs
<1>3. CASE n = 0
  BY <1>3
<1>4. CASE n # 0
  <2>1. n \in 1 .. n
    BY <1>4
  <2> QED
    BY <1>2, <2>1 DEF S
<1> QED
  BY <1>3, <1>4

\* What is selected from a list is a list of the same things.
LEMMA SelectedIn ==
  ASSUME NEW T, NEW s \in Seq(T), NEW kept
  PROVE  Selected(s, kept) \in Seq(T)
<1> DEFINE n == Len(s)
           V == Seq(T)
           Next_(w, i) == IF i \in kept THEN Append(w, s[i]) ELSE w
           Solves(f) == f = [i \in 0 .. n |-> IF i = 0 THEN <<>> ELSE Next_(f[i - 1], i)]
<1>1. n \in Nat /\ \A i \in 1 .. n : s[i] \in T
  BY LenProperties, ElementOfSeq
<1>2. Selected(s, kept) = (CHOOSE f : Solves(f))[n]
  BY DEF Selected
<1>3. <<>> \in V /\ \A i \in 1 .. n : \A w \in V : Next_(w, i) \in V
  BY <1>1, EmptySeq, AppendProperties
<1> HIDE DEF n, V, Next_
<1>4. \E f : Solves(f)
  <2> DEFINE step == [i \in 1 .. n |-> [w \in V |-> Next_(w, i)]]
  <2>1. step \in [1 .. n -> [V -> V]] /\ \A i \in 1 .. n : \A w \in V : step[i][w] = Next_(w, i)
    BY <1>3
  <2> HIDE DEF step
  <2>2. PICK f \in [0 .. n -> V] : f[0] = <<>> /\ \A i \in 1 .. n : f[i] = step[i][f[i - 1]]
    <3> DEFINE v == <<>>
    <3>1. IsLoop(n, V, v, step)
      BY <1>1, <1>3, <2>1 DEF IsLoop
    <3> HIDE DEF v
    <3>2. PICK f : IsCourse(f, n, V, v, step)
      BY <3>1, Iterated
    <3> QED
      BY <3>2 DEF IsCourse, v
  <2>3. \A i \in 0 .. n : f[i] = IF i = 0 THEN <<>> ELSE Next_(f[i - 1], i)
    <3> SUFFICES ASSUME NEW i \in 0 .. n PROVE f[i] = IF i = 0 THEN <<>> ELSE Next_(f[i - 1], i)
      OBVIOUS
    <3>1. i # 0 => i \in 1 .. n /\ i - 1 \in 0 .. n
      BY <1>1
    <3> QED
      BY <2>1, <2>2, <3>1
  <2>4. f = [i \in 0 .. n |-> f[i]]
    OBVIOUS
  <2> QED
    BY <2>3, <2>4
<1> DEFINE g == CHOOSE f : Solves(f)
<1>5. Solves(g)
  BY ZenonT(60), <1>4
<1> HIDE DEF g
<1>6. \A i \in 0 .. n : g[i] = IF i = 0 THEN <<>> ELSE Next_(g[i - 1], i)
  BY <1>5
<1> HIDE DEF Solves
<1>7. g[0] \in V /\ \A i \in 1 .. n : g[i - 1] \in V => g[i] \in V
  <2>1. 0 \in 0 .. n /\ \A i \in 1 .. n : i \in 0 .. n /\ i # 0
    BY <1>1
  <2> QED
    BY <1>3, <1>6, <2>1
<1>8. g[n] \in V
  BY <1>1, <1>7, StaysIn
<1> QED
  BY <1>2, <1>8 DEF g, V

\* Tier 1 makes a text of a text, whatever characters T it has: a part of it, its lines, the lines joined.
LEMMA CutIn ==
  ASSUME NEW T, NEW text \in Seq(T), NEW a \in 0 .. Len(text), NEW b \in 0 .. Len(text)
  PROVE  Cut(text, a, b) \in Seq(T)
<1>1. Len(text) \in Nat /\ \A i \in 1 .. Len(text) : text[i] \in T
  BY LenProperties, ElementOfSeq
<1>2. a + 1 \in Int /\ b \in Int /\ \A i \in a + 1 .. b : text[i] \in T
  BY <1>1
<1>3. SubSeq(text, a + 1, b) \in Seq(T)
  BY <1>2, SubSeqProperties
<1> QED
  BY <1>3 DEF Cut

LEMMA LineStartsIn ==
  ASSUME NEW T, NEW text \in Seq(T)
  PROVE  LineStarts(text) \in Seq(0 .. Len(text))
<1> DEFINE n == Len(text)
           places == [i \in DOMAIN text |-> i]
<1>1. n \in Nat /\ DOMAIN text = 1 .. n
  BY LenProperties
<1>2. places \in Seq(0 .. n)
  BY <1>1
<1>3. Breaks(text) \in Seq(0 .. n)
  BY <1>2, SelectedIn DEF Breaks
<1>4. <<0>> \in Seq(0 .. n)
  BY <1>1
<1> QED
  BY <1>3, <1>4, ConcatProperties DEF LineStarts

LEMMA LinesTyped ==
  ASSUME NEW T, NEW text \in Seq(T)
  PROVE  Lines(text) \in Seq(Seq(T))
<1> DEFINE n == Len(text)
           starts == LineStarts(text)
           m == Len(starts)
<1>1. n \in Nat
  BY LenProperties
<1>2. starts \in Seq(0 .. n)
  BY LineStartsIn
<1>3. m \in Nat /\ DOMAIN starts = 1 .. m /\ \A k \in 1 .. m : starts[k] \in 0 .. n
  BY <1>2, LenProperties, ElementOfSeq
<1> HIDE DEF starts, n, m
<1> DEFINE To(k) == IF k = m THEN n ELSE starts[k + 1] - 1
<1>4. ASSUME NEW k \in 1 .. m PROVE Cut(text, starts[k], To(k)) \in Seq(T)
  <2>1. CASE To(k) \in 0 .. n
    BY <1>3, <2>1, CutIn DEF n
  <2>2. CASE To(k) \notin 0 .. n
    <3>1. k # m /\ k + 1 \in 1 .. m
      BY <1>1, <1>3, <2>2
    <3>2. starts[k + 1] \in 0 .. n
      BY <1>3, <3>1
    <3>3. To(k) = -1
      BY <1>1, <2>2, <3>1, <3>2
    <3>4. SubSeq(text, starts[k] + 1, -1) \in Seq(T)
      <4>1. starts[k] + 1 \in Int /\ -1 \in Int /\ \A i \in starts[k] + 1 .. -1 : text[i] \in T
        BY <1>3
      <4> QED
        BY <4>1, SubSeqProperties
    <3> QED
      BY <3>3, <3>4 DEF Cut
  <2> QED
    BY <2>1, <2>2
<1> HIDE DEF To
<1>5. Lines(text) = [k \in 1 .. m |-> Cut(text, starts[k], To(k))]
  BY <1>3 DEF Lines, starts, n, m, To
<1>6. [k \in 1 .. m |-> Cut(text, starts[k], To(k))] \in [1 .. m -> Seq(T)]
  BY <1>4
<1>7. \A f \in [1 .. m -> Seq(T)] : f \in Seq(Seq(T))
  BY <1>3
<1> QED
  BY <1>5, <1>6, <1>7

LEMMA JoinedIn ==
  ASSUME NEW T, "n" \in T, NEW lines \in Seq(Seq(T))
  PROVE  Joined_(lines) \in Seq(T)
<1> DEFINE m == Len(lines)
           joined == [k \in DOMAIN lines |-> IF k = 1 THEN lines[k] ELSE <<"n">> \o lines[k]]
<1>1. m \in Nat /\ DOMAIN lines = 1 .. m /\ \A k \in 1 .. m : lines[k] \in Seq(T)
  BY LenProperties, ElementOfSeq
<1>2. ASSUME NEW k \in 1 .. m PROVE joined[k] \in Seq(T)
  <2>1. <<"n">> \in Seq(T)
    OBVIOUS
  <2>2. <<"n">> \o lines[k] \in Seq(T)
    BY <1>1, <2>1, ConcatProperties
  <2> QED
    BY <1>1, <2>2
<1>3. DOMAIN joined = 1 .. m /\ joined \in Seq(Seq(T))
  <2>1. joined = [k \in 1 .. m |-> joined[k]]
    BY <1>1
  <2> HIDE DEF joined
  <2> QED
    BY <1>1, <1>2, <2>1
<1> HIDE DEF joined
<1>4. IsList(joined)
  BY <1>3, ListIn
<1>5. FlattenSeq(joined) \in Seq(T)
  BY <1>2, <1>3, <1>4, FlattenedIn
<1> QED
  BY <1>5 DEF Joined_, joined

LEMMA RepairedIn ==
  ASSUME NEW T, NEW line \in Seq(T)
  PROVE  Repaired(line) \in Seq(T)
<1>1. ASSUME NEW l \in Seq(T) PROVE Stripped(l) \in Seq(T)
  <2> DEFINE words == {i \in DOMAIN l : l[i] # " "}
             last == IF words = {} THEN 0 ELSE Max(words)
  <2>1. Len(l) \in Nat /\ DOMAIN l = 1 .. Len(l)
    BY LenProperties
  <2>5. words \in SUBSET (1 .. Len(l))
    BY <2>1
  <2> HIDE DEF words
  <2>2. last \in 0 .. Len(l)
    <3>1. CASE words = {}
      BY <2>1, <3>1
    <3>2. CASE words # {}
      <4>1. words \in SUBSET Nat /\ \A i \in words : i <= Len(l)
        BY <2>1, <2>5
      <4>2. Max(words) \in words
        BY <2>1, <3>2, <4>1, MaxIsGreatest
      <4>3. last = Max(words)
        BY <3>2
      <4>4. Max(words) \in 1 .. Len(l)
        BY <2>5, <4>2
      <4> QED
        BY <2>1, <4>3, <4>4
    <3> QED
      BY <3>1, <3>2
  <2>3. Stripped(l) = SubSeq(l, 1, last)
    BY DEF Stripped, words
  <2> HIDE DEF last
  <2>4. 1 \in Int /\ last \in Int /\ \A i \in 1 .. last : l[i] \in T
    BY <2>1, <2>2, ElementOfSeq
  <2> QED
    BY <2>3, <2>4, SubSeqProperties
<1> QED
  BY <1>1, SelectedIn DEF Repaired

LEMMA WhitespaceIn ==
  ASSUME NEW T, "n" \in T, NEW text \in Seq(T)
  PROVE  WhitespaceRepair(text) \in Seq(T)
<1> DEFINE lines == [k \in DOMAIN Lines(text) |-> Repaired(Lines(text)[k])]
           m == Len(Lines(text))
<1>1. Lines(text) \in Seq(Seq(T))
  BY LinesTyped
<1>2. m \in Nat /\ DOMAIN Lines(text) = 1 .. m /\ \A k \in 1 .. m : Lines(text)[k] \in Seq(T)
  BY <1>1, LenProperties, ElementOfSeq
<1>3. lines \in [1 .. m -> Seq(T)]
  BY <1>2, RepairedIn
<1>4. lines \in Seq(Seq(T))
  BY <1>2, <1>3
<1>5. \E kept : WhitespaceRepair(text) = Joined_(Selected(lines, kept))
  BY DEF WhitespaceRepair
<1> HIDE DEF lines
<1>6. \A kept : Selected(lines, kept) \in Seq(Seq(T))
  BY <1>4, SelectedIn
<1> QED
  BY <1>5, <1>6, JoinedIn

LEMMA OcrIn ==
  ASSUME NEW T, NEW text \in Seq(T)
  PROVE  OcrCleanup(text) \in Seq(T)
<1> DEFINE clean == Selected(text, {i \in DOMAIN text : text[i] # "-"})
<1>1. clean \in Seq(T)
  BY SelectedIn
<1>2. \E kept : OcrCleanup(text) = Selected(clean, kept)
  BY DEF OcrCleanup
<1> HIDE DEF clean
<1> QED
  BY <1>1, <1>2, SelectedIn

\* The characters that Tier 1 puts into a text.
Added == {"n", "#", " "}
LEMMA AddedIn ==
  ASSUME NEW T, Added \subseteq T
  PROVE  "n" \in T /\ <<"#", " ">> \in Seq(T)
<1>1. "n" \in T /\ "#" \in T /\ " " \in T
  BY Zenon DEF Added
<1>2. \A a, b \in T : <<a, b>> \in Seq(T)
  OBVIOUS
<1> QED
  BY Zenon, <1>1, <1>2

LEMMA HeaderIn ==
  ASSUME NEW T, Added \subseteq T, NEW text \in Seq(T)
  PROVE  HeaderInference(text) \in Seq(T)
<1> DEFINE lines == Lines(text)
           m == Len(lines)
           mark == <<"#", " ">>
           Headed(first) == [lines EXCEPT ![first] = mark \o @]
<1>1. lines \in Seq(Seq(T))
  BY LinesTyped
<1>2. m \in Nat /\ lines \in [1 .. m -> Seq(T)]
  BY <1>1, LenProperties
<1>3. HeaderInference(text) = text \/ \E first : HeaderInference(text) = Joined_(Headed(first))
  BY DEF HeaderInference
<1>6. mark \in Seq(T) /\ "n" \in T
  BY AddedIn
<1> HIDE DEF lines, m, mark
<1>4. ASSUME NEW first PROVE Headed(first) \in Seq(Seq(T))
  <2>1. \A l \in Seq(T) : mark \o l \in Seq(T)
    BY <1>6, ConcatProperties
  <2>2. Headed(first) \in [1 .. m -> Seq(T)]
    BY <1>2, <2>1
  <2> QED
    BY <1>2, <2>2
<1> HIDE DEF Headed
<1>5. \A first : Joined_(Headed(first)) \in Seq(T)
  BY <1>4, <1>6, JoinedIn
<1> QED
  BY <1>3, <1>5

\* Whatever the operations are, what they make of a text is a text.
LEMMA NormalisedIn ==
  ASSUME NEW T, Added \subseteq T, NEW text \in Seq(T), NEW ops, IsList(ops)
  PROVE  Normalised(text, ops) \in Seq(T)
<1> DEFINE k == Len(ops)
           V == Seq(T)
           Next_(w, i) == Tier1(w, ops[i])
           Solves(f) == f = [i \in 0 .. k |-> IF i = 0 THEN text ELSE Next_(f[i - 1], i)]
<1>1. k \in Nat
  BY LenProperties DEF IsList
<1>2. Normalised(text, ops) = (CHOOSE f : Solves(f))[k]
  BY DEF Normalised
<1>3. text \in V /\ \A i \in 1 .. k : \A w \in V : Next_(w, i) \in V
  BY AddedIn, WhitespaceIn, OcrIn, HeaderIn DEF Tier1
<1> HIDE DEF k, V, Next_
<1>4. \E f : Solves(f)
  <2> DEFINE step == [i \in 1 .. k |-> [w \in V |-> Next_(w, i)]]
  <2>1. step \in [1 .. k -> [V -> V]] /\ \A i \in 1 .. k : \A w \in V : step[i][w] = Next_(w, i)
    BY <1>3
  <2> HIDE DEF step
  <2>2. PICK f \in [0 .. k -> V] : f[0] = text /\ \A i \in 1 .. k : f[i] = step[i][f[i - 1]]
    <3>1. IsLoop(k, V, text, step)
      BY <1>1, <1>3, <2>1 DEF IsLoop
    <3>2. PICK f : IsCourse(f, k, V, text, step)
      BY <3>1, Iterated
    <3> QED
      BY <3>2 DEF IsCourse
  <2>3. \A i \in 0 .. k : f[i] = IF i = 0 THEN text ELSE Next_(f[i - 1], i)
    <3> SUFFICES ASSUME NEW i \in 0 .. k PROVE f[i] = IF i = 0 THEN text ELSE Next_(f[i - 1], i)
      OBVIOUS
    <3>1. i # 0 => i \in 1 .. k /\ i - 1 \in 0 .. k
      BY <1>1
    <3> QED
      BY <2>1, <2>2, <3>1
  <2>4. f = [i \in 0 .. k |-> f[i]]
    OBVIOUS
  <2> QED
    BY <2>3, <2>4
<1> DEFINE g == CHOOSE f : Solves(f)
<1>5. Solves(g)
  BY ZenonT(60), <1>4
<1> HIDE DEF g
<1>6. \A i \in 0 .. k : g[i] = IF i = 0 THEN text ELSE Next_(g[i - 1], i)
  BY <1>5
<1> HIDE DEF Solves
<1>7. g[0] \in V /\ \A i \in 1 .. k : g[i - 1] \in V => g[i] \in V
  <2>1. 0 \in 0 .. k /\ \A i \in 1 .. k : i \in 0 .. k /\ i # 0
    BY <1>1
  <2> QED
    BY <1>3, <1>6, <2>1
<1>8. g[k] \in V
  BY <1>1, <1>7, StaysIn
<1> QED
  BY <1>2, <1>8 DEF g, V

LEMMA CanonicalIsText ==
  ASSUME NEW segment, IsList(segment.text)
  PROVE  IsList(Canonical(segment))
<1> DEFINE text == segment.text
           ops == RuleFor(segment).tier1
           T == {text[i] : i \in DOMAIN text} \cup Added
<1>1. text \in Seq(T) /\ Added \subseteq T
  <2>1. text \in Seq({text[i] : i \in DOMAIN text})
    BY DEF IsList
  <2> QED
    BY <2>1, SeqMonotonic
<1>2. IsList(ops)
  BY RulesAssumption DEF RuleFor, IsList
<1>3. Canonical(segment) = text \/ Canonical(segment) = Normalised(text, ops)
  BY DEF Canonical
<1> HIDE DEF text, ops, T
<1>4. Normalised(text, ops) \in Seq(T)
  BY <1>1, <1>2, NormalisedIn
<1> QED
  BY <1>1, <1>3, <1>4, ListIn

-----------------------------------------------------------------------------
(* The Build stage *)

\* The places of a list.
LEMMA Places ==
  ASSUME NEW s, IsList(s)
  PROVE  Len(s) \in Nat /\ DOMAIN s = 1 .. Len(s)
BY DEF IsList

\* The batch as Decompose hands it over: every document has an id of its own and every
\* segment of it a path of its own.
BatchIsSound ==
  /\ \A d, e \in DOMAIN batch_ : batch_[d].id = batch_[e].id => d = e
  /\ \A d \in DOMAIN batch_ :
       \A s, t \in DOMAIN batch_[d].segments : batch_[d].segments[s].path = batch_[d].segments[t].path => s = t

\* A batch is a list of documents, a document a list of segments, a text a list.
BatchTyped ==
  /\ IsList(batch_)
  /\ \A d \in DOMAIN batch_ :
       /\ IsList(batch_[d].segments)
       /\ \A s \in DOMAIN batch_[d].segments : IsList(batch_[d].segments[s].text)

BatchInv == BatchIsSound /\ BatchTyped

LEMMA BatchStarts ==
  ASSUME BuildInit
  PROVE  BatchTyped
BY SegmentsAssumption DEF BuildInit, BuildFrom, BatchTyped, IsList

\* What is cut from a segment is a list, and covers its text.
LEMMA CutCovers ==
  ASSUME NEW segment, IsList(Canonical(segment))
  PROVE  IsList(Cut_(segment)) /\ Covers(Cut_(segment), Canonical(segment))
<1>1. RuleFor(segment).max \in Nat \ {0} /\ RuleFor(segment).overlap \in Nat
  BY RulesAssumption DEF RuleFor
<1> QED
  BY <1>1, SpansCover DEF Cut_

\* Point k of segment s of document d, and its id.
IdOf(d, s, k) == <<batch_[d].id, batch_[d].hash, batch_[d].segments[s].path, k>>

IsChunk(p, d, s, k) ==
  /\ d \in DOMAIN batch_ /\ s \in DOMAIN batch_[d].segments
  /\ Kept(batch_[d].segments[s]) /\ k \in DOMAIN Cut_(batch_[d].segments[s])
  /\ p.id = IdOf(d, s, k) /\ p.span = Cut_(batch_[d].segments[s])[k]
  /\ p.description.of \in {<<>>, <<batch_[d].hash, batch_[d].segments[s].path>>}

IsPoint(p) == \E d, s, k : IsChunk(p, d, s, k)

IdsIn(points) == {p.id : p \in points}

\* The chunks of a segment, of the first segments of a document, of a document have their ids in a set.
SegmentIn(d, s, ids) ==
  Kept(batch_[d].segments[s]) => \A k \in DOMAIN Cut_(batch_[d].segments[s]) : IdOf(d, s, k) \in ids
DocumentIn(d, ids) == \A s \in DOMAIN batch_[d].segments : SegmentIn(d, s, ids)

\* A cache names what each of its descriptions is of.
IsTrue(cache) == \A k \in DOMAIN cache : cache[k].of = k

JobShaped(r) ==
  r = [stage |-> r.stage, doc |-> r.doc, segment |-> r.segment, text |-> r.text, spans |-> r.spans, next |-> r.next,
       buffer |-> r.buffer, completed |-> r.completed, memory |-> r.memory]
DiskShaped(r) ==
  r = [completed |-> r.completed, cache |-> r.cache, starts |-> r.starts, purged |-> r.purged]

Buffered == IdsIn(ToSet(job_.buffer))
EmittedIds == IdsIn(shadow_) \cup Buffered

\* Where a build is, and what it has behind it there.
PlaceInv ==
  /\ job_.stage \in {"idle", "failed", "document", "segment", "chunks", "save", "done"}
  /\ job_.stage \in {"document", "segment", "chunks", "save"} =>
       job_.doc \in 1 .. Len(batch_) + 1 /\ \A d \in DOMAIN batch_ : d < job_.doc => DocumentIn(d, IdsIn(shadow_))
  /\ job_.stage \in {"segment", "chunks", "save"} => job_.doc \in DOMAIN batch_
  /\ job_.stage \in {"segment", "chunks"} =>
       /\ job_.segment \in 1 .. Len(Document.segments) + 1
       /\ \A s \in DOMAIN Document.segments : s < job_.segment => SegmentIn(job_.doc, s, EmittedIds)
  /\ job_.stage = "chunks" =>
       /\ job_.segment \in DOMAIN Document.segments /\ Kept(Segment_)
       /\ job_.text = Canonical(Segment_) /\ job_.spans = Cut_(Segment_) /\ job_.next \in 1 .. Len(job_.spans) + 1
       /\ \A k \in DOMAIN job_.spans : k < job_.next => IdOf(job_.doc, job_.segment, k) \in EmittedIds
  /\ job_.stage = "save" => DocumentIn(job_.doc, IdsIn(shadow_))
  /\ job_.stage = "done" => \A d \in DOMAIN batch_ : DocumentIn(d, IdsIn(shadow_))

WholeInv ==
  /\ JobShaped(job_) /\ DiskShaped(disk_)
  /\ BatchInv
  /\ \A p \in shadow_ : IsPoint(p)
  /\ IsList(job_.buffer) /\ \A i \in DOMAIN job_.buffer : IsPoint(job_.buffer[i])
  /\ IsTrue(job_.memory) /\ IsTrue(disk_.cache)
  /\ \A d \in DOMAIN batch_ :
       batch_[d].id \in disk_.completed \cup job_.completed => DocumentIn(d, IdsIn(shadow_))
  /\ PlaceInv

\* What depends on the batch alone is as it was.
LEMMA SameBatch ==
  ASSUME batch_' = batch_
  PROVE  /\ BatchInv' <=> BatchInv
         /\ \A p : IsPoint(p)' <=> IsPoint(p)
         /\ \A d, s, ids : SegmentIn(d, s, ids)' <=> SegmentIn(d, s, ids)
         /\ \A d, ids : DocumentIn(d, ids)' <=> DocumentIn(d, ids)
         /\ \A d, s, k : IdOf(d, s, k)' = IdOf(d, s, k)
BY DEF BatchInv, BatchTyped, BatchIsSound, IsPoint, IsChunk, SegmentIn, DocumentIn, IdOf

\* More ids leave no segment or document out.
LEMMA MoreIds ==
  ASSUME NEW A, NEW B, A \subseteq B
  PROVE  /\ \A d, s : SegmentIn(d, s, A) => SegmentIn(d, s, B)
         /\ \A d : DocumentIn(d, A) => DocumentIn(d, B)
BY DEF SegmentIn, DocumentIn

\* An upsert keeps the ids a collection has and adds those of the points written.
LEMMA Upserting ==
  ASSUME NEW points, NEW new, \A p \in points : IsPoint(p), \A i \in DOMAIN new : IsPoint(new[i])
  PROVE  /\ IdsIn(Upserted_(points, new)) = IdsIn(points) \cup IdsIn(ToSet(new))
         /\ \A p \in Upserted_(points, new) : IsPoint(p)
BY DEF IdsIn, Upserted_, ToSet

\* Where every chunk of every document is, the collection is whole.
LEMMA WholeIsBuilt ==
  ASSUME WholeInv
  PROVE  BuiltIsWhole
<1> SUFFICES ASSUME job_.stage = "done", NEW d \in DOMAIN batch_, NEW s \in DOMAIN batch_[d].segments
             PROVE  LET own == {p \in shadow_ : p.id[1] = batch_[d].id /\ p.id[3] = batch_[d].segments[s].path}
                    IN /\ Kept(batch_[d].segments[s]) => {p.span : p \in own} = ToSet(Cut_(batch_[d].segments[s]))
                       /\ \A p \in own : p.description.of \in {<<>>, <<batch_[d].hash, batch_[d].segments[s].path>>}
  BY DEF BuiltIsWhole
<1> DEFINE own == {p \in shadow_ : p.id[1] = batch_[d].id /\ p.id[3] = batch_[d].segments[s].path}
           cut == Cut_(batch_[d].segments[s])
<1>1. \A p \in own : \E k : IsChunk(p, d, s, k)
  <2> SUFFICES ASSUME NEW p \in own PROVE \E k : IsChunk(p, d, s, k)
    OBVIOUS
  <2>1. PICK e, t, k : IsChunk(p, e, t, k)
    BY DEF WholeInv, IsPoint
  <2>2. p.id[1] = batch_[e].id /\ p.id[3] = batch_[e].segments[t].path
    BY <2>1 DEF IsChunk, IdOf
  <2>3. e = d
    BY <2>1, <2>2 DEF WholeInv, BatchInv, BatchTyped, BatchIsSound, IsChunk
  <2>4. t = s
    BY <2>1, <2>2, <2>3 DEF WholeInv, BatchInv, BatchTyped, BatchIsSound, IsChunk
  <2> QED
    BY <2>1, <2>3, <2>4
<1>2. \A p \in own : p.description.of \in {<<>>, <<batch_[d].hash, batch_[d].segments[s].path>>}
  BY <1>1 DEF IsChunk
<1>3. ASSUME Kept(batch_[d].segments[s]) PROVE {p.span : p \in own} = ToSet(cut)
  <2>1. \A p \in own : p.span \in ToSet(cut)
    BY <1>1 DEF IsChunk, ToSet
  <2>2. \A k \in DOMAIN cut : \E p \in own : p.span = cut[k]
    <3> SUFFICES ASSUME NEW k \in DOMAIN cut PROVE \E p \in own : p.span = cut[k]
      OBVIOUS
    <3>1. IdOf(d, s, k) \in IdsIn(shadow_)
      BY <1>3 DEF WholeInv, PlaceInv, DocumentIn, SegmentIn
    <3>2. PICK p \in shadow_ : p.id = IdOf(d, s, k)
      BY <3>1 DEF IdsIn
    <3>3. p \in own
      BY <3>2 DEF IdOf
    <3>4. PICK l : IsChunk(p, d, s, l)
      BY <1>1, <3>3
    <3>5. l = k /\ p.span = cut[k]
      BY <3>2, <3>4 DEF IsChunk, IdOf
    <3> QED
      BY <3>3, <3>5
  <2> QED
    BY <2>1, <2>2 DEF ToSet
<1> QED
  BY <1>2, <1>3

LEMMA WholeStarts ==
  ASSUME BuildInit, BatchIsSound
  PROVE  WholeInv
BY BatchStarts DEF BuildInit, BuildFrom, WholeInv, BatchInv, PlaceInv, JobShaped, DiskShaped, Idle, NoAnswer, IsTrue, IsList

\* A build that gave up or died leaves what is in the collection and on disk as it was.
LEMMA StoppedStep ==
  ASSUME WholeInv, batch_' = batch_, shadow_' = shadow_, disk_' = disk_,
         job_' = Idle \/ job_' = [Idle EXCEPT !.stage = "failed"]
  PROVE  WholeInv'
<1>1. /\ JobShaped(job_)' /\ job_'.stage \in {"idle", "failed"} /\ job_'.buffer = <<>> /\ job_'.completed = {}
      /\ IsTrue(job_'.memory)
  BY DEF Idle, JobShaped, IsTrue
<1>2. IsList(<<>>) /\ DOMAIN <<>> = {}
  BY DEF IsList
<1> QED
  BY <1>1, <1>2, SameBatch DEF WholeInv, PlaceInv, DiskShaped

\* One action after the other keeps it.
LEMMA BeginStep ==
  ASSUME WholeInv, Begin PROVE WholeInv'
<1>1. /\ batch_' = batch_ /\ shadow_' = shadow_ /\ disk_'.completed = disk_.completed /\ disk_'.cache = disk_.cache
      /\ DiskShaped(disk_)'
  BY DEF Begin, WholeInv, DiskShaped
<1>2. /\ JobShaped(job_)' /\ job_'.stage = "document" /\ job_'.doc = 1 /\ job_'.buffer = <<>>
      /\ job_'.completed = disk_.completed /\ job_'.memory = disk_.cache
  BY DEF Begin, Idle, JobShaped
<1>3. IsList(<<>>) /\ DOMAIN <<>> = {}
  BY DEF IsList
<1>4. Len(batch_) \in Nat /\ DOMAIN batch_ = 1 .. Len(batch_)
  BY Places DEF WholeInv, BatchInv, BatchTyped
<1>5. PlaceInv'
  BY <1>1, <1>2, <1>4, SameBatch DEF PlaceInv
<1> QED
  BY <1>1, <1>2, <1>3, <1>5, SameBatch DEF WholeInv

LEMMA DocumentsStep ==
  ASSUME WholeInv, SkipCompleted \/ OpenDocument \/ FinishBuild PROVE WholeInv'
<1>1. batch_' = batch_ /\ shadow_' = shadow_ /\ disk_' = disk_
  BY DEF SkipCompleted, OpenDocument, FinishBuild
<1>2. /\ JobShaped(job_)' /\ job_'.buffer = job_.buffer /\ job_'.completed = job_.completed
      /\ job_'.memory = job_.memory
  BY DEF SkipCompleted, OpenDocument, FinishBuild, WholeInv, JobShaped
<1>3. Len(batch_) \in Nat /\ DOMAIN batch_ = 1 .. Len(batch_)
  BY Places DEF WholeInv, BatchInv, BatchTyped
<1>4. PlaceInv'
  <2>1. CASE SkipCompleted
    <3>1. job_'.stage = "document" /\ job_'.doc = job_.doc + 1 /\ job_.doc \in Nat
      BY <1>3, <2>1 DEF SkipCompleted, WholeInv, PlaceInv, JobShaped
    <3>2. DocumentIn(job_.doc, IdsIn(shadow_))
      BY <2>1 DEF SkipCompleted, WholeInv
    <3>3. /\ job_'.doc \in 1 .. Len(batch_) + 1
          /\ \A d \in DOMAIN batch_ : d < job_'.doc => DocumentIn(d, IdsIn(shadow_))
      BY <1>3, <2>1, <3>1, <3>2 DEF SkipCompleted, WholeInv, PlaceInv
    <3> QED
      BY <1>1, <3>1, <3>3, SameBatch DEF PlaceInv
  <2>2. CASE OpenDocument
    <3>1. job_'.stage = "segment" /\ job_'.doc = job_.doc /\ job_'.segment = 1
      BY <2>2 DEF OpenDocument, WholeInv, JobShaped
    <3>2. /\ Len(batch_[job_.doc].segments) \in Nat
          /\ DOMAIN batch_[job_.doc].segments = 1 .. Len(batch_[job_.doc].segments)
      BY <2>2, Places DEF OpenDocument, WholeInv, BatchIsSound
    <3> QED
      BY <1>1, <2>2, <3>1, <3>2, SameBatch DEF OpenDocument, WholeInv, PlaceInv, Document
  <2>3. CASE FinishBuild
    <3>1. job_'.stage = "done" /\ job_.stage = "document" /\ job_.doc \notin DOMAIN batch_
      BY <2>3 DEF FinishBuild, WholeInv, JobShaped
    <3>2. \A d \in DOMAIN batch_ : DocumentIn(d, IdsIn(shadow_))
      BY <1>3, <3>1 DEF WholeInv, PlaceInv
    <3> QED
      BY <1>1, <3>1, <3>2, SameBatch DEF PlaceInv
  <2> QED
    BY <2>1, <2>2, <2>3
<1> QED
  BY <1>1, <1>2, <1>4, SameBatch DEF WholeInv

\* What a build that is in a segment knows of its place.
LEMMA InDocument ==
  ASSUME WholeInv, job_.stage \in {"segment", "chunks", "save"}
  PROVE  /\ job_.doc \in DOMAIN batch_ /\ job_.doc \in 1 .. Len(batch_) + 1 /\ Len(batch_) \in Nat
         /\ DOMAIN batch_ = 1 .. Len(batch_)
         /\ Len(Document.segments) \in Nat /\ DOMAIN Document.segments = 1 .. Len(Document.segments)
         /\ \A s \in DOMAIN Document.segments :
              Len(Cut_(Document.segments[s])) \in Nat
              /\ DOMAIN Cut_(Document.segments[s]) = 1 .. Len(Cut_(Document.segments[s]))
<1>1. job_.doc \in DOMAIN batch_ /\ job_.doc \in 1 .. Len(batch_) + 1 /\ IsList(batch_)
  BY DEF WholeInv, PlaceInv, BatchInv, BatchTyped
<1>2. IsList(Document.segments) /\ \A s \in DOMAIN Document.segments : IsList(Canonical(Document.segments[s]))
  BY <1>1, CanonicalIsText DEF WholeInv, BatchInv, BatchTyped, Document
<1>3. \A s \in DOMAIN Document.segments : IsList(Cut_(Document.segments[s]))
  BY <1>2, CutCovers
<1> QED
  BY <1>1, <1>2, <1>3, Places

LEMMA SegmentsStep ==
  ASSUME WholeInv, SkipSegment \/ CutSegment \/ EndSegment PROVE WholeInv'
<1>1. batch_' = batch_ /\ shadow_' = shadow_ /\ disk_' = disk_
  BY DEF SkipSegment, CutSegment, EndSegment
<1>2. /\ JobShaped(job_)' /\ job_'.buffer = job_.buffer /\ job_'.completed = job_.completed
      /\ job_'.memory = job_.memory /\ job_'.doc = job_.doc
  BY DEF SkipSegment, CutSegment, EndSegment, WholeInv, JobShaped
<1>3. Document' = Document /\ EmittedIds' = EmittedIds
  BY <1>1, <1>2 DEF Document, EmittedIds, Buffered
<1>4. job_.stage \in {"segment", "chunks"}
  BY DEF SkipSegment, CutSegment, EndSegment
<1>5. PlaceInv'
  <2>1. CASE SkipSegment
    <3>1. job_'.stage = "segment" /\ job_'.segment = job_.segment + 1 /\ job_.segment \in DOMAIN Document.segments
      BY <2>1 DEF SkipSegment, WholeInv, JobShaped
    <3>2. SegmentIn(job_.doc, job_.segment, EmittedIds)
      BY <2>1 DEF SkipSegment, SegmentIn, Segment_, Document
    <3>3. /\ job_'.segment \in 1 .. Len(Document.segments) + 1
          /\ \A s \in DOMAIN Document.segments : s < job_'.segment => SegmentIn(job_.doc, s, EmittedIds)
      <4>1. Len(Document.segments) \in Nat /\ DOMAIN Document.segments = 1 .. Len(Document.segments)
        BY <1>4, InDocument
      <4>2. \A s \in DOMAIN Document.segments : s < job_.segment => SegmentIn(job_.doc, s, EmittedIds)
        BY <1>4 DEF WholeInv, PlaceInv
      <4>3. \A s \in DOMAIN Document.segments : s < job_'.segment => s < job_.segment \/ s = job_.segment
        BY <3>1, <4>1
      <4>4. job_'.segment \in 1 .. Len(Document.segments) + 1
        BY <3>1, <4>1
      <4> QED
        BY ZenonT(60), <3>2, <4>2, <4>3, <4>4
    <3> QED
      BY <1>1, <1>2, <1>3, <1>4, <3>1, <3>3, SameBatch DEF WholeInv, PlaceInv
  <2>2. CASE CutSegment
    <3>1. /\ job_'.stage = "chunks" /\ job_'.segment = job_.segment /\ job_.segment \in DOMAIN Document.segments
          /\ Kept(Segment_) /\ job_'.text = Canonical(Segment_) /\ job_'.spans = Cut_(Segment_) /\ job_'.next = 1
      BY <2>2 DEF CutSegment, WholeInv, JobShaped
    <3>2. Segment_' = Segment_
      BY <1>3, <3>1 DEF Segment_
    <3>3. Len(Cut_(Segment_)) \in Nat /\ DOMAIN Cut_(Segment_) = 1 .. Len(Cut_(Segment_))
      BY <1>4, <3>1, InDocument DEF Segment_
    <3>4. /\ Cut_(Segment_)' = Cut_(Segment_) /\ Kept(Segment_)' = Kept(Segment_)
          /\ Canonical(Segment_)' = Canonical(Segment_)
      BY <3>2
    <3>5. \A k \in DOMAIN job_'.spans : ~(k < job_'.next)
      BY <3>1, <3>3
    <3> QED
      BY <1>1, <1>2, <1>3, <1>4, <3>1, <3>3, <3>4, <3>5, SameBatch DEF WholeInv, PlaceInv
  <2>3. CASE EndSegment
    <3>1. job_'.stage = "segment" /\ job_'.segment = job_.segment + 1 /\ job_.stage = "chunks"
          /\ job_.next \notin DOMAIN job_.spans
      BY <2>3 DEF EndSegment, WholeInv, JobShaped
    <3>2. /\ job_.segment \in DOMAIN Document.segments /\ job_.spans = Cut_(Segment_)
          /\ job_.next \in 1 .. Len(job_.spans) + 1
          /\ \A k \in DOMAIN job_.spans : k < job_.next => IdOf(job_.doc, job_.segment, k) \in EmittedIds
      BY <3>1 DEF WholeInv, PlaceInv
    <3>3. Len(job_.spans) \in Nat /\ DOMAIN job_.spans = 1 .. Len(job_.spans)
      BY <1>4, <3>2, InDocument DEF Segment_
    <3>4. SegmentIn(job_.doc, job_.segment, EmittedIds)
      BY <3>1, <3>2, <3>3 DEF SegmentIn, Segment_, Document
    <3>5. /\ job_'.segment \in 1 .. Len(Document.segments) + 1
          /\ \A s \in DOMAIN Document.segments : s < job_'.segment => SegmentIn(job_.doc, s, EmittedIds)
      <4>1. Len(Document.segments) \in Nat /\ DOMAIN Document.segments = 1 .. Len(Document.segments)
        BY <1>4, InDocument
      <4>2. \A s \in DOMAIN Document.segments : s < job_.segment => SegmentIn(job_.doc, s, EmittedIds)
        BY <1>4 DEF WholeInv, PlaceInv
      <4>3. \A s \in DOMAIN Document.segments : s < job_'.segment => s < job_.segment \/ s = job_.segment
        BY <3>1, <3>2, <4>1
      <4>4. job_'.segment \in 1 .. Len(Document.segments) + 1
        BY <3>1, <3>2, <4>1
      <4> QED
        BY ZenonT(60), <3>4, <4>2, <4>3, <4>4
    <3> QED
      BY <1>1, <1>2, <1>3, <1>4, <3>1, <3>5, SameBatch DEF WholeInv, PlaceInv
  <2> QED
    BY <2>1, <2>2, <2>3
<1> QED
  BY <1>1, <1>2, <1>5, SameBatch DEF WholeInv

LEMMA EndDocumentStep ==
  ASSUME WholeInv, NEW embeds, EndDocument(embeds) PROVE WholeInv'
<1>1. CASE job_.buffer # <<>> /\ ~embeds
  BY <1>1, StoppedStep DEF EndDocument
<1>2. CASE ~(job_.buffer # <<>> /\ ~embeds)
  <2>1. /\ batch_' = batch_ /\ disk_' = disk_ /\ shadow_' = Upserted_(shadow_, job_.buffer)
        /\ job_.stage = "segment" /\ job_.segment \notin DOMAIN Document.segments
        /\ JobShaped(job_)' /\ job_'.stage = "save" /\ job_'.buffer = <<>> /\ job_'.completed = job_.completed
        /\ job_'.memory = job_.memory /\ job_'.doc = job_.doc
    BY <1>2 DEF EndDocument, WholeInv, JobShaped
  <2>2. /\ IdsIn(shadow_') = EmittedIds
        /\ \A p \in shadow_' : IsPoint(p)
    BY <2>1, Upserting DEF WholeInv, EmittedIds, Buffered
  <2>3. \A s \in DOMAIN Document.segments : s < job_.segment
    BY <2>1, InDocument DEF WholeInv, PlaceInv
  <2>4. DocumentIn(job_.doc, IdsIn(shadow_'))
    BY <2>1, <2>2, <2>3 DEF WholeInv, PlaceInv, DocumentIn, Document
  <2>5. IdsIn(shadow_) \subseteq IdsIn(shadow_')
    BY <2>2 DEF EmittedIds
  <2>6. \A d : DocumentIn(d, IdsIn(shadow_)) => DocumentIn(d, IdsIn(shadow_'))
    BY <2>5, MoreIds
  <2>7. IsList(<<>>) /\ DOMAIN <<>> = {}
    BY DEF IsList
  <2>8. PlaceInv'
    BY <2>1, <2>4, <2>6, SameBatch DEF WholeInv, PlaceInv
  <2> QED
    BY <2>1, <2>2, <2>6, <2>7, <2>8, SameBatch DEF WholeInv
<1> QED
  BY <1>1, <1>2

LEMMA SaveStep ==
  ASSUME WholeInv, NEW torn, SaveCheckpoint(torn) PROVE WholeInv'
<1>1. /\ batch_' = batch_ /\ shadow_' = shadow_ /\ job_.stage = "save" /\ DiskShaped(disk_)'
      /\ disk_'.cache = disk_.cache
      /\ disk_'.completed = IF torn THEN {} ELSE job_.completed \cup {Document.id}
  BY DEF SaveCheckpoint, WholeInv, DiskShaped
<1>2. job_.doc \in DOMAIN batch_ /\ DocumentIn(job_.doc, IdsIn(shadow_))
  BY <1>1 DEF WholeInv, PlaceInv
<1>3. \A d \in DOMAIN batch_ : batch_[d].id = Document.id => DocumentIn(d, IdsIn(shadow_))
  BY <1>2 DEF WholeInv, BatchInv, BatchTyped, BatchIsSound, Document
<1>4. CASE torn
  <2>1. job_' = Idle /\ disk_'.completed = {}
    BY <1>1, <1>4 DEF SaveCheckpoint
  <2>2. JobShaped(job_)' /\ job_'.stage = "idle" /\ job_'.buffer = <<>> /\ job_'.completed = {} /\ IsTrue(job_'.memory)
    BY <2>1 DEF Idle, JobShaped, IsTrue
  <2>3. IsList(<<>>) /\ DOMAIN <<>> = {}
    BY DEF IsList
  <2> QED
    BY <1>1, <2>1, <2>2, <2>3, SameBatch DEF WholeInv, PlaceInv
<1>5. CASE ~torn
  <2>1. /\ JobShaped(job_)' /\ job_'.stage = "document" /\ job_'.doc = job_.doc + 1 /\ job_'.buffer = job_.buffer
        /\ job_'.completed = job_.completed \cup {Document.id} /\ job_'.memory = job_.memory
        /\ disk_'.completed = job_.completed \cup {Document.id}
    BY <1>1, <1>5 DEF SaveCheckpoint, WholeInv, JobShaped
  <2>2. /\ job_'.doc \in 1 .. Len(batch_) + 1
        /\ \A d \in DOMAIN batch_ : d < job_'.doc => DocumentIn(d, IdsIn(shadow_))
    BY <1>1, <1>2, <2>1, InDocument DEF WholeInv, PlaceInv
  <2>3. PlaceInv'
    BY <1>1, <2>1, <2>2, SameBatch DEF PlaceInv
  <2> QED
    BY <1>1, <1>3, <2>1, <2>3, SameBatch DEF WholeInv
<1> QED
  BY <1>4, <1>5

LEMMA PurgeStep ==
  ASSUME WholeInv, NEW d \in DOMAIN batch_, NEW known, PurgeCache(batch_[d], known) PROVE WholeInv'
<1>1. /\ batch_' = batch_ /\ shadow_' = shadow_ /\ job_' = job_ /\ DiskShaped(disk_)'
      /\ disk_'.completed = disk_.completed /\ disk_'.cache = Surviving(disk_.cache, batch_[d], known)
  BY DEF PurgeCache, WholeInv, DiskShaped
<1>2. IsTrue(disk_'.cache)
  BY <1>1 DEF WholeInv, IsTrue, Surviving
<1>3. PlaceInv'
  BY ZenonT(60), <1>1, SameBatch DEF WholeInv, PlaceInv, Document, Segment_, EmittedIds, Buffered
<1> QED
  BY <1>1, <1>2, <1>3, SameBatch DEF WholeInv

\* A description comes from the cache or is asked for, and is of the table either way.
LEMMA DescribedIsTrue ==
  ASSUME NEW memory, NEW by, IsTrue(memory)
  PROVE  /\ IsTrue(Described(memory, by))
         /\ LET key == CacheKey(Document, Segment_)
            IN key \in DOMAIN Described(memory, by) /\ Described(memory, by)[key].of = key
<1> DEFINE key == CacheKey(Document, Segment_)
           answer == [of |-> <<Document.hash, Segment_.path>>, by |-> by]
           asked == [k \in DOMAIN memory \cup {key} |-> IF k = key THEN answer ELSE memory[k]]
<1>1. answer.of = key
  BY DEF CacheKey
<1>2. IsTrue(asked) /\ key \in DOMAIN asked
  BY <1>1 DEF IsTrue
<1>3. Described(memory, by) = IF key \in DOMAIN memory THEN memory ELSE asked
  BY DEF Described
<1>4. IsTrue(Described(memory, by)) /\ key \in DOMAIN Described(memory, by)
  BY <1>2, <1>3
<1> QED
  BY <1>4 DEF IsTrue

\* The point made of the next chunk, with the cache it comes from.
NextPoint(memory) ==
  [id |-> <<Document.id, Document.hash, Segment_.path, job_.next>>, span |-> job_.spans[job_.next],
   rewritten |-> RuleFor(Segment_).tier3, description |-> AugmentChunk(RuleFor(Segment_), memory)]
MemoryAfter(by) == IF Augments(RuleFor(Segment_)) THEN Described(job_.memory, by) ELSE job_.memory

LEMMA PointIsMade ==
  ASSUME WholeInv, job_.stage = "chunks", job_.next \in DOMAIN job_.spans, NEW by
  PROVE  /\ IsTrue(MemoryAfter(by))
         /\ IsChunk(NextPoint(MemoryAfter(by)), job_.doc, job_.segment, job_.next)
<1>1. IsTrue(job_.memory)
  BY DEF WholeInv
<1>2. IsTrue(MemoryAfter(by))
  BY <1>1, DescribedIsTrue DEF MemoryAfter
<1>3. AugmentChunk(RuleFor(Segment_), MemoryAfter(by)).of \in {<<>>, <<Document.hash, Segment_.path>>}
  BY <1>1, DescribedIsTrue DEF AugmentChunk, MemoryAfter, NoAnswer, CacheKey
<1>4. /\ job_.doc \in DOMAIN batch_ /\ job_.segment \in DOMAIN Document.segments /\ Kept(Segment_)
      /\ job_.spans = Cut_(Segment_)
  BY DEF WholeInv, PlaceInv
<1> QED
  BY <1>2, <1>3, <1>4 DEF IsChunk, NextPoint, IdOf, Document, Segment_

LEMMA EmitStep ==
  ASSUME WholeInv, NEW rewrites, NEW by, NEW embeds, EmitChunk(rewrites, by, embeds) PROVE WholeInv'
<1> DEFINE memory == MemoryAfter(by)
           point == NextPoint(memory)
           buffer == Append(job_.buffer, point)
           full == Len(buffer) >= Upserts
           raised == [Idle EXCEPT !.stage = "failed"]
<1>1. job_.stage = "chunks" /\ job_.next \in DOMAIN job_.spans /\ batch_' = batch_
  BY DEF EmitChunk
<1>2. IsTrue(memory) /\ IsChunk(point, job_.doc, job_.segment, job_.next)
  BY <1>1, PointIsMade
<1>3. IF RewriteRaises(RuleFor(Segment_), rewrites)
      THEN job_' = raised /\ UNCHANGED <<disk_, shadow_>>
      ELSE /\ disk_' = [disk_ EXCEPT !.cache = IF memory = job_.memory THEN @ ELSE memory]
           /\ IF full /\ ~embeds THEN job_' = raised /\ UNCHANGED shadow_
              ELSE /\ job_' = [job_ EXCEPT !.memory = memory, !.next = @ + 1,
                                           !.buffer = IF full THEN <<>> ELSE buffer]
                   /\ shadow_' = IF full THEN Upserted_(shadow_, buffer) ELSE shadow_
  BY DEF EmitChunk, MemoryAfter, NextPoint
<1>4. CASE RewriteRaises(RuleFor(Segment_), rewrites)
  BY <1>1, <1>3, <1>4, StoppedStep
<1>5. ASSUME ~RewriteRaises(RuleFor(Segment_), rewrites) PROVE WholeInv'
  <2> HIDE DEF memory, point
  <2>1. DiskShaped(disk_)' /\ disk_'.completed = disk_.completed /\ IsTrue(disk_'.cache)
    <3>1. disk_' = [disk_ EXCEPT !.cache = IF memory = job_.memory THEN @ ELSE memory]
      BY <1>3, <1>5
    <3>2. DiskShaped(disk_)' /\ disk_'.completed = disk_.completed
          /\ disk_'.cache = IF memory = job_.memory THEN disk_.cache ELSE memory
      BY <3>1 DEF WholeInv, DiskShaped
    <3> QED
      BY <1>2, <3>2 DEF WholeInv
  <2>2. CASE full /\ ~embeds
    <3>1. job_' = [Idle EXCEPT !.stage = "failed"] /\ shadow_' = shadow_
      BY <1>3, <1>5, <2>2
    <3>2. JobShaped(job_)' /\ job_'.stage = "failed" /\ job_'.buffer = <<>> /\ job_'.completed = {} /\ IsTrue(job_'.memory)
      BY <3>1 DEF Idle, JobShaped, IsTrue
    <3>3. IsList(<<>>) /\ DOMAIN <<>> = {}
      BY DEF IsList
    <3> QED
      BY <1>1, <2>1, <3>1, <3>2, <3>3, SameBatch DEF WholeInv, PlaceInv
  <2>3. CASE ~(full /\ ~embeds)
    <3>1. /\ job_' = [job_ EXCEPT !.memory = memory, !.next = @ + 1, !.buffer = IF full THEN <<>> ELSE buffer]
          /\ shadow_' = IF full THEN Upserted_(shadow_, buffer) ELSE shadow_
      BY <1>3, <1>5, <2>3
    <3>2. /\ JobShaped(job_)' /\ job_'.stage = "chunks" /\ job_'.doc = job_.doc /\ job_'.segment = job_.segment
          /\ job_'.text = job_.text /\ job_'.spans = job_.spans /\ job_'.next = job_.next + 1 /\ job_'.completed = job_.completed
          /\ job_'.memory = memory /\ job_'.buffer = IF full THEN <<>> ELSE buffer
      BY <1>1, <3>1 DEF WholeInv, JobShaped
    <3>3. /\ IsList(buffer) /\ DOMAIN job_.buffer = 1 .. Len(job_.buffer) /\ Len(job_.buffer) \in Nat
          /\ DOMAIN buffer = 1 .. Len(job_.buffer) + 1
          /\ buffer[Len(job_.buffer) + 1] = point /\ \A i \in DOMAIN job_.buffer : buffer[i] = job_.buffer[i]
      <4>1. IsList(job_.buffer)
        BY DEF WholeInv
      <4> QED
        BY ZenonT(60), <4>1, Appended
    <3> HIDE DEF buffer
    <3>4. /\ \A i \in DOMAIN buffer : IsPoint(buffer[i])
          /\ IdsIn(ToSet(buffer)) = Buffered \cup {IdOf(job_.doc, job_.segment, job_.next)}
      <4>1. \A i \in DOMAIN job_.buffer : IsPoint(job_.buffer[i])
        BY DEF WholeInv
      <4>2. IsPoint(point) /\ point.id = IdOf(job_.doc, job_.segment, job_.next)
        BY <1>2 DEF IsPoint, IsChunk, point
      <4>3. \A i \in DOMAIN buffer : IsPoint(buffer[i])
        BY <3>3, <4>1, <4>2
      <4>4. ToSet(buffer) = ToSet(job_.buffer) \cup {point}
        BY <3>3 DEF ToSet
      <4> QED
        BY <4>2, <4>3, <4>4 DEF IdsIn, Buffered
    <3>5. IsList(<<>>) /\ DOMAIN <<>> = {} /\ ToSet(<<>>) = {}
      BY DEF IsList, ToSet
    <3>6. /\ IsList(job_'.buffer) /\ \A i \in DOMAIN job_'.buffer : IsPoint(job_'.buffer[i])
          /\ \A p \in shadow_' : IsPoint(p)
          /\ IdsIn(shadow_) \subseteq IdsIn(shadow_')
          /\ EmittedIds' = EmittedIds \cup {IdOf(job_.doc, job_.segment, job_.next)}
      <4>1. CASE full
        <5>1. job_'.buffer = <<>> /\ shadow_' = Upserted_(shadow_, buffer)
          BY <3>1, <3>2, <4>1
        <5>2. IdsIn(shadow_') = IdsIn(shadow_) \cup IdsIn(ToSet(buffer)) /\ \A p \in shadow_' : IsPoint(p)
          BY <3>4, <5>1, Upserting DEF WholeInv
        <5>3. IdsIn({}) = {}
          BY DEF IdsIn
        <5> QED
          BY <3>4, <3>5, <5>1, <5>2, <5>3 DEF EmittedIds, Buffered
      <4>2. CASE ~full
        <5>1. job_'.buffer = buffer /\ shadow_' = shadow_
          BY <3>1, <3>2, <4>2
        <5> QED
          BY <3>3, <3>4, <5>1 DEF WholeInv, EmittedIds, Buffered
      <4> QED
        BY <4>1, <4>2
    <3>7. /\ \A d, s : SegmentIn(d, s, EmittedIds) => SegmentIn(d, s, EmittedIds')
          /\ \A d : DocumentIn(d, IdsIn(shadow_)) => DocumentIn(d, IdsIn(shadow_'))
      BY <3>6, MoreIds
    <3>8. PlaceInv'
      <4>1. Document' = Document /\ Segment_' = Segment_
        BY <1>1, <3>2 DEF Document, Segment_
      <4>2. /\ Cut_(Segment_)' = Cut_(Segment_) /\ Kept(Segment_)' = Kept(Segment_)
            /\ Canonical(Segment_)' = Canonical(Segment_)
        BY <4>1
      <4>3. /\ job_.segment \in DOMAIN Document.segments /\ Kept(Segment_)
            /\ job_.text = Canonical(Segment_) /\ job_.spans = Cut_(Segment_)
            /\ job_.segment \in 1 .. Len(Document.segments) + 1
            /\ \A s \in DOMAIN Document.segments : s < job_.segment => SegmentIn(job_.doc, s, EmittedIds)
            /\ \A k \in DOMAIN job_.spans : k < job_.next => IdOf(job_.doc, job_.segment, k) \in EmittedIds
            /\ job_.next \in 1 .. Len(job_.spans) + 1
        BY <1>1 DEF WholeInv, PlaceInv
      <4>4. Len(job_.spans) \in Nat /\ DOMAIN job_.spans = 1 .. Len(job_.spans)
        BY <1>1, <4>3, InDocument DEF Segment_
      <4>5. /\ job_.next + 1 \in 1 .. Len(job_.spans) + 1
            /\ \A k \in DOMAIN job_.spans : k < job_.next + 1 => IdOf(job_.doc, job_.segment, k) \in EmittedIds'
        BY <1>1, <3>6, <4>3, <4>4
      <4>6. /\ job_.doc \in DOMAIN batch_ /\ job_.doc \in 1 .. Len(batch_) + 1
            /\ \A d \in DOMAIN batch_ : d < job_.doc => DocumentIn(d, IdsIn(shadow_'))
        BY <1>1, <3>7 DEF WholeInv, PlaceInv
      <4>7. \A s \in DOMAIN Document.segments : s < job_.segment => SegmentIn(job_.doc, s, EmittedIds')
        BY <3>7, <4>3
      <4> QED
        BY <1>1, <3>2, <4>1, <4>2, <4>3, <4>5, <4>6, <4>7, SameBatch DEF PlaceInv
    <3> QED
      BY <1>1, <1>2, <2>1, <3>2, <3>6, <3>7, <3>8, SameBatch DEF WholeInv
  <2> QED
    BY <2>2, <2>3
<1> QED
  BY <1>4, <1>5

\* Every step of a build, of a purge or of a death keeps it.
LEMMA WholeStep ==
  ASSUME WholeInv, [BuildNext]_buildVars
  PROVE  WholeInv'
<1>1. CASE UNCHANGED buildVars
  <2>1. batch_' = batch_ /\ job_' = job_ /\ disk_' = disk_ /\ shadow_' = shadow_
    BY <1>1 DEF buildVars
  <2>2. PlaceInv'
    BY ZenonT(60), <2>1, SameBatch DEF WholeInv, PlaceInv, Document, Segment_, EmittedIds, Buffered
  <2> QED
    BY <2>1, <2>2, SameBatch DEF WholeInv, JobShaped, DiskShaped
<1>2. CASE Die
  BY <1>2, StoppedStep DEF Die
<1>3. ASSUME NEW rewrites \in BOOLEAN, NEW embeds \in BOOLEAN, NEW by \in Answerers, EmitChunk(rewrites, by, embeds)
      PROVE  WholeInv'
  BY <1>3, EmitStep
<1>4. ASSUME NEW embeds \in BOOLEAN, EndDocument(embeds) PROVE WholeInv'
  BY <1>4, EndDocumentStep
<1>5. ASSUME NEW torn \in BOOLEAN, SaveCheckpoint(torn) PROVE WholeInv'
  BY <1>5, SaveStep
<1>6. ASSUME NEW d \in DOMAIN batch_, NEW known \in BOOLEAN, PurgeCache(batch_[d], known) PROVE WholeInv'
  BY <1>6, PurgeStep
<1> QED
  BY <1>1, <1>2, <1>3, <1>4, <1>5, <1>6, BeginStep, DocumentsStep, SegmentsStep DEF BuildNext

\* A build that ends has written every chunk of every document, through every failure, death,
\* torn checkpoint and purge before it, if the documents have ids of their own and the segments
\* of one have paths of their own (chunk ids are made of both).
THEOREM BuildsAreWhole ==
  BuildSpec /\ BatchIsSound => []BuiltIsWhole
<1>1. BuildInit /\ BatchIsSound => WholeInv
  BY WholeStarts
<1>2. WholeInv /\ [BuildNext]_buildVars => WholeInv'
  BY WholeStep
<1>3. WholeInv => BuiltIsWhole
  BY WholeIsBuilt
<1> QED
  BY <1>1, <1>2, <1>3, PTL DEF BuildSpec

\* The segment a build is in is one of the batch, and what it cuts is that segment's text.
CutInv ==
  /\ JobShaped(job_) /\ BatchTyped
  /\ job_.stage \in {"segment", "chunks"} => job_.doc \in DOMAIN batch_
  /\ job_.stage = "chunks" =>
       /\ job_.segment \in DOMAIN Document.segments
       /\ job_.text = Canonical(Segment_) /\ job_.spans = Cut_(Segment_)

LEMMA CutStep ==
  ASSUME CutInv, [BuildNext]_buildVars
  PROVE  CutInv'
<1>1. CASE UNCHANGED buildVars
  BY ZenonT(60), <1>1 DEF buildVars, CutInv, JobShaped, BatchTyped, Document, Segment_
<1>2. CASE BuildNext
  <2>1. batch_' = batch_
    <3>1. CASE Begin \/ SkipCompleted \/ OpenDocument \/ SkipSegment \/ CutSegment \/ EndSegment \/ FinishBuild \/ Die
      BY <3>1 DEF Begin, SkipCompleted, OpenDocument, SkipSegment, CutSegment, EndSegment, FinishBuild, Die
    <3>2. ASSUME NEW rewrites, NEW embeds, NEW by, EmitChunk(rewrites, by, embeds) PROVE batch_' = batch_
      BY <3>2 DEF EmitChunk
    <3>3. ASSUME NEW flag, EndDocument(flag) \/ SaveCheckpoint(flag) PROVE batch_' = batch_
      BY <3>3 DEF EndDocument, SaveCheckpoint
    <3>4. ASSUME NEW d, NEW known, PurgeCache(d, known) PROVE batch_' = batch_
      BY <3>4 DEF PurgeCache
    <3> QED
      BY <1>2, <3>1, <3>2, <3>3, <3>4 DEF BuildNext
  <2>2. BatchTyped'
    BY <2>1 DEF CutInv, BatchTyped
  <2>3. CASE Die \/ job_' = Idle \/ job_' = [Idle EXCEPT !.stage = "failed"]
    BY <2>1, <2>2, <2>3 DEF Die, Idle, CutInv, JobShaped
  <2>4. CASE Begin
    BY <2>1, <2>2, <2>4 DEF Begin, Idle, CutInv, JobShaped
  <2>5. CASE SkipCompleted \/ FinishBuild
    BY <2>1, <2>2, <2>5 DEF SkipCompleted, FinishBuild, CutInv, JobShaped
  <2>6. CASE OpenDocument
    BY <2>1, <2>2, <2>6 DEF OpenDocument, CutInv, JobShaped
  <2>7. CASE SkipSegment \/ EndSegment
    BY <2>1, <2>2, <2>7 DEF SkipSegment, EndSegment, CutInv, JobShaped
  <2>8. CASE CutSegment
    BY <2>1, <2>2, <2>8 DEF CutSegment, CutInv, JobShaped, Document, Segment_
  <2>9. ASSUME NEW rewrites \in BOOLEAN, NEW embeds \in BOOLEAN, NEW by \in Answerers, EmitChunk(rewrites, by, embeds),
               job_' # [Idle EXCEPT !.stage = "failed"]
        PROVE  CutInv'
    <3> DEFINE memory == MemoryAfter(by)
               buffer == Append(job_.buffer, NextPoint(memory))
               left == IF Len(buffer) >= Upserts THEN <<>> ELSE buffer
    <3>1. job_' = [job_ EXCEPT !.memory = memory, !.next = @ + 1, !.buffer = left]
      BY ZenonT(60), <2>9 DEF EmitChunk, MemoryAfter, NextPoint
    <3> HIDE DEF memory, left
    <3>2. /\ JobShaped(job_)' /\ job_'.stage = job_.stage /\ job_'.doc = job_.doc /\ job_'.segment = job_.segment
          /\ job_'.text = job_.text /\ job_'.spans = job_.spans
      BY <3>1 DEF CutInv, JobShaped
    <3> QED
      BY <2>1, <2>2, <3>2 DEF CutInv, Document, Segment_
  <2>10. ASSUME NEW embeds \in BOOLEAN, EndDocument(embeds), job_' # [Idle EXCEPT !.stage = "failed"]
         PROVE  CutInv'
    BY <2>1, <2>2, <2>10 DEF EndDocument, CutInv, JobShaped
  <2>11. ASSUME NEW torn \in BOOLEAN, SaveCheckpoint(torn), job_' # Idle PROVE CutInv'
    BY <2>1, <2>2, <2>11 DEF SaveCheckpoint, CutInv, JobShaped
  <2>12. ASSUME NEW d \in DOMAIN batch_, NEW known \in BOOLEAN, PurgeCache(batch_[d], known) PROVE CutInv'
    BY ZenonT(60), <2>1, <2>2, <2>12 DEF PurgeCache, CutInv, JobShaped, Document, Segment_
  <2> QED
    BY <1>2, <2>3, <2>4, <2>5, <2>6, <2>7, <2>8, <2>9, <2>10, <2>11, <2>12 DEF BuildNext
<1> QED
  BY <1>1, <1>2

\* What is cut from a text leaves none of it out, and the cursor always advances; code is cut into
\* tiles, whatever language it is in.
THEOREM CutsCoverTheText ==
  BuildSpec => []SegmentIsCovered
<1>1. BuildInit => CutInv
  BY BatchStarts DEF BuildInit, BuildFrom, CutInv, JobShaped, Idle
<1>2. CutInv /\ [BuildNext]_buildVars => CutInv'
  BY CutStep
<1>3. CutInv => SegmentIsCovered
  <2> SUFFICES ASSUME CutInv, job_.stage = "chunks", NEW language
               PROVE  /\ Covers(job_.spans, job_.text)
                      /\ LET spans == SplitCode(job_.text, RuleFor(Segment_).max, language)
                         IN Covers(spans, job_.text) /\ \A i \in 1 .. Len(spans) - 1 : spans[i][2] = spans[i + 1][1]
    BY DEF SegmentIsCovered
  <2>1. job_.text = Canonical(Segment_) /\ job_.spans = Cut_(Segment_) /\ IsList(Canonical(Segment_))
    BY CanonicalIsText DEF CutInv, BatchTyped, Document, Segment_
  <2>2. RuleFor(Segment_).max \in Nat \ {0} /\ RuleFor(Segment_).overlap \in Nat
    BY RulesAssumption DEF RuleFor
  <2>3. Covers(job_.spans, job_.text)
    BY <2>1, CutCovers
  <2> DEFINE rule == RuleFor(Segment_)
             text == job_.text
  <2>4. IsList(text) /\ rule.max \in Nat \ {0} /\ rule.overlap \in Nat
    BY <2>1, <2>2
  <2> HIDE DEF rule, text
  <2>5. /\ Covers(SplitCode(text, rule.max, language), text)
        /\ Tiled(SplitCode(text, rule.max, language))
    BY <2>4, SpansCover
  <2> QED
    BY <2>3, <2>5 DEF rule, text, Tiled
<1> QED
  BY <1>1, <1>2, <1>3, PTL DEF BuildSpec

\* Taking the last element off, or replacing it.
LEMMA Shortened ==
  ASSUME NEW s, IsList(s), s # <<>>
  PROVE  /\ Len(s) \in Nat \ {0} /\ DOMAIN s = 1 .. Len(s)
         /\ IsList(Front(s)) /\ Len(Front(s)) = Len(s) - 1 /\ DOMAIN Front(s) = 1 .. Len(s) - 1
         /\ \A i \in 1 .. Len(s) - 1 : Front(s)[i] = s[i]
         /\ Last(s) = s[Len(s)]
<1> DEFINE S == {s[i] : i \in DOMAIN s}
           t == SubSeq(s, 1, Len(s) - 1)
<1>1. s \in Seq(S)
  BY DEF IsList
<1>2. Len(s) \in Nat \ {0} /\ DOMAIN s = 1 .. Len(s)
  BY <1>1, EmptySeq
<1>3. t \in Seq(S) /\ Len(t) = Len(s) - 1 /\ \A i \in 1 .. Len(s) - 1 : t[i] = s[i]
  BY <1>1, <1>2, SubSeqProperties
<1> HIDE DEF t
<1>4. DOMAIN t = 1 .. Len(s) - 1
  BY <1>3
<1>5. t \in Seq({t[i] : i \in DOMAIN t})
  BY <1>3
<1> QED
  BY <1>2, <1>3, <1>4, <1>5 DEF IsList, Front, Last, t

-----------------------------------------------------------------------------
(* The regions of a page.  A path is given out once: the ordinal of an      *)
(* element is counted under the path of its parent.  Each of the parser's   *)
(* four places for a pending region holds a path of its own for its kind.   *)

Tags == UNION {Inside[t] : t \in DOMAIN Inside}
DomPaths == Seq(Tags \X Nat)

LastsAlike(s, e, t, f) == Append(s, e) = Append(t, f) => s = t /\ e = f
\* Two lists that become the same were the same, and so was what they got.
LEMMA SameAppends ==
  ASSUME NEW S, NEW s \in Seq(S), NEW e \in S, NEW t \in Seq(S), NEW f \in S
  PROVE  LastsAlike(s, e, t, f)
BY AppendInjective DEF LastsAlike

\* A path that an element of the page has.
Given(h, path) ==
  \E parent \in DomPaths, tag \in Tags, n \in Nat :
    /\ path = Append(parent, <<tag, n>>)
    /\ <<parent, tag>> \in DOMAIN h.ordinals /\ n <= h.ordinals[<<parent, tag>>]

\* It names no region of a kind yet.
Unused(h, path, kind) ==
  \A r \in DOMAIN h.regions : ~(h.regions[r].at = path /\ h.regions[r].kind = kind)

\* The parser has its fields and no others.
Fields(h) ==
  h \in [regions : {h.regions}, links : {h.links}, crumb : {h.crumb}, stack : {h.stack},
         ordinals : {h.ordinals}, text : {h.text}, kind : {h.kind}, at : {h.at}, under : {h.under},
         list : {h.list}, items : {h.items}, listAt : {h.listAt}, item : {h.item},
         tables : {h.tables}, code : {h.code}, codeAt : {h.codeAt}, codeText : {h.codeText},
         anchor : {h.anchor}, anchorText : {h.anchorText}, skip : {h.skip}]

CountedPaths(h) ==
  /\ IsList(h.stack) /\ \A i \in DOMAIN h.stack : h.stack[i].path \in DomPaths
  /\ \A key \in DOMAIN h.ordinals : h.ordinals[key] \in Nat

RegionsNamed(h) ==
  /\ IsList(h.regions)
  /\ \A r \in DOMAIN h.regions : /\ Given(h, h.regions[r].at)
                                 /\ h.regions[r].kind \in {"prose", "code", "list", "table"}
  /\ \A i, j \in DOMAIN h.regions :
       h.regions[i].at = h.regions[j].at /\ h.regions[i].kind = h.regions[j].kind => i = j

Pending(h, at, kind) == Given(h, at) /\ Unused(h, at, kind)

TablesNamed(h) ==
  /\ IsList(h.tables)
  /\ \A i \in DOMAIN h.tables : Pending(h, h.tables[i].at, "table")
  /\ \A i, j \in DOMAIN h.tables : h.tables[i].at = h.tables[j].at => i = j

Named(h) ==
  /\ Fields(h) /\ CountedPaths(h) /\ RegionsNamed(h) /\ TablesNamed(h)
  /\ h.kind # "none" => h.kind = "prose" /\ Pending(h, h.at, "prose")
  /\ h.list => Pending(h, h.listAt, "list")
  /\ h.code => Pending(h, h.codeAt, "code")

\* What names regions is as it was, or less of it is pending.
LEMMA NamedStays ==
  ASSUME NEW h, NEW g, Named(h), Fields(g),
         g.regions = h.regions, g.ordinals = h.ordinals,
         g.stack = h.stack \/ (h.stack # <<>> /\ g.stack = Front(h.stack)),
         g.kind = "none" \/ (g.kind = h.kind /\ g.at = h.at),
         g.list => h.list /\ g.listAt = h.listAt,
         g.code => h.code /\ g.codeAt = h.codeAt,
         IsList(g.tables), DOMAIN g.tables \subseteq DOMAIN h.tables,
         \A i \in DOMAIN g.tables : g.tables[i].at = h.tables[i].at
  PROVE  Named(g)
<1>1. \A p : Given(g, p) <=> Given(h, p)
  BY DEF Given
<1>2. \A p, k : Unused(g, p, k) <=> Unused(h, p, k)
  BY DEF Unused
<1>3. CountedPaths(g)
  <2>1. CASE g.stack = h.stack
    BY <2>1 DEF Named, CountedPaths
  <2>2. CASE h.stack # <<>> /\ g.stack = Front(h.stack)
    <3>1. IsList(h.stack) /\ \A i \in DOMAIN h.stack : h.stack[i].path \in DomPaths
      BY DEF Named, CountedPaths
    <3>2. IsList(g.stack) /\ \A i \in DOMAIN g.stack : i \in DOMAIN h.stack /\ g.stack[i] = h.stack[i]
      <4>1. /\ Len(h.stack) \in Nat /\ DOMAIN h.stack = 1 .. Len(h.stack)
            /\ IsList(Front(h.stack)) /\ DOMAIN Front(h.stack) = 1 .. Len(h.stack) - 1
            /\ \A i \in 1 .. Len(h.stack) - 1 : Front(h.stack)[i] = h.stack[i]
        BY <2>2, <3>1, Shortened
      <4>2. \A i \in 1 .. Len(h.stack) - 1 : i \in 1 .. Len(h.stack)
        BY <4>1
      <4> QED
        BY ZenonT(60), <2>2, <4>1, <4>2
    <3> QED
      BY <3>1, <3>2 DEF Named, CountedPaths
  <2> QED
    BY <2>1, <2>2
<1>4. RegionsNamed(g)
  BY <1>1 DEF Named, RegionsNamed
<1>5. TablesNamed(g)
  BY <1>1, <1>2 DEF Named, TablesNamed, Pending
<1> QED
  BY <1>1, <1>2, <1>3, <1>4, <1>5 DEF Named, Pending

\* A region that was pending is emitted, and is pending no more.
LEMMA NamedEmitted ==
  ASSUME NEW h, NEW at, NEW kind \in {"prose", "code", "list", "table"}, NEW texts, NEW under,
         Named(h), Pending(h, at, kind),
         kind = "prose" => h.kind = "none", kind = "list" => ~h.list, kind = "code" => ~h.code,
         kind = "table" => \A i \in DOMAIN h.tables : h.tables[i].at # at
  PROVE  Named(Emitted_(h, at, kind, texts, under))
<1> DEFINE new == [at |-> at, kind |-> kind, texts |-> texts, under |-> under]
           g == Emitted_(h, at, kind, texts, under)
<1>0. Fields(h)
  BY DEF Named
<1>1. /\ Fields(g) /\ g.regions = Append(h.regions, new)
      /\ g.stack = h.stack /\ g.ordinals = h.ordinals /\ g.kind = h.kind /\ g.at = h.at
      /\ g.list = h.list /\ g.listAt = h.listAt /\ g.tables = h.tables
      /\ g.code = h.code /\ g.codeAt = h.codeAt
  BY <1>0 DEF Emitted_, Fields
<1> HIDE DEF g
<1>2. /\ IsList(g.regions) /\ Len(h.regions) \in Nat
      /\ DOMAIN h.regions = 1 .. Len(h.regions) /\ DOMAIN g.regions = 1 .. Len(h.regions) + 1
      /\ g.regions[Len(h.regions) + 1] = new /\ \A i \in DOMAIN h.regions : g.regions[i] = h.regions[i]
  BY <1>1, Appended DEF Named, RegionsNamed
<1> HIDE DEF new
<1>3. new.at = at /\ new.kind = kind
  BY DEF new
<1>4. \A p : Given(g, p) <=> Given(h, p)
  BY <1>1 DEF Given
<1>5. \A p, k : Unused(h, p, k) /\ (p # at \/ k # kind) => Unused(g, p, k)
  BY <1>2, <1>3 DEF Unused
<1>6. RegionsNamed(g)
  <2>1. \A r \in DOMAIN g.regions : r \in DOMAIN h.regions \/ r = Len(h.regions) + 1
    BY <1>2
  <2>2. \A r \in DOMAIN h.regions : ~(h.regions[r].at = at /\ h.regions[r].kind = kind)
    BY DEF Pending, Unused
  <2>3. \A r \in DOMAIN g.regions : Given(g, g.regions[r].at) /\ g.regions[r].kind \in {"prose", "code", "list", "table"}
    BY <1>2, <1>3, <1>4, <2>1 DEF Named, RegionsNamed, Pending
  <2>4. ASSUME NEW i \in DOMAIN g.regions, NEW j \in DOMAIN g.regions,
               g.regions[i].at = g.regions[j].at, g.regions[i].kind = g.regions[j].kind
        PROVE  i = j
    BY ZenonT(60), <1>2, <1>3, <2>1, <2>2, <2>4 DEF Named, RegionsNamed
  <2> QED
    BY <1>2, <2>3, <2>4 DEF RegionsNamed
<1>7. TablesNamed(g)
  BY <1>1, <1>4, <1>5 DEF Named, TablesNamed, Pending
<1>8. CountedPaths(g)
  BY <1>1 DEF Named, CountedPaths
<1>9. /\ g.kind # "none" => g.kind = "prose" /\ Pending(g, g.at, "prose")
      /\ g.list => Pending(g, g.listAt, "list")
      /\ g.code => Pending(g, g.codeAt, "code")
  BY <1>1, <1>4, <1>5 DEF Named, Pending
<1> QED
  BY <1>1, <1>6, <1>7, <1>8, <1>9 DEF Named, g

\* Text that is flushed, if an element claims it.
LEMMA NamedFlushed ==
  ASSUME NEW h, Named(h)
  PROVE  /\ Named(Flushed(h)) /\ Flushed(h).kind = "none" /\ Flushed(h).ordinals = h.ordinals
         /\ Flushed(h).stack = h.stack /\ Flushed(h).list = h.list /\ Flushed(h).listAt = h.listAt
         /\ Flushed(h).items = h.items /\ Flushed(h).crumb = h.crumb
         /\ Flushed(h).code = h.code /\ Flushed(h).tables = h.tables
         /\ \A p, k : (k # "prose" \/ h.kind = "none" \/ p # h.at) /\ Unused(h, p, k) => Unused(Flushed(h), p, k)
<1> DEFINE c == [h EXCEPT !.text = <<>>, !.kind = "none"]
           g == Emitted_(c, h.at, h.kind, h.text, h.under)
<1>0. Fields(h)
  BY DEF Named
<1>1. /\ Fields(c) /\ c.regions = h.regions /\ c.kind = "none" /\ c.ordinals = h.ordinals
      /\ c.stack = h.stack /\ c.list = h.list /\ c.listAt = h.listAt /\ c.items = h.items /\ c.crumb = h.crumb
      /\ c.code = h.code /\ c.codeAt = h.codeAt /\ c.tables = h.tables
  BY <1>0 DEF Fields
<1> HIDE DEF c
<1>2. IsList(h.tables)
  BY DEF Named, TablesNamed
<1>3. Named(c)
  BY <1>1, <1>2, NamedStays
<1>4. CASE h.text = <<>> \/ h.kind = "none"
  <2>1. Flushed(h) = c
    BY <1>4 DEF Flushed, c
  <2> QED
    BY <1>1, <1>3, <2>1 DEF Unused
<1>5. CASE h.text # <<>> /\ h.kind # "none"
  <2>1. Flushed(h) = g
    BY <1>5 DEF Flushed, c
  <2>2. h.kind = "prose" /\ Pending(c, h.at, "prose")
    BY <1>1, <1>5 DEF Named, Pending, Given, Unused
  <2>3. Named(g)
    BY <1>1, <1>3, <2>2, NamedEmitted
  <2>4. /\ g.kind = "none" /\ g.ordinals = h.ordinals
        /\ g.stack = h.stack /\ g.list = h.list /\ g.listAt = h.listAt /\ g.items = h.items /\ g.crumb = h.crumb
        /\ g.code = h.code /\ g.tables = h.tables
        /\ g.regions = Append(h.regions, [at |-> h.at, kind |-> h.kind, texts |-> h.text, under |-> h.under])
    BY <1>1 DEF Emitted_, Fields
  <2> HIDE DEF g
  <2>5. \A p, k : (k # "prose" \/ p # h.at) /\ Unused(h, p, k) => Unused(g, p, k)
    <3> DEFINE new == [at |-> h.at, kind |-> h.kind, texts |-> h.text, under |-> h.under]
    <3>1. /\ Len(h.regions) \in Nat
          /\ DOMAIN h.regions = 1 .. Len(h.regions) /\ DOMAIN g.regions = 1 .. Len(h.regions) + 1
          /\ g.regions[Len(h.regions) + 1] = new /\ \A i \in DOMAIN h.regions : g.regions[i] = h.regions[i]
      BY <2>4, Appended DEF Named, RegionsNamed
    <3>2. new.kind = "prose" /\ new.at = h.at
      BY <2>2
    <3> QED
      BY <3>1, <3>2 DEF Unused
  <2> QED
    BY <1>5, <2>1, <2>3, <2>4, <2>5
<1> QED
  BY <1>4, <1>5

\* A new element gets a path that nothing has.
LEMMA NamedPushed ==
  ASSUME NEW h, NEW tag \in Tags, Named(h)
  PROVE  LET g == Pushed(h, tag)
             path == Last(g.stack).path
         IN  /\ Named(g) /\ Given(g, path) /\ \A k : Unused(g, path, k)
             /\ \A i \in DOMAIN g.tables : g.tables[i].at # path
             /\ g.kind # "none" => g.at # path
             /\ g.list = h.list /\ g.code = h.code /\ g.tables = h.tables /\ g.skip = h.skip
             /\ g.crumb = h.crumb /\ g.stack # <<>>
<1> DEFINE up == ParentPath(h)
           key == <<up, tag>>
           n == Ordinal(h, tag)
           path == Append(up, <<tag, n>>)
           g == Pushed(h, tag)
<1>0. Fields(h) /\ CountedPaths(h)
  BY DEF Named
<1>1. up \in DomPaths
  <2>1. CASE h.stack = <<>>
    <3>1. <<>> \in DomPaths
      BY DEF DomPaths
    <3> QED
      BY <2>1, <3>1 DEF ParentPath, Nowhere
  <2>2. CASE h.stack # <<>>
    <3>1. Last(h.stack) = h.stack[Len(h.stack)] /\ Len(h.stack) \in DOMAIN h.stack
      BY <1>0, <2>2, Shortened DEF CountedPaths
    <3> QED
      BY <1>0, <2>2, <3>1 DEF CountedPaths, ParentPath
  <2> QED
    BY <2>1, <2>2
<1> HIDE DEF up
<1>2. n \in Nat /\ n = (IF key \in DOMAIN h.ordinals THEN h.ordinals[key] ELSE 0) + 1
  BY <1>0 DEF Ordinal, CountedPaths, up
<1> HIDE DEF n
<1>3. path \in DomPaths
  BY <1>1, <1>2 DEF DomPaths
<1>4. ~Given(h, path)
  <2> SUFFICES ASSUME NEW q \in DomPaths, NEW t \in Tags, NEW k \in Nat, path = Append(q, <<t, k>>),
                      <<q, t>> \in DOMAIN h.ordinals, k <= h.ordinals[<<q, t>>]
               PROVE  FALSE
    BY DEF Given
  <2>1. up = q /\ <<tag, n>> = <<t, k>>
    <3>1. /\ up \in Seq(Tags \X Nat) /\ q \in Seq(Tags \X Nat)
          /\ <<tag, n>> \in Tags \X Nat /\ <<t, k>> \in Tags \X Nat
      BY <1>1, <1>2 DEF DomPaths
    <3>2. Append(up, <<tag, n>>) = Append(q, <<t, k>>)
      OBVIOUS
    <3>3. LastsAlike(up, <<tag, n>>, q, <<t, k>>)
      BY ZenonT(60), <3>1, SameAppends
    <3> QED
      BY ZenonT(60), <3>2, <3>3 DEF LastsAlike
  <2>2. h.ordinals[key] \in Nat
    BY <1>0, <2>1 DEF CountedPaths
  <2> QED
    BY <1>2, <2>1, <2>2
<1>5. /\ Fields(g) /\ g.regions = h.regions /\ g.kind = h.kind /\ g.at = h.at
      /\ g.stack = Append(h.stack, [tag |-> tag, path |-> path]) /\ g.ordinals = Ticked_(h, tag)
      /\ g.list = h.list /\ g.listAt = h.listAt /\ g.code = h.code /\ g.codeAt = h.codeAt
      /\ g.tables = h.tables /\ g.skip = h.skip /\ g.crumb = h.crumb
  BY <1>0 DEF Pushed, Fields, n, up
<1> HIDE DEF g, path
<1>6. /\ DOMAIN g.ordinals = DOMAIN h.ordinals \cup {key}
      /\ \A k \in DOMAIN g.ordinals : g.ordinals[k] = (IF k = key THEN n ELSE h.ordinals[k])
  BY <1>5 DEF Ticked_, n, up
<1> HIDE DEF key
<1>7. \A p : Given(h, p) => Given(g, p)
  <2> SUFFICES ASSUME NEW p, NEW q \in DomPaths, NEW t \in Tags, NEW k \in Nat, p = Append(q, <<t, k>>),
                      <<q, t>> \in DOMAIN h.ordinals, k <= h.ordinals[<<q, t>>]
               PROVE  Given(g, p)
    BY DEF Given
  <2>1. k <= g.ordinals[<<q, t>>]
    <3>1. CASE <<q, t>> = key
      <4>1. h.ordinals[key] \in Nat
        BY <1>0, <3>1 DEF CountedPaths
      <4> QED
        BY <1>2, <1>6, <3>1, <4>1
    <3>2. CASE <<q, t>> # key
      BY <1>6, <3>2
    <3> QED
      BY <3>1, <3>2
  <2> QED
    BY <1>6, <2>1 DEF Given
<1>8. Given(g, path)
  <2>1. key = <<up, tag>>
    BY DEF key
  <2>2. key \in DOMAIN g.ordinals /\ n <= g.ordinals[key]
    BY <1>2, <1>6
  <2> QED
    BY <1>1, <1>2, <2>1, <2>2 DEF Given, path
<1>9. \A p, k : Unused(g, p, k) <=> Unused(h, p, k)
  BY <1>5 DEF Unused
<1>10. \A k : Unused(g, path, k)
  BY <1>4, <1>9 DEF Unused, Named, RegionsNamed
<1>11. \A i \in DOMAIN g.tables : g.tables[i].at # path
  BY <1>4, <1>5 DEF Named, TablesNamed, Pending
<1>17. g.kind # "none" => g.at # path
  BY <1>4, <1>5 DEF Named, Pending
<1>12. /\ IsList(g.stack) /\ g.stack # <<>> /\ Last(g.stack).path = path
       /\ \A i \in DOMAIN g.stack : g.stack[i].path \in DomPaths
  <2> DEFINE new == [tag |-> tag, path |-> path]
  <2>1. /\ IsList(g.stack) /\ Len(g.stack) = Len(h.stack) + 1 /\ Len(h.stack) \in Nat
        /\ DOMAIN h.stack = 1 .. Len(h.stack) /\ DOMAIN g.stack = 1 .. Len(h.stack) + 1
        /\ g.stack[Len(h.stack) + 1] = new /\ \A i \in DOMAIN h.stack : g.stack[i] = h.stack[i]
    BY <1>0, <1>5, Appended DEF CountedPaths
  <2>2. new.path = path
    OBVIOUS
  <2> HIDE DEF new
  <2>3. g.stack # <<>>
    BY <2>1
  <2>4. Last(g.stack).path = path
    BY <2>1, <2>2 DEF Last
  <2>5. \A i \in DOMAIN g.stack : i \in DOMAIN h.stack \/ i = Len(h.stack) + 1
    BY <2>1
  <2> QED
    BY <1>0, <1>3, <2>1, <2>2, <2>3, <2>4, <2>5 DEF CountedPaths
<1>13. CountedPaths(g)
  BY <1>0, <1>2, <1>6, <1>12 DEF CountedPaths
<1>14. RegionsNamed(g)
  BY <1>5, <1>7 DEF Named, RegionsNamed
<1>15. TablesNamed(g)
  BY <1>5, <1>7, <1>9 DEF Named, TablesNamed, Pending
<1>16. Named(g)
  BY <1>5, <1>7, <1>9, <1>13, <1>14, <1>15 DEF Named, Pending
<1> QED
  BY <1>5, <1>8, <1>10, <1>11, <1>12, <1>16, <1>17 DEF g

\* What is pending may be another element, and another table may be open.
LEMMA NamedOpens ==
  ASSUME NEW h, NEW g, Named(h), Fields(g),
         g.regions = h.regions, g.ordinals = h.ordinals, g.stack = h.stack,
         g.kind # "none" => g.kind = "prose" /\ Pending(h, g.at, "prose"),
         g.list => Pending(h, g.listAt, "list"),
         g.code => Pending(h, g.codeAt, "code"),
         IsList(g.tables), \A i \in DOMAIN g.tables : Pending(h, g.tables[i].at, "table"),
         \A i, j \in DOMAIN g.tables : g.tables[i].at = g.tables[j].at => i = j
  PROVE  Named(g)
<1>1. \A p : Given(g, p) <=> Given(h, p)
  BY DEF Given
<1>2. \A p, k : Unused(g, p, k) <=> Unused(h, p, k)
  BY DEF Unused
<1> QED
  BY <1>1, <1>2 DEF Named, CountedPaths, RegionsNamed, TablesNamed, Pending

\* The innermost table is another one, at the same place.
LEMMA TableReplaced ==
  ASSUME NEW h, NEW t, Named(h), InTable(h), t.at = Table(h).at
  PROVE  Named(WithTable(h, t))
<1> DEFINE g == WithTable(h, t)
           n == Len(h.tables)
<1>0. Fields(h) /\ IsList(h.tables) /\ h.tables # <<>>
  BY DEF Named, TablesNamed, InTable, NoTable
<1>1. /\ n \in Nat \ {0} /\ DOMAIN h.tables = 1 .. n /\ IsList(Front(h.tables))
      /\ Len(Front(h.tables)) = n - 1 /\ DOMAIN Front(h.tables) = 1 .. n - 1
      /\ \A i \in 1 .. n - 1 : Front(h.tables)[i] = h.tables[i]
      /\ Last(h.tables) = h.tables[n]
  BY <1>0, Shortened
<1>2. /\ IsList(Append(Front(h.tables), t)) /\ DOMAIN Append(Front(h.tables), t) = 1 .. n
      /\ Append(Front(h.tables), t)[n] = t
      /\ \A i \in 1 .. n - 1 : Append(Front(h.tables), t)[i] = h.tables[i]
  BY <1>1, Appended
<1>3. /\ Fields(g) /\ g.regions = h.regions /\ g.ordinals = h.ordinals /\ g.stack = h.stack
      /\ g.kind = h.kind /\ g.at = h.at /\ g.list = h.list /\ g.listAt = h.listAt
      /\ g.code = h.code /\ g.codeAt = h.codeAt
      /\ g.tables = Append(Front(h.tables), t)
  <2> DEFINE more == Append(Front(h.tables), t)
  <2>1. g = [h EXCEPT !.tables = more]
    BY DEF WithTable
  <2> HIDE DEF g, more
  <2>2. /\ Fields(g) /\ g.regions = h.regions /\ g.ordinals = h.ordinals /\ g.stack = h.stack
        /\ g.kind = h.kind /\ g.at = h.at /\ g.list = h.list /\ g.listAt = h.listAt
        /\ g.code = h.code /\ g.codeAt = h.codeAt /\ g.tables = more
    BY ZenonT(60), <1>0, <2>1 DEF Fields
  <2> QED
    BY <2>2 DEF more
<1> HIDE DEF g
<1>4. \A i \in DOMAIN g.tables : g.tables[i].at = h.tables[i].at
  <2> SUFFICES ASSUME NEW i \in 1 .. n PROVE g.tables[i].at = h.tables[i].at
    BY <1>2, <1>3
  <2>1. CASE i = n
    BY <1>1, <1>2, <1>3, <2>1 DEF Table
  <2>2. CASE i # n
    <3>1. i \in 1 .. n - 1
      BY <1>1, <2>2
    <3> QED
      BY <1>2, <1>3, <3>1
  <2> QED
    BY <2>1, <2>2
<1>5. IsList(g.tables) /\ DOMAIN g.tables \subseteq DOMAIN h.tables
  BY <1>1, <1>2, <1>3
<1>6. Named(g)
  BY <1>3, <1>4, <1>5, NamedStays
<1> QED
  BY <1>6 DEF g

\* Another table is opened, at a path that nothing has.
LEMMA TableOpened ==
  ASSUME NEW h, NEW g, NEW t, Named(h), Fields(g), Pending(h, t.at, "table"),
         \A i \in DOMAIN h.tables : h.tables[i].at # t.at,
         g.regions = h.regions, g.ordinals = h.ordinals, g.stack = h.stack, g.kind = h.kind, g.at = h.at,
         g.list = h.list, g.listAt = h.listAt, g.code = h.code, g.codeAt = h.codeAt,
         g.tables = Append(h.tables, t)
  PROVE  Named(g)
<1>1. /\ IsList(g.tables) /\ Len(h.tables) \in Nat /\ DOMAIN h.tables = 1 .. Len(h.tables)
      /\ DOMAIN g.tables = 1 .. Len(h.tables) + 1
      /\ g.tables[Len(h.tables) + 1] = t /\ \A i \in DOMAIN h.tables : g.tables[i] = h.tables[i]
  BY Appended DEF Named, TablesNamed
<1>2. \A i \in DOMAIN g.tables : i \in DOMAIN h.tables \/ i = Len(h.tables) + 1
  BY <1>1
<1>3. \A i \in DOMAIN g.tables : Pending(h, g.tables[i].at, "table")
  BY <1>1, <1>2 DEF Named, TablesNamed
<1>4. \A i, j \in DOMAIN g.tables : g.tables[i].at = g.tables[j].at => i = j
  BY <1>1, <1>2 DEF Named, TablesNamed
<1> QED
  BY ZenonT(60), <1>1, <1>3, <1>4, NamedOpens DEF Named

\* An item of a list ends.
LEMMA NamedItem ==
  ASSUME NEW h, Named(h)
  PROVE  Named(ListItem(h))
<1> DEFINE g == ListItem(h)
<1>1. Fields(h) /\ IsList(h.tables)
  BY DEF Named, TablesNamed
<1>2. /\ Fields(g) /\ g.regions = h.regions /\ g.ordinals = h.ordinals /\ g.stack = h.stack
      /\ g.kind = h.kind /\ g.at = h.at /\ g.list = h.list /\ g.listAt = h.listAt
      /\ g.code = h.code /\ g.codeAt = h.codeAt /\ g.tables = h.tables
  BY <1>1 DEF Fields, ListItem
<1> HIDE DEF g
<1>3. Named(g)
  BY <1>1, <1>2, NamedStays
<1> QED
  BY <1>3 DEF g

\* A start tag.
LEMMA NamedStart ==
  ASSUME NEW before, NEW tag \in Tags, Named(before)
  PROVE  Named(StartTag(before, tag))
<1> DEFINE h == Pushed(before, tag)
           path == Last(h.stack).path
           f == Flushed(h)
           skipping == [h EXCEPT !.skip = IF @ = 0 THEN Len(h.stack) ELSE @]
           coding == [f EXCEPT !.code = TRUE, !.codeAt = path, !.codeText = <<>>]
           listing == [f EXCEPT !.list = TRUE, !.listAt = path, !.items = <<>>]
           new == [at |-> path, rows |-> <<>>, row |-> FALSE, cells |-> <<>>, cell |-> <<>>, under |-> h.crumb]
           tabling == [f EXCEPT !.tables = Append(@, new)]
           rowing == WithTable(h, [RowDone(Table(h)) EXCEPT !.row = TRUE, !.cells = <<>>])
           linking == [h EXCEPT !.anchor = TRUE, !.anchorText = <<>>]
<1>1. StartTag(before, tag) \in {skipping, h, Opened_(h, path), coding, listing, ListItem(h), tabling, linking}
      \/ (InTable(h) /\ StartTag(before, tag) = rowing)
  BY DEF StartTag
<1>2. /\ Named(h) /\ Given(h, path) /\ \A k : Unused(h, path, k)
      /\ \A i \in DOMAIN h.tables : h.tables[i].at # path
      /\ h.kind # "none" => h.at # path
  BY NamedPushed
<1> HIDE DEF h, path
<1>3. /\ Named(f) /\ f.kind = "none" /\ f.ordinals = h.ordinals /\ f.stack = h.stack /\ f.tables = h.tables
      /\ \A k : Unused(f, path, k)
  BY <1>2, NamedFlushed
<1>4. Fields(h) /\ Fields(f)
  BY <1>2, <1>3 DEF Named
<1>5. \A k : Pending(f, path, k)
  BY <1>2, <1>3 DEF Pending, Given
<1> DEFINE opened == Opened_(h, path)
<1>6. opened = [f EXCEPT !.kind = "prose", !.at = path, !.under = h.crumb]
  BY DEF Opened_
<1> HIDE DEF f
<1>7. Named(skipping)
  <2> DEFINE g == skipping
  <2>1. /\ Fields(g) /\ g.regions = h.regions /\ g.ordinals = h.ordinals /\ g.stack = h.stack
        /\ g.kind = h.kind /\ g.at = h.at /\ g.list = h.list /\ g.listAt = h.listAt
        /\ g.code = h.code /\ g.codeAt = h.codeAt /\ g.tables = h.tables
    BY <1>4 DEF Fields
  <2> HIDE DEF g
  <2>3. Named(g)
    BY <1>2, <2>1, NamedStays DEF Named, TablesNamed
  <2> QED
    BY <2>3 DEF g
<1>8. Named(linking)
  <2> DEFINE g == linking
  <2>1. /\ Fields(g) /\ g.regions = h.regions /\ g.ordinals = h.ordinals /\ g.stack = h.stack
        /\ g.kind = h.kind /\ g.at = h.at /\ g.list = h.list /\ g.listAt = h.listAt
        /\ g.code = h.code /\ g.codeAt = h.codeAt /\ g.tables = h.tables
    BY <1>4 DEF Fields
  <2> HIDE DEF g
  <2>3. Named(g)
    BY <1>2, <2>1, NamedStays DEF Named, TablesNamed
  <2> QED
    BY <2>3 DEF g
<1>9. Named(ListItem(h))
  BY <1>2, NamedItem
<1>10. Named(opened)
  <2>1. /\ Fields(opened) /\ opened.regions = f.regions /\ opened.ordinals = f.ordinals /\ opened.stack = f.stack
        /\ opened.kind = "prose" /\ opened.at = path /\ opened.list = f.list /\ opened.listAt = f.listAt
        /\ opened.code = f.code /\ opened.codeAt = f.codeAt /\ opened.tables = f.tables
    BY ZenonT(60), <1>4, <1>6 DEF Fields
  <2> HIDE DEF opened
  <2> QED
    BY <1>3, <1>5, <2>1, NamedOpens DEF Named, TablesNamed
<1>11. Named(coding)
  <2> DEFINE g == coding
  <2>1. /\ Fields(g) /\ g.regions = f.regions /\ g.ordinals = f.ordinals /\ g.stack = f.stack
        /\ g.kind = f.kind /\ g.at = f.at /\ g.list = f.list /\ g.listAt = f.listAt
        /\ g.code = TRUE /\ g.codeAt = path /\ g.tables = f.tables
    BY <1>4 DEF Fields
  <2> HIDE DEF g
  <2>3. Named(g)
    BY <1>3, <1>5, <2>1, NamedOpens DEF Named, TablesNamed
  <2> QED
    BY <2>3 DEF g
<1>12. Named(listing)
  <2> DEFINE g == listing
  <2>1. /\ Fields(g) /\ g.regions = f.regions /\ g.ordinals = f.ordinals /\ g.stack = f.stack
        /\ g.kind = f.kind /\ g.at = f.at /\ g.list = TRUE /\ g.listAt = path
        /\ g.code = f.code /\ g.codeAt = f.codeAt /\ g.tables = f.tables
    BY <1>4 DEF Fields
  <2> HIDE DEF g
  <2>3. Named(g)
    BY <1>3, <1>5, <2>1, NamedOpens DEF Named, TablesNamed
  <2> QED
    BY <2>3 DEF g
<1>13. Named(tabling)
  <2> DEFINE g == tabling
  <2>1. /\ Fields(g) /\ g.regions = f.regions /\ g.ordinals = f.ordinals /\ g.stack = f.stack
        /\ g.kind = f.kind /\ g.at = f.at /\ g.list = f.list /\ g.listAt = f.listAt
        /\ g.code = f.code /\ g.codeAt = f.codeAt /\ g.tables = Append(f.tables, new)
    BY <1>4 DEF Fields
  <2>2. new.at = path
    OBVIOUS
  <2> HIDE DEF g, new
  <2>a. Pending(f, new.at, "table") /\ \A i \in DOMAIN f.tables : f.tables[i].at # new.at
    BY ZenonT(60), <1>2, <1>3, <1>5, <2>2
  <2>3. Named(g)
    BY ZenonT(60), <1>3, <2>1, <2>a, TableOpened
  <2> QED
    BY <2>3 DEF g
<1>14. InTable(h) => Named(rowing)
  <2>1. ASSUME InTable(h), [RowDone(Table(h)) EXCEPT !.row = TRUE, !.cells = <<>>].at = Table(h).at
        PROVE  Named(rowing)
    BY <1>2, <2>1, TableReplaced
  <2>2. [RowDone(Table(h)) EXCEPT !.row = TRUE, !.cells = <<>>].at = Table(h).at
    BY DEF RowDone
  <2> QED
    BY <2>1, <2>2
<1> QED
  BY <1>1, <1>2, <1>7, <1>8, <1>9, <1>10, <1>11, <1>12, <1>13, <1>14

\* An end tag.
LEMMA NamedEnd ==
  ASSUME NEW before, NEW tag, Named(before)
  PROVE  Named(EndTag(before, tag))
<1> DEFINE matches == Top(before) = tag
           h == IF matches THEN [before EXCEPT !.stack = Front(@)] ELSE before
           skipping == [h EXCEPT !.skip = IF Len(before.stack) <= @ \/ matches THEN 0 ELSE @]
           celling == WithTable(h, [Table(h) EXCEPT !.cells = Append(@, Table(h).cell), !.cell = <<>>])
           rowing == WithTable(h, RowEnded(Table(h)))
           linking == [h EXCEPT !.links = Append(@, h.anchorText), !.anchor = FALSE, !.anchorText = <<>>]
<1>1. \/ EndTag(before, tag) \in {skipping, before, HeadingEnded(h, tag), Flushed(h), ListItem(h), linking, h}
      \/ h.code /\ EndTag(before, tag) = CodeEnded(h)
      \/ h.list /\ EndTag(before, tag) = ListEnded(h)
      \/ InTable(h) /\ EndTag(before, tag) \in {celling, rowing, TableEnded(h)}
  BY DEF EndTag
<1>2. Named(h)
  <2> DEFINE g == [before EXCEPT !.stack = Front(@)]
  <2>1. CASE before.stack = <<>>
    <3>1. Front(<<>>) = <<>>
      BY DEF Front
    <3>2. /\ Fields(g) /\ g.regions = before.regions /\ g.ordinals = before.ordinals /\ g.stack = before.stack
          /\ g.kind = before.kind /\ g.at = before.at /\ g.list = before.list /\ g.listAt = before.listAt
          /\ g.code = before.code /\ g.codeAt = before.codeAt /\ g.tables = before.tables
      BY <2>1, <3>1 DEF Named, Fields
    <3> HIDE DEF g
    <3>3. Named(g)
      BY <3>2, NamedStays DEF Named, TablesNamed
    <3> QED
      BY <3>3 DEF g
  <2>2. CASE before.stack # <<>>
    <3>2. /\ Fields(g) /\ g.regions = before.regions /\ g.ordinals = before.ordinals /\ g.stack = Front(before.stack)
          /\ g.kind = before.kind /\ g.at = before.at /\ g.list = before.list /\ g.listAt = before.listAt
          /\ g.code = before.code /\ g.codeAt = before.codeAt /\ g.tables = before.tables
      BY DEF Named, Fields
    <3> HIDE DEF g
    <3>3. Named(g)
      BY <2>2, <3>2, NamedStays DEF Named, TablesNamed
    <3> QED
      BY <3>3 DEF g
  <2> QED
    BY <2>1, <2>2
<1> HIDE DEF h, matches
<1>4. Fields(h) /\ IsList(h.tables)
  BY <1>2 DEF Named, TablesNamed
<1>5. Named(skipping)
  <2> DEFINE g == skipping
  <2>1. /\ Fields(g) /\ g.regions = h.regions /\ g.ordinals = h.ordinals /\ g.stack = h.stack
        /\ g.kind = h.kind /\ g.at = h.at /\ g.list = h.list /\ g.listAt = h.listAt
        /\ g.code = h.code /\ g.codeAt = h.codeAt /\ g.tables = h.tables
    BY <1>4 DEF Fields
  <2> HIDE DEF g
  <2>2. Named(g)
    BY <1>2, <1>4, <2>1, NamedStays
  <2> QED
    BY <2>2 DEF g
<1>6. Named(linking)
  <2> DEFINE g == linking
  <2>1. /\ Fields(g) /\ g.regions = h.regions /\ g.ordinals = h.ordinals /\ g.stack = h.stack
        /\ g.kind = h.kind /\ g.at = h.at /\ g.list = h.list /\ g.listAt = h.listAt
        /\ g.code = h.code /\ g.codeAt = h.codeAt /\ g.tables = h.tables
    BY <1>4 DEF Fields
  <2> HIDE DEF g
  <2>2. Named(g)
    BY <1>2, <1>4, <2>1, NamedStays
  <2> QED
    BY <2>2 DEF g
<1>7. Named(ListItem(h))
  BY <1>2, NamedItem
<1>8. Named(HeadingEnded(h, tag))
  <2> DEFINE level == TagLevel(tag) - 1
             kept == SubSeq(h.crumb, 1, IF level < Len(h.crumb) THEN level ELSE Len(h.crumb))
             a == [h EXCEPT !.crumb = kept]
             b == [h EXCEPT !.crumb = Append(kept, h.text), !.under = kept]
  <2>1. HeadingEnded(h, tag) \in {Flushed(a), Flushed(b)}
    BY DEF HeadingEnded
  <2> HIDE DEF kept
  <2>2. /\ Fields(a) /\ a.regions = h.regions /\ a.ordinals = h.ordinals /\ a.stack = h.stack
        /\ a.kind = h.kind /\ a.at = h.at /\ a.list = h.list /\ a.listAt = h.listAt
        /\ a.code = h.code /\ a.codeAt = h.codeAt /\ a.tables = h.tables
    BY <1>4 DEF Fields
  <2>3. /\ Fields(b) /\ b.regions = h.regions /\ b.ordinals = h.ordinals /\ b.stack = h.stack
        /\ b.kind = h.kind /\ b.at = h.at /\ b.list = h.list /\ b.listAt = h.listAt
        /\ b.code = h.code /\ b.codeAt = h.codeAt /\ b.tables = h.tables
    BY <1>4 DEF Fields
  <2> HIDE DEF a, b
  <2>4. Named(a) /\ Named(b)
    BY <1>2, <1>4, <2>2, <2>3, NamedStays
  <2>5. Named(Flushed(a)) /\ Named(Flushed(b))
    BY <2>4, NamedFlushed
  <2> QED
    BY <2>1, <2>5
<1>9. h.code => Named(CodeEnded(h))
  <2> DEFINE c == [h EXCEPT !.code = FALSE, !.codeText = <<>>]
  <2>1. CodeEnded(h) \in {c, Emitted_(c, h.codeAt, "code", h.codeText, h.crumb)}
    BY DEF CodeEnded
  <2>2. /\ Fields(c) /\ c.regions = h.regions /\ c.ordinals = h.ordinals /\ c.stack = h.stack
        /\ c.kind = h.kind /\ c.at = h.at /\ c.list = h.list /\ c.listAt = h.listAt
        /\ c.code = FALSE /\ c.codeAt = h.codeAt /\ c.tables = h.tables
    BY <1>4 DEF Fields
  <2> HIDE DEF c
  <2>3. Named(c)
    BY <1>2, <1>4, <2>2, NamedStays
  <2>4. ASSUME h.code PROVE Pending(c, h.codeAt, "code")
    BY ZenonT(60), <1>2, <2>2, <2>4 DEF Named, Pending, Given, Unused
  <2>5. ASSUME h.code PROVE Named(Emitted_(c, h.codeAt, "code", h.codeText, h.crumb))
    BY <2>2, <2>3, <2>4, <2>5, NamedEmitted
  <2> QED
    BY <2>1, <2>3, <2>5
<1>10. h.list => Named(ListEnded(h))
  <2> DEFINE c == [h EXCEPT !.list = FALSE, !.items = <<>>]
             texts == FlattenSeq(h.items)
  <2>1. ListEnded(h) \in {c, Emitted_(c, h.listAt, "list", texts, h.crumb)}
    BY DEF ListEnded
  <2>2. /\ Fields(c) /\ c.regions = h.regions /\ c.ordinals = h.ordinals /\ c.stack = h.stack
        /\ c.kind = h.kind /\ c.at = h.at /\ c.list = FALSE /\ c.listAt = h.listAt
        /\ c.code = h.code /\ c.codeAt = h.codeAt /\ c.tables = h.tables
    BY <1>4 DEF Fields
  <2> HIDE DEF c, texts
  <2>3. Named(c)
    BY <1>2, <1>4, <2>2, NamedStays
  <2>4. ASSUME h.list PROVE Pending(c, h.listAt, "list")
    BY ZenonT(60), <1>2, <2>2, <2>4 DEF Named, Pending, Given, Unused
  <2>5. ASSUME h.list PROVE Named(Emitted_(c, h.listAt, "list", texts, h.crumb))
    BY <2>2, <2>3, <2>4, <2>5, NamedEmitted
  <2> QED
    BY <2>1, <2>3, <2>5
<1>11. InTable(h) => Named(celling) /\ Named(rowing)
  <2>1. [Table(h) EXCEPT !.cells = Append(@, Table(h).cell), !.cell = <<>>].at = Table(h).at
    OBVIOUS
  <2>2. RowEnded(Table(h)).at = Table(h).at
    BY DEF RowEnded
  <2> QED
    BY <1>2, <2>1, <2>2, TableReplaced
<1>12. InTable(h) => Named(TableEnded(h))
  <2> SUFFICES ASSUME InTable(h) PROVE Named(TableEnded(h))
    OBVIOUS
  <2> DEFINE t == Table(h)
             texts == Markdown(RowDone(t).rows)
             c == [h EXCEPT !.tables = Front(@)]
             n == Len(h.tables)
  <2>1. TableEnded(h) \in {c, Emitted_(c, t.at, "table", texts, t.under)}
    BY DEF TableEnded
  <2>2. /\ Fields(c) /\ c.regions = h.regions /\ c.ordinals = h.ordinals /\ c.stack = h.stack
        /\ c.kind = h.kind /\ c.at = h.at /\ c.list = h.list /\ c.listAt = h.listAt
        /\ c.code = h.code /\ c.codeAt = h.codeAt /\ c.tables = Front(h.tables)
    BY <1>4 DEF Fields
  <2>3. /\ n \in Nat \ {0} /\ DOMAIN h.tables = 1 .. n /\ IsList(Front(h.tables))
        /\ DOMAIN Front(h.tables) = 1 .. n - 1
        /\ \A i \in 1 .. n - 1 : Front(h.tables)[i] = h.tables[i]
        /\ t = h.tables[n]
    BY <1>4, Shortened DEF InTable, NoTable, Table
  <2> HIDE DEF c, t, texts, n
  <2>4. Named(c)
    BY <1>2, <2>2, <2>3, NamedStays
  <2>5. Pending(c, t.at, "table") /\ \A i \in DOMAIN c.tables : c.tables[i].at # t.at
    <3>1. Pending(h, t.at, "table") /\ \A i \in 1 .. n - 1 : h.tables[i].at # t.at
      BY <1>2, <2>3 DEF Named, TablesNamed
    <3> QED
      BY ZenonT(60), <2>2, <2>3, <3>1 DEF Pending, Given, Unused
  <2>6. Named(Emitted_(c, t.at, "table", texts, t.under))
    BY <2>4, <2>5, NamedEmitted
  <2> QED
    BY <2>1, <2>4, <2>6
<1>13. Named(Flushed(h))
  BY <1>2, NamedFlushed
<1> QED
  BY <1>1, <1>2, <1>5, <1>6, <1>7, <1>8, <1>9, <1>10, <1>11, <1>12, <1>13

\* Text, wherever it goes.
LEMMA NamedData ==
  ASSUME NEW h, NEW text, Named(h)
  PROVE  Named(Data(h, text))
<1> DEFINE a == Anchored(h, text)
           coding == [h EXCEPT !.codeText = Append(@, text)]
           celling == WithTable(a, [Table(h) EXCEPT !.cell = Append(@, text)])
           listing == [a EXCEPT !.item = Append(@, text)]
           saying == [a EXCEPT !.text = Append(@, text)]
<1>1. Data(h, text) \in {h, a, coding, listing, saying} \/ (InTable(h) /\ Data(h, text) = celling)
  BY DEF Data
<1>2. Fields(h) /\ IsList(h.tables)
  BY DEF Named, TablesNamed
<1>3. /\ Fields(a) /\ a.regions = h.regions /\ a.ordinals = h.ordinals /\ a.stack = h.stack
      /\ a.kind = h.kind /\ a.at = h.at /\ a.list = h.list /\ a.listAt = h.listAt
      /\ a.code = h.code /\ a.codeAt = h.codeAt /\ a.tables = h.tables
  BY <1>2 DEF Anchored, Fields
<1> HIDE DEF a
<1>4. Named(a)
  BY <1>2, <1>3, NamedStays
<1>5. Named(coding)
  <2> DEFINE g == coding
  <2>1. /\ Fields(g) /\ g.regions = h.regions /\ g.ordinals = h.ordinals /\ g.stack = h.stack
        /\ g.kind = h.kind /\ g.at = h.at /\ g.list = h.list /\ g.listAt = h.listAt
        /\ g.code = h.code /\ g.codeAt = h.codeAt /\ g.tables = h.tables
    BY <1>2 DEF Fields
  <2> HIDE DEF g
  <2>2. Named(g)
    BY <1>2, <2>1, NamedStays
  <2> QED
    BY <2>2 DEF g
<1>6. Named(listing) /\ Named(saying)
  <2> DEFINE g == listing
             k == saying
  <2>1. /\ Fields(g) /\ g.regions = a.regions /\ g.ordinals = a.ordinals /\ g.stack = a.stack
        /\ g.kind = a.kind /\ g.at = a.at /\ g.list = a.list /\ g.listAt = a.listAt
        /\ g.code = a.code /\ g.codeAt = a.codeAt /\ g.tables = a.tables
    BY <1>3 DEF Fields
  <2>2. /\ Fields(k) /\ k.regions = a.regions /\ k.ordinals = a.ordinals /\ k.stack = a.stack
        /\ k.kind = a.kind /\ k.at = a.at /\ k.list = a.list /\ k.listAt = a.listAt
        /\ k.code = a.code /\ k.codeAt = a.codeAt /\ k.tables = a.tables
    BY <1>3 DEF Fields
  <2> HIDE DEF g, k
  <2>3. Named(g) /\ Named(k)
    BY <1>2, <1>3, <1>4, <2>1, <2>2, NamedStays
  <2> QED
    BY <2>3 DEF g, k
<1>7. InTable(h) => Named(celling)
  <2>1. [Table(h) EXCEPT !.cell = Append(@, text)].at = Table(a).at /\ (InTable(h) => InTable(a))
    BY <1>3 DEF Table, InTable
  <2> QED
    BY <1>4, <2>1, TableReplaced
<1> QED
  BY <1>1, <1>4, <1>5, <1>6, <1>7

\* The end of the file emits a region of a kind of its own.
LEMMA FinalDistinct ==
  ASSUME NEW h, Named(h)
  PROVE  LET regions == Finalized(h).regions
         IN  \A i, j \in DOMAIN regions : regions[i].at = regions[j].at /\ regions[i].kind = regions[j].kind => i = j
<1> DEFINE f == Flushed(h)
           texts == FlattenSeq(f.items)
           new == [at |-> f.listAt, kind |-> "list_final", texts |-> texts, under |-> f.crumb]
           g == Emitted_(f, f.listAt, "list_final", texts, f.crumb)
<1>1. Finalized(h) \in {f, g}
  BY DEF Finalized
<1>2. Named(f)
  BY NamedFlushed
<1> HIDE DEF f, texts
<1>3. g.regions = Append(f.regions, new)
  BY <1>2 DEF Named, Fields, Emitted_
<1>4. new.kind = "list_final"
  OBVIOUS
<1> HIDE DEF g, new
<1>5. /\ Len(f.regions) \in Nat /\ DOMAIN f.regions = 1 .. Len(f.regions)
      /\ DOMAIN g.regions = 1 .. Len(f.regions) + 1
      /\ g.regions[Len(f.regions) + 1] = new /\ \A i \in DOMAIN f.regions : g.regions[i] = f.regions[i]
  BY <1>2, <1>3, Appended DEF Named, RegionsNamed
<1>6. \A i \in DOMAIN f.regions : f.regions[i].kind # "list_final"
  BY <1>2 DEF Named, RegionsNamed
<1>7. \A i, j \in DOMAIN f.regions :
        f.regions[i].at = f.regions[j].at /\ f.regions[i].kind = f.regions[j].kind => i = j
  BY <1>2 DEF Named, RegionsNamed
<1>8. ASSUME NEW i \in DOMAIN g.regions, NEW j \in DOMAIN g.regions,
             g.regions[i].at = g.regions[j].at, g.regions[i].kind = g.regions[j].kind
      PROVE  i = j
  <2>1. \A k \in DOMAIN g.regions : k \in DOMAIN f.regions \/ k = Len(f.regions) + 1
    BY <1>5
  <2> QED
    BY ZenonT(60), <1>4, <1>5, <1>6, <1>7, <1>8, <2>1
<1> QED
  BY <1>1, <1>7, <1>8

PageShaped ==
  page \in [open : {page.open}, texts : {page.texts}, owed : {page.owed}, events : {page.events}, ended : {page.ended}]

HtmlInv == PageShaped /\ RegionsAreDistinct /\ (~page.ended => Named(html))

\* Every event keeps it.
LEMMA HtmlStep == HtmlInv /\ [HtmlNext]_htmlVars => HtmlInv'
<1> SUFFICES ASSUME HtmlInv, [HtmlNext]_htmlVars PROVE HtmlInv'
  OBVIOUS
<1>1. CASE UNCHANGED htmlVars
  BY <1>1 DEF htmlVars, HtmlInv, PageShaped, RegionsAreDistinct
<1>2. ASSUME Named(html'), PageShaped' PROVE HtmlInv'
  BY <1>2 DEF HtmlInv, Named, RegionsNamed, RegionsAreDistinct
<1>3. ASSUME NEW tag \in Tags, OpenElement(tag) PROVE HtmlInv'
  <2>1. PageShaped'
    BY <1>3 DEF OpenElement, HtmlInv, PageShaped
  <2>2. Named(html)
    BY <1>3 DEF OpenElement, Room, HtmlInv
  <2>3. html' = StartTag(html, tag)
    BY <1>3 DEF OpenElement
  <2> QED
    BY <1>2, <2>1, <2>2, <2>3, NamedStart
<1>4. ASSUME NEW tag \in Tags, VoidElement(tag) PROVE HtmlInv'
  <2>1. PageShaped'
    BY <1>4 DEF VoidElement, HtmlInv, PageShaped
  <2>2. Named(html)
    BY <1>4 DEF VoidElement, Room, HtmlInv
  <2>3. html' \in {StartTag(html, tag), EndTag(StartTag(html, tag), tag)}
    BY <1>4 DEF VoidElement
  <2> QED
    BY <1>2, <2>1, <2>2, <2>3, NamedStart, NamedEnd
<1>5. CASE CloseElement
  <2>1. PageShaped'
    BY <1>5 DEF CloseElement, HtmlInv, PageShaped
  <2>2. Named(html)
    BY <1>5 DEF CloseElement, HtmlInv
  <2>3. html' = EndTag(html, Last(page.open))
    BY <1>5 DEF CloseElement
  <2> QED
    BY <1>2, <2>1, <2>2, <2>3, NamedEnd
<1>6. CASE Text_
  <2>1. PageShaped'
    BY <1>6 DEF Text_, HtmlInv, PageShaped
  <2>2. Named(html)
    BY <1>6 DEF Text_, Room, HtmlInv
  <2>3. html' = Data(html, page.texts + 1)
    BY <1>6 DEF Text_
  <2> QED
    BY <1>2, <2>1, <2>2, <2>3, NamedData
<1>7. CASE EndOfFile
  <2>1. PageShaped' /\ page'.ended
    BY <1>7 DEF EndOfFile, HtmlInv, PageShaped
  <2>2. Named(html)
    BY <1>7 DEF EndOfFile, HtmlInv
  <2>3. html' = Finalized(html)
    BY <1>7 DEF EndOfFile
  <2>4. RegionsAreDistinct'
    BY <2>2, <2>3, FinalDistinct DEF RegionsAreDistinct
  <2> QED
    BY <2>1, <2>4 DEF HtmlInv
<1> QED
  BY <1>1, <1>3, <1>4, <1>5, <1>6, <1>7 DEF HtmlNext, Tags

\* No two regions of a page have kind and dom_path, of which region_id is a hash, in common:
\* for documents of any length and any nesting, well formed or with void elements that are closed.
THEOREM RegionIdsAreDistinct == HtmlSpec => []RegionsAreDistinct
<1>1. HtmlInit => HtmlInv
  <2> SUFFICES ASSUME HtmlInit PROVE HtmlInv
    OBVIOUS
  <2>1. PageShaped
    BY DEF HtmlInit, PageShaped
  <2>2. Fields(html)
    BY DEF HtmlInit, Fields
  <2>3. /\ html.regions = <<>> /\ html.stack = <<>> /\ html.tables = <<>> /\ html.kind = "none"
        /\ html.ordinals = [k \in {} |-> 0] /\ ~html.list /\ ~html.code
    BY DEF HtmlInit, NoTable
  <2>4. IsList(<<>>) /\ DOMAIN <<>> = {}
    BY DEF IsList
  <2>5. DOMAIN html.ordinals = {}
    BY <2>3
  <2>6. Named(html) /\ RegionsAreDistinct
    BY <2>2, <2>3, <2>4, <2>5 DEF Named, CountedPaths, RegionsNamed, TablesNamed, RegionsAreDistinct
  <2> QED
    BY <2>1, <2>6 DEF HtmlInv
<1>2. HtmlInv => RegionsAreDistinct
  BY DEF HtmlInv
<1> QED
  BY <1>1, <1>2, HtmlStep, PTL DEF HtmlSpec

-----------------------------------------------------------------------------
(* The texts of a page.  The parser holds a text in one place at most: in a *)
(* region, in its text, its item, its items or its code, or in an open      *)
(* table, in its cell, its cells or its rows.                               *)

Held(s) == {s[i] : i \in DOMAIN s}
HeldIn(ss) == UNION {Held(ss[i]) : i \in DOMAIN ss}
HeldInRows(rows) == UNION {HeldIn(rows[i]) : i \in DOMAIN rows}
HeldInTable(t) == Held(t.cell) \cup HeldIn(t.cells) \cup HeldInRows(t.rows)
HeldInTables(tables) == UNION {HeldInTable(tables[i]) : i \in DOMAIN tables}

Once(s) == IsList(s) /\ \A i, j \in DOMAIN s : s[i] = s[j] => i = j

\* Lists that have nothing in common.
Apart(ss) ==
  /\ IsList(ss) /\ \A i \in DOMAIN ss : Once(ss[i])
  /\ \A i, j \in DOMAIN ss : i # j => Held(ss[i]) \cap Held(ss[j]) = {}

RowsApart(rows) ==
  /\ IsList(rows) /\ \A i \in DOMAIN rows : Apart(rows[i])
  /\ \A i, j \in DOMAIN rows : i # j => HeldIn(rows[i]) \cap HeldIn(rows[j]) = {}

TableApart(t) ==
  /\ t \in [at : {t.at}, rows : {t.rows}, row : {t.row}, cells : {t.cells}, cell : {t.cell}, under : {t.under}]
  /\ Once(t.cell) /\ Apart(t.cells) /\ RowsApart(t.rows)
  /\ Held(t.cell) \cap HeldIn(t.cells) = {}
  /\ HeldInRows(t.rows) \cap (Held(t.cell) \cup HeldIn(t.cells)) = {}

TablesApart(tables) ==
  /\ IsList(tables) /\ \A i \in DOMAIN tables : TableApart(tables[i])
  /\ \A i, j \in DOMAIN tables : i # j => HeldInTable(tables[i]) \cap HeldInTable(tables[j]) = {}

RegionTexts(h) == [r \in DOMAIN h.regions |-> h.regions[r].texts]

\* What the parser holds outside of the regions, and that it is held once.
HeldOpen(h) ==
  Held(h.text) \cup Held(h.item) \cup HeldIn(h.items) \cup Held(h.codeText) \cup HeldInTables(h.tables)

OpenApart(h) ==
  /\ Once(h.text) /\ Once(h.item) /\ Apart(h.items) /\ Once(h.codeText) /\ TablesApart(h.tables)
  /\ Held(h.text) \cap Held(h.item) = {}
  /\ HeldIn(h.items) \cap (Held(h.text) \cup Held(h.item)) = {}
  /\ Held(h.codeText) \cap (Held(h.text) \cup Held(h.item) \cup HeldIn(h.items)) = {}
  /\ HeldInTables(h.tables) \cap (Held(h.text) \cup Held(h.item) \cup HeldIn(h.items) \cup Held(h.codeText)) = {}

\* The texts up to a number are held once.
Single(h, n) ==
  /\ Fields(h) /\ IsList(h.regions) /\ Apart(RegionTexts(h)) /\ OpenApart(h)
  /\ HeldIn(RegionTexts(h)) \cap HeldOpen(h) = {}
  /\ HeldIn(RegionTexts(h)) \cup HeldOpen(h) \subseteq 1 .. n

\* A list of no elements, and one that grows.
LEMMA NothingHeld ==
  /\ IsList(<<>>) /\ DOMAIN <<>> = {} /\ Once(<<>>) /\ Apart(<<>>) /\ RowsApart(<<>>) /\ TablesApart(<<>>)
  /\ Held(<<>>) = {} /\ HeldIn(<<>>) = {} /\ HeldInRows(<<>>) = {} /\ HeldInTables(<<>>) = {}
<1>1. IsList(<<>>) /\ DOMAIN <<>> = {}
  BY DEF IsList
<1> QED
  BY <1>1 DEF Once, Apart, RowsApart, TablesApart, Held, HeldIn, HeldInRows, HeldInTables

LEMMA OnceMore ==
  ASSUME NEW s, NEW e, Once(s), e \notin Held(s)
  PROVE  Once(Append(s, e)) /\ Held(Append(s, e)) = Held(s) \cup {e}
<1> DEFINE t == Append(s, e)
           n == Len(s)
<1>1. /\ IsList(t) /\ n \in Nat /\ DOMAIN s = 1 .. n /\ DOMAIN t = 1 .. n + 1
      /\ t[n + 1] = e /\ \A i \in 1 .. n : t[i] = s[i]
  BY Appended DEF Once
<1> HIDE DEF t, n
<1>2. \A i \in DOMAIN t : i \in 1 .. n \/ i = n + 1
  BY <1>1
<1>3. \A i \in 1 .. n : s[i] # e
  BY <1>1 DEF Held
<1>4. Once(t)
  BY <1>1, <1>2, <1>3 DEF Once
<1>5. Held(t) = Held(s) \cup {e}
  <2>1. n + 1 \in DOMAIN t /\ \A i \in 1 .. n : i \in DOMAIN t
    BY <1>1
  <2> QED
    BY <1>1, <1>2, <2>1 DEF Held
<1> QED
  BY <1>4, <1>5 DEF t

LEMMA ApartMore ==
  ASSUME NEW ss, NEW e, Apart(ss), Once(e), Held(e) \cap HeldIn(ss) = {}
  PROVE  Apart(Append(ss, e)) /\ HeldIn(Append(ss, e)) = HeldIn(ss) \cup Held(e)
<1> DEFINE t == Append(ss, e)
           n == Len(ss)
<1>1. /\ IsList(t) /\ n \in Nat /\ DOMAIN ss = 1 .. n /\ DOMAIN t = 1 .. n + 1
      /\ t[n + 1] = e /\ \A i \in 1 .. n : t[i] = ss[i]
  BY Appended DEF Apart
<1> HIDE DEF t, n
<1>2. (\A i \in DOMAIN t : i \in 1 .. n \/ i = n + 1) /\ n + 1 \in DOMAIN t /\ \A i \in 1 .. n : i \in DOMAIN t
  BY <1>1
<1>3. \A i \in 1 .. n : Held(ss[i]) \cap Held(e) = {}
  BY <1>1 DEF HeldIn
<1>4. Apart(t)
  BY <1>1, <1>2, <1>3 DEF Apart
<1>5. HeldIn(t) = HeldIn(ss) \cup Held(e)
  BY <1>1, <1>2 DEF HeldIn
<1> QED
  BY <1>4, <1>5 DEF t

LEMMA RowsApartMore ==
  ASSUME NEW rows, NEW e, RowsApart(rows), Apart(e), HeldIn(e) \cap HeldInRows(rows) = {}
  PROVE  RowsApart(Append(rows, e)) /\ HeldInRows(Append(rows, e)) = HeldInRows(rows) \cup HeldIn(e)
<1> DEFINE t == Append(rows, e)
           n == Len(rows)
<1>1. /\ IsList(t) /\ n \in Nat /\ DOMAIN rows = 1 .. n /\ DOMAIN t = 1 .. n + 1
      /\ t[n + 1] = e /\ \A i \in 1 .. n : t[i] = rows[i]
  BY Appended DEF RowsApart
<1> HIDE DEF t, n
<1>2. (\A i \in DOMAIN t : i \in 1 .. n \/ i = n + 1) /\ n + 1 \in DOMAIN t /\ \A i \in 1 .. n : i \in DOMAIN t
  BY <1>1
<1>3. \A i \in 1 .. n : HeldIn(rows[i]) \cap HeldIn(e) = {}
  BY <1>1 DEF HeldInRows
<1>4. RowsApart(t)
  BY <1>1, <1>2, <1>3 DEF RowsApart
<1>5. HeldInRows(t) = HeldInRows(rows) \cup HeldIn(e)
  BY <1>1, <1>2 DEF HeldInRows
<1> QED
  BY <1>4, <1>5 DEF t

LEMMA TablesApartMore ==
  ASSUME NEW tables, NEW e, TablesApart(tables), TableApart(e), HeldInTable(e) \cap HeldInTables(tables) = {}
  PROVE  TablesApart(Append(tables, e)) /\ HeldInTables(Append(tables, e)) = HeldInTables(tables) \cup HeldInTable(e)
<1> DEFINE t == Append(tables, e)
           n == Len(tables)
<1>1. /\ IsList(t) /\ n \in Nat /\ DOMAIN tables = 1 .. n /\ DOMAIN t = 1 .. n + 1
      /\ t[n + 1] = e /\ \A i \in 1 .. n : t[i] = tables[i]
  BY Appended DEF TablesApart
<1> HIDE DEF t, n
<1>2. (\A i \in DOMAIN t : i \in 1 .. n \/ i = n + 1) /\ n + 1 \in DOMAIN t /\ \A i \in 1 .. n : i \in DOMAIN t
  BY <1>1
<1>3. \A i \in 1 .. n : HeldInTable(tables[i]) \cap HeldInTable(e) = {}
  BY <1>1 DEF HeldInTables
<1>4. TablesApart(t)
  BY <1>1, <1>2, <1>3 DEF TablesApart
<1>5. HeldInTables(t) = HeldInTables(tables) \cup HeldInTable(e)
  BY <1>1, <1>2 DEF HeldInTables
<1> QED
  BY <1>4, <1>5 DEF t

\* The innermost table leaves the others.
LEMMA TablesApartLess ==
  ASSUME NEW tables, TablesApart(tables), tables # <<>>
  PROVE  /\ TablesApart(Front(tables)) /\ TableApart(Last(tables))
         /\ HeldInTable(Last(tables)) \cap HeldInTables(Front(tables)) = {}
         /\ HeldInTables(tables) = HeldInTables(Front(tables)) \cup HeldInTable(Last(tables))
<1> DEFINE n == Len(tables)
           t == Front(tables)
<1>1. /\ n \in Nat \ {0} /\ DOMAIN tables = 1 .. n /\ IsList(t) /\ DOMAIN t = 1 .. n - 1
      /\ \A i \in 1 .. n - 1 : t[i] = tables[i]
      /\ Last(tables) = tables[n]
  BY Shortened DEF TablesApart
<1> HIDE DEF n, t
<1>2. /\ n \in DOMAIN tables /\ \A i \in DOMAIN t : i \in DOMAIN tables /\ i # n
      /\ \A i \in DOMAIN tables : i \in DOMAIN t \/ i = n
  BY <1>1
<1>3. TablesApart(t) /\ TableApart(Last(tables))
  BY <1>1, <1>2 DEF TablesApart
<1>4. HeldInTable(Last(tables)) \cap HeldInTables(t) = {}
  BY <1>1, <1>2 DEF TablesApart, HeldInTables
<1>5. HeldInTables(tables) = HeldInTables(t) \cup HeldInTable(Last(tables))
  BY <1>1, <1>2 DEF HeldInTables
<1> QED
  BY <1>3, <1>4, <1>5 DEF t

\* Two lists that have nothing in common, one after the other.
LEMMA OnceJoined ==
  ASSUME NEW s, NEW t, Once(s), Once(t), Held(s) \cap Held(t) = {}
  PROVE  Once(s \o t) /\ Held(s \o t) = Held(s) \cup Held(t)
<1> DEFINE S == Held(s) \cup Held(t)
           u == s \o t
           m == Len(s)
           n == Len(t)
<1>1. s \in Seq(S) /\ t \in Seq(S)
  BY DEF Once, IsList, Held
<1>2. /\ m \in Nat /\ n \in Nat /\ DOMAIN s = 1 .. m /\ DOMAIN t = 1 .. n
      /\ u \in Seq(S) /\ Len(u) = m + n /\ DOMAIN u = 1 .. m + n
      /\ \A i \in 1 .. m + n : u[i] = IF i <= m THEN s[i] ELSE t[i - m]
  BY <1>1, ConcatProperties, LenProperties
<1> HIDE DEF u, m, n
<1>3. \A i \in 1 .. m : i \in DOMAIN u /\ u[i] = s[i]
  BY <1>2
<1>4. \A i \in 1 .. n : m + i \in DOMAIN u /\ u[m + i] = t[i]
  BY <1>2
<1>5. ASSUME NEW i \in DOMAIN u PROVE (i \in 1 .. m /\ u[i] = s[i]) \/ (i - m \in 1 .. n /\ u[i] = t[i - m])
  BY <1>2
<1>6. \A i \in 1 .. m : \A j \in 1 .. n : s[i] # t[j]
  BY <1>2 DEF Held
<1>7. IsList(u)
  <2>1. u \in Seq(S) /\ Len(u) \in Nat /\ DOMAIN u = 1 .. Len(u)
    BY <1>2
  <2>2. u \in Seq({u[i] : i \in DOMAIN u})
    BY <2>1
  <2> QED
    BY <2>2 DEF IsList
<1>8. ASSUME NEW i \in DOMAIN u, NEW j \in DOMAIN u, u[i] = u[j] PROVE i = j
  <2>1. i \in Int /\ j \in Int
    BY <1>2
  <2>2. CASE i \in 1 .. m /\ u[i] = s[i]
    <3>1. j \in 1 .. m /\ u[j] = s[j]
      BY <1>5, <1>6, <1>8, <2>2
    <3> QED
      BY <1>2, <1>8, <2>2, <3>1 DEF Once
  <2>3. CASE i - m \in 1 .. n /\ u[i] = t[i - m]
    <3>1. j - m \in 1 .. n /\ u[j] = t[j - m]
      BY <1>5, <1>6, <1>8, <2>3
    <3>2. i - m = j - m
      BY <1>2, <1>8, <2>3, <3>1 DEF Once
    <3> QED
      BY <1>2, <2>1, <3>2
  <2> QED
    BY <1>5, <2>2, <2>3
<1>9. Held(u) = S
  <2>1. ASSUME NEW i \in DOMAIN u PROVE u[i] \in S
    BY <1>2, <1>5 DEF Held
  <2>2. \A i \in DOMAIN s : s[i] \in Held(u)
    BY <1>2, <1>3 DEF Held
  <2>3. \A i \in DOMAIN t : t[i] \in Held(u)
    BY <1>2, <1>4 DEF Held
  <2> QED
    BY <2>1, <2>2, <2>3 DEF Held
<1> QED
  BY <1>7, <1>8, <1>9 DEF Once, u

\* Lists that have nothing in common are flattened to one that holds each element once.
LEMMA FlattenedOnce ==
  ASSUME NEW ss, Apart(ss)
  PROVE  Once(FlattenSeq(ss)) /\ Held(FlattenSeq(ss)) = HeldIn(ss)
<1> DEFINE n == Len(ss)
<1>1. n \in Nat /\ DOMAIN ss = 1 .. n
  <2>1. ss \in Seq({ss[i] : i \in DOMAIN ss})
    BY DEF Apart, IsList
  <2> QED
    BY <2>1, LenProperties
<1>2. CASE n = 0
  <2>1. FlattenSeq(ss) = ss
    BY <1>2 DEF FlattenSeq
  <2>2. DOMAIN ss = {}
    BY <1>1, <1>2
  <2> QED
    BY <2>1, <2>2 DEF Apart, Once, Held, HeldIn
<1>3. CASE n # 0
  <2>1. PICK f : /\ FlattenSeq(ss) = f[n]
                 /\ \A i \in 1 .. n : f[i] = IF i = 1 THEN ss[i] ELSE f[i - 1] \o ss[i]
    BY <1>3, Unfolded DEF Apart
  <2> DEFINE Before(i) == UNION {Held(ss[j]) : j \in 1 .. i}
             T == {m \in 1 .. n : Once(f[m]) /\ Held(f[m]) = Before(m)}
  <2>2. ASSUME NEW m \in 1 .. n, m = 1 \/ m - 1 \in T PROVE m \in T
    <3>1. Once(ss[m])
      BY <1>1 DEF Apart
    <3>2. CASE m = 1
      <4>1. f[m] = ss[m] /\ 1 .. m = {m}
        BY <2>1, <3>2
      <4> QED
        BY <3>1, <4>1
    <3>3. CASE m # 1
      <4>0. f[m] = f[m - 1] \o ss[m]
        BY <2>1, <3>3
      <4>1. m - 1 \in 1 .. n /\ 1 .. m = (1 .. m - 1) \cup {m} /\ 1 .. m - 1 \subseteq 1 .. n
        BY <1>1, <3>3
      <4>2. Once(f[m - 1]) /\ Held(f[m - 1]) = Before(m - 1)
        BY <2>2, <3>3
      <4>3. Before(m - 1) \cap Held(ss[m]) = {}
        <5>1. \A j \in 1 .. m - 1 : j \in DOMAIN ss /\ j # m
          BY <1>1, <4>1
        <5> QED
          BY <1>1, <5>1 DEF Apart
      <4>4. Before(m) = Before(m - 1) \cup Held(ss[m])
        BY <4>1
      <4> HIDE DEF Before
      <4>5. Once(f[m]) /\ Held(f[m]) = Before(m)
        BY <3>1, <4>0, <4>2, <4>3, <4>4, OnceJoined
      <4> QED
        BY <4>5
    <3> QED
      BY <3>2, <3>3
  <2> HIDE DEF T
  <2>3. 1 .. n \subseteq T
    BY <1>1, <2>2, Climbs
  <2>4. n \in T
    BY <1>1, <1>3, <2>3
  <2>5. Before(n) = HeldIn(ss)
    BY <1>1 DEF HeldIn
  <2> QED
    BY <2>1, <2>4, <2>5 DEF T
<1> QED
  BY <1>2, <1>3

\* What the parser holds is the same or less of it.
LEMMA SingleStays ==
  ASSUME NEW h, NEW g, NEW n, Single(h, n), Fields(g), g.regions = h.regions,
         Once(g.text), Held(g.text) \subseteq Held(h.text),
         Once(g.item), Held(g.item) \subseteq Held(h.item),
         Apart(g.items), HeldIn(g.items) \subseteq HeldIn(h.items),
         Once(g.codeText), Held(g.codeText) \subseteq Held(h.codeText),
         TablesApart(g.tables), HeldInTables(g.tables) \subseteq HeldInTables(h.tables)
  PROVE  Single(g, n)
<1>1. RegionTexts(g) = RegionTexts(h)
  BY DEF RegionTexts
<1>2. HeldOpen(g) \subseteq HeldOpen(h)
  BY DEF HeldOpen
<1>3. OpenApart(g)
  BY DEF Single, OpenApart
<1> QED
  BY <1>1, <1>2, <1>3 DEF Single

\* Texts that the parser holds nowhere else become those of a region.
LEMMA SingleEmitted ==
  ASSUME NEW h, NEW n, NEW at, NEW kind, NEW texts, NEW under, Single(h, n),
         Once(texts), Held(texts) \subseteq 1 .. n,
         Held(texts) \cap (HeldIn(RegionTexts(h)) \cup HeldOpen(h)) = {}
  PROVE  Single(Emitted_(h, at, kind, texts, under), n)
<1> DEFINE new == [at |-> at, kind |-> kind, texts |-> texts, under |-> under]
           g == Emitted_(h, at, kind, texts, under)
           before == RegionTexts(h)
           after == RegionTexts(g)
           k == Len(h.regions)
<1>1. /\ Fields(g) /\ g.regions = Append(h.regions, new)
      /\ g.text = h.text /\ g.item = h.item /\ g.items = h.items /\ g.codeText = h.codeText /\ g.tables = h.tables
  BY DEF Single, Fields, Emitted_
<1>2. /\ IsList(g.regions) /\ k \in Nat /\ DOMAIN h.regions = 1 .. k /\ DOMAIN g.regions = 1 .. k + 1
      /\ g.regions[k + 1] = new /\ \A i \in 1 .. k : g.regions[i] = h.regions[i]
  BY <1>1, Appended DEF Single
<1>3. new.texts = texts
  OBVIOUS
<1> HIDE DEF g, new, k
<1>4. /\ DOMAIN before = 1 .. k /\ DOMAIN after = 1 .. k + 1 /\ after[k + 1] = texts
      /\ \A i \in 1 .. k : after[i] = before[i]
  BY <1>2, <1>3 DEF RegionTexts
<1>5. Apart(before) /\ HeldIn(before) \cap HeldOpen(h) = {}
  BY DEF Single
<1>6. after = [i \in 1 .. k + 1 |-> after[i]]
  BY <1>2 DEF RegionTexts
<1> HIDE DEF before, after
<1>7. Apart(Append(before, texts)) /\ HeldIn(Append(before, texts)) = HeldIn(before) \cup Held(texts)
  BY <1>5, ApartMore DEF before
<1>8. after = Append(before, texts)
  <2> DEFINE t == Append(before, texts)
  <2>1. /\ IsList(t) /\ DOMAIN before = 1 .. Len(before) /\ DOMAIN t = 1 .. Len(before) + 1
        /\ Len(before) \in Nat /\ t[Len(before) + 1] = texts /\ \A i \in DOMAIN before : t[i] = before[i]
    BY <1>5, Appended DEF Apart
  <2> HIDE DEF t
  <2>2. Len(before) = k
    BY <1>2, <1>4, <2>1
  <2>3. t \in Seq({t[i] : i \in DOMAIN t})
    BY <2>1 DEF IsList
  <2>4. t = [i \in 1 .. k + 1 |-> t[i]]
    BY <2>1, <2>2, <2>3, LenProperties
  <2>5. \A i \in 1 .. k + 1 : t[i] = after[i]
    BY <1>2, <1>4, <2>1, <2>2
  <2> QED
    BY <1>6, <2>4, <2>5 DEF t
<1>9. HeldOpen(g) = HeldOpen(h) /\ OpenApart(g)
  BY <1>1 DEF Single, HeldOpen, OpenApart
<1> QED
  BY <1>1, <1>2, <1>5, <1>7, <1>8, <1>9 DEF Single, g, before, after

\* The parts of Single that a step relies on.
LEMMA SingleParts ==
  ASSUME NEW h, NEW n, Single(h, n)
  PROVE  /\ Fields(h) /\ IsList(h.regions) /\ Apart(RegionTexts(h))
         /\ Once(h.text) /\ Once(h.item) /\ Apart(h.items) /\ Once(h.codeText) /\ TablesApart(h.tables)
BY DEF Single, OpenApart

\* The parser has dropped its text, or a region has it.
LEMMA SingleFlushed ==
  ASSUME NEW h, NEW n, Single(h, n)
  PROVE  /\ Single(Flushed(h), n) /\ Flushed(h).text = <<>>
         /\ Flushed(h).item = h.item /\ Flushed(h).items = h.items /\ Flushed(h).codeText = h.codeText
         /\ Flushed(h).tables = h.tables
<1> DEFINE c == [h EXCEPT !.text = <<>>, !.kind = "none"]
           g == Emitted_(c, h.at, h.kind, h.text, h.under)
<1>1. Flushed(h) \in {c, g}
  BY DEF Flushed
<1>2. /\ Fields(c) /\ c.regions = h.regions /\ c.text = <<>> /\ c.item = h.item /\ c.items = h.items
      /\ c.codeText = h.codeText /\ c.tables = h.tables
  BY DEF Single, Fields
<1>3. g.text = <<>> /\ g.item = h.item /\ g.items = h.items /\ g.codeText = h.codeText /\ g.tables = h.tables
  BY <1>2 DEF Emitted_, Fields
<1> HIDE DEF c
<1>4. Single(c, n)
  BY <1>2, SingleStays, SingleParts, NothingHeld
<1>5. Single(g, n)
  <2>1. RegionTexts(c) = RegionTexts(h)
    BY <1>2 DEF RegionTexts
  <2>2. Held(h.text) \subseteq 1 .. n /\ Held(h.text) \cap (HeldIn(RegionTexts(c)) \cup HeldOpen(c)) = {}
    BY <1>2, <2>1, NothingHeld DEF Single, OpenApart, HeldOpen
  <2> QED
    BY <1>4, <2>2, SingleEmitted, SingleParts
<1> QED
  BY <1>1, <1>2, <1>3, <1>4, <1>5

\* An item moves to the items.
LEMMA SingleItem ==
  ASSUME NEW h, NEW n, Single(h, n)
  PROVE  Single(ListItem(h), n)
<1> DEFINE g == ListItem(h)
<1>1. /\ Fields(g) /\ g.regions = h.regions /\ g.text = h.text /\ g.item = <<>>
      /\ g.items = (IF h.item = <<>> THEN h.items ELSE Append(h.items, h.item))
      /\ g.codeText = h.codeText /\ g.tables = h.tables
  BY DEF Single, Fields, ListItem
<1> HIDE DEF g
<1>2. Apart(g.items) /\ HeldIn(g.items) \subseteq HeldIn(h.items) \cup Held(h.item)
  <2>1. Once(h.item) /\ Apart(h.items) /\ Held(h.item) \cap HeldIn(h.items) = {}
    BY DEF Single, OpenApart
  <2> QED
    BY <1>1, <2>1, ApartMore
<1>3. RegionTexts(g) = RegionTexts(h)
  BY <1>1 DEF RegionTexts
<1>4. HeldOpen(g) \subseteq HeldOpen(h)
  BY <1>1, <1>2, NothingHeld DEF HeldOpen
<1>5. OpenApart(g)
  BY <1>1, <1>2, NothingHeld DEF Single, OpenApart
<1>6. Single(g, n)
  BY <1>1, <1>3, <1>4, <1>5 DEF Single
<1> QED
  BY <1>6 DEF g

\* The innermost table moves texts within itself, drops some or takes new ones.
LEMMA SingleTable ==
  ASSUME NEW h, NEW t, NEW n \in Nat, NEW m \in Nat, n <= m, Single(h, n), InTable(h), TableApart(t),
         HeldInTable(t) \subseteq HeldInTable(Table(h)) \cup (n + 1 .. m)
  PROVE  Single(WithTable(h, t), m)
<1> DEFINE g == WithTable(h, t)
           rest == Front(h.tables)
<1>1. TablesApart(h.tables) /\ h.tables # <<>>
  BY DEF Single, OpenApart, InTable, NoTable
<1>2. /\ TablesApart(rest) /\ HeldInTable(Table(h)) \cap HeldInTables(rest) = {}
      /\ HeldInTables(h.tables) = HeldInTables(rest) \cup HeldInTable(Table(h))
  BY <1>1, TablesApartLess DEF Table
<1>3. /\ Fields(g) /\ g.regions = h.regions /\ g.text = h.text /\ g.item = h.item /\ g.items = h.items
      /\ g.codeText = h.codeText /\ g.tables = Append(rest, t)
  BY DEF Single, Fields, WithTable
<1> HIDE DEF g, rest
<1>4. HeldIn(RegionTexts(h)) \cup HeldOpen(h) \subseteq 1 .. n
  BY DEF Single
<1>5. (n + 1 .. m) \cap (HeldIn(RegionTexts(h)) \cup HeldOpen(h)) = {}
  <2>1. (n + 1 .. m) \cap (1 .. n) = {}
    OBVIOUS
  <2> QED
    BY <1>4, <2>1
<1>6. HeldInTables(rest) \subseteq HeldOpen(h)
  BY <1>2 DEF HeldOpen
<1>7. HeldInTable(t) \cap HeldInTables(rest) = {}
  BY <1>2, <1>5, <1>6
<1>8. TablesApart(g.tables) /\ HeldInTables(g.tables) = HeldInTables(rest) \cup HeldInTable(t)
  BY <1>2, <1>3, <1>7, TablesApartMore
<1>9. HeldInTables(g.tables) \subseteq HeldInTables(h.tables) \cup (n + 1 .. m)
  BY <1>2, <1>8
<1>10. RegionTexts(g) = RegionTexts(h)
  BY <1>3 DEF RegionTexts
<1>11. HeldOpen(g) \subseteq HeldOpen(h) \cup (n + 1 .. m)
  BY <1>3, <1>9 DEF HeldOpen
<1>12. OpenApart(g)
  BY <1>3, <1>5, <1>8, <1>9 DEF Single, OpenApart, HeldOpen
<1>13. HeldIn(RegionTexts(g)) \cup HeldOpen(g) \subseteq 1 .. m
  <2>1. 1 .. n \subseteq 1 .. m /\ n + 1 .. m \subseteq 1 .. m
    OBVIOUS
  <2> QED
    BY <1>4, <1>10, <1>11, <2>1
<1>14. Single(g, m)
  BY <1>3, <1>5, <1>10, <1>11, <1>12, <1>13 DEF Single
<1> QED
  BY <1>14 DEF g

\* Cells move to the rows.
LEMMA RowMoves ==
  ASSUME NEW t, TableApart(t)
  PROVE  /\ RowsApart(Append(t.rows, t.cells))
         /\ HeldInRows(Append(t.rows, t.cells)) = HeldInRows(t.rows) \cup HeldIn(t.cells)
BY RowsApartMore DEF TableApart

\* The first cells of a row.
LEMMA CutApart ==
  ASSUME NEW ss, NEW k, Apart(ss), k \in 0 .. Len(ss)
  PROVE  Apart(SubSeq(ss, 1, k)) /\ HeldIn(SubSeq(ss, 1, k)) \subseteq HeldIn(ss)
<1> DEFINE S == {ss[i] : i \in DOMAIN ss}
           t == SubSeq(ss, 1, k)
<1>1. ss \in Seq(S) /\ Len(ss) \in Nat /\ DOMAIN ss = 1 .. Len(ss)
  <2>1. ss \in Seq(S)
    BY DEF Apart, IsList
  <2> QED
    BY <2>1, LenProperties
<1>2. k \in Nat /\ \A i \in 1 .. k : i \in DOMAIN ss /\ ss[i] \in S
  BY <1>1
<1> HIDE DEF S
<1>3. t \in Seq(S) /\ Len(t) = k /\ \A i \in 1 .. k : t[i] = ss[i]
  <2>1. 1 \in Int /\ k \in Int /\ \A i \in 1 .. k : ss[i] \in S
    BY <1>2
  <2>2. /\ t \in Seq(S) /\ Len(t) = IF 1 <= k THEN k - 1 + 1 ELSE 0
        /\ \A i \in 1 .. k - 1 + 1 : t[i] = ss[1 + i - 1]
    BY <2>1, SubSeqProperties
  <2> HIDE DEF t
  <2>3. k - 1 + 1 = k /\ \A i \in 1 .. k : 1 + i - 1 = i
    BY <1>2
  <2> QED
    BY <1>2, <2>2, <2>3
<1> HIDE DEF t
<1>4. DOMAIN t = 1 .. k
  BY <1>3
<1>5. IsList(t)
  <2>1. t \in Seq({t[i] : i \in DOMAIN t})
    BY <1>2, <1>3, <1>4
  <2> QED
    BY <2>1 DEF IsList
<1>6. Apart(t)
  BY <1>2, <1>3, <1>4, <1>5 DEF Apart
<1>7. HeldIn(t) \subseteq HeldIn(ss)
  BY <1>2, <1>3, <1>4 DEF HeldIn
<1> QED
  BY <1>6, <1>7 DEF t

\* A table is written out without what its first row has no column for, and nothing twice.
LEMMA MarkdownOnce ==
  ASSUME NEW rows, RowsApart(rows)
  PROVE  Once(Markdown(rows)) /\ Held(Markdown(rows)) \subseteq HeldInRows(rows)
<1>1. CASE rows = <<>>
  BY <1>1, NothingHeld DEF Markdown
<1>2. CASE rows # <<>>
  <2> DEFINE width == Len(rows[1])
             Width(r) == IF Len(rows[r]) < width THEN Len(rows[r]) ELSE width
             Shown(r) == SubSeq(rows[r], 1, Width(r))
             lines == [r \in DOMAIN rows |-> FlattenSeq(Shown(r))]
  <2>1. Markdown(rows) = FlattenSeq(lines)
    BY <1>2 DEF Markdown
  <2>2. rows \in Seq({rows[i] : i \in DOMAIN rows})
    BY DEF RowsApart, IsList
  <2>3. Len(rows) \in Nat \ {0} /\ DOMAIN rows = 1 .. Len(rows)
    BY <1>2, <2>2, EmptySeq, LenProperties
  <2>4. \A r \in DOMAIN rows : Apart(rows[r]) /\ Len(rows[r]) \in Nat
    BY Appended DEF RowsApart, Apart
  <2>5. \A r \in DOMAIN rows : Width(r) \in 0 .. Len(rows[r])
    <3>1. 1 \in DOMAIN rows
      BY <2>3
    <3> QED
      BY <2>4, <3>1
  <2> HIDE DEF Width
  <2>6. \A r \in DOMAIN rows : Apart(Shown(r)) /\ HeldIn(Shown(r)) \subseteq HeldIn(rows[r])
    BY <2>4, <2>5, CutApart
  <2> HIDE DEF Shown
  <2>7. \A r \in DOMAIN rows : Once(lines[r]) /\ Held(lines[r]) \subseteq HeldIn(rows[r])
    BY <2>6, FlattenedOnce
  <2>8. DOMAIN lines = DOMAIN rows
    OBVIOUS
  <2>9. IsList(lines)
    <3>1. lines \in Seq({lines[i] : i \in DOMAIN lines})
      BY <2>3
    <3> HIDE DEF lines
    <3> QED
      BY <3>1 DEF IsList
  <2> HIDE DEF lines
  <2>10. Apart(lines)
    BY <2>7, <2>8, <2>9 DEF Apart, RowsApart
  <2>11. HeldIn(lines) \subseteq HeldInRows(rows)
    BY <2>7, <2>8 DEF HeldIn, HeldInRows
  <2> QED
    BY <2>1, <2>10, <2>11, FlattenedOnce
<1> QED
  BY <1>1, <1>2

\* What the events make of the innermost table.
LEMMA TableMoves ==
  ASSUME NEW t, TableApart(t)
  PROVE  /\ TableApart([RowDone(t) EXCEPT !.row = TRUE, !.cells = <<>>])
         /\ HeldInTable([RowDone(t) EXCEPT !.row = TRUE, !.cells = <<>>]) \subseteq HeldInTable(t)
         /\ TableApart(RowEnded(t)) /\ HeldInTable(RowEnded(t)) \subseteq HeldInTable(t)
         /\ TableApart([t EXCEPT !.cells = Append(@, t.cell), !.cell = <<>>])
         /\ HeldInTable([t EXCEPT !.cells = Append(@, t.cell), !.cell = <<>>]) \subseteq HeldInTable(t)
         /\ RowsApart(RowDone(t).rows) /\ HeldInRows(RowDone(t).rows) \subseteq HeldInTable(t)
<1> DEFINE a == [RowDone(t) EXCEPT !.row = TRUE, !.cells = <<>>]
           b == RowEnded(t)
           c == [t EXCEPT !.cells = Append(@, t.cell), !.cell = <<>>]
           Shape(r) == r \in [at : {r.at}, rows : {r.rows}, row : {r.row}, cells : {r.cells}, cell : {r.cell}, under : {r.under}]
<1>1. Shape(t)
  BY DEF TableApart
<1>2. /\ Shape(RowDone(t)) /\ RowDone(t).cell = t.cell
      /\ RowDone(t).rows = t.rows \/ RowDone(t).rows = Append(t.rows, t.cells)
  BY <1>1 DEF RowDone
<1>3. Shape(a) /\ a.cell = t.cell /\ a.cells = <<>> /\ a.rows = RowDone(t).rows
  BY <1>2
<1>4. Shape(b) /\ b.cell = t.cell /\ b.cells = <<>> /\ b.rows = Append(t.rows, t.cells)
  BY <1>1 DEF RowEnded
<1>5. Shape(c) /\ c.cell = <<>> /\ c.cells = Append(t.cells, t.cell) /\ c.rows = t.rows
  BY <1>1
<1> HIDE DEF a, b, c
<1>6. /\ RowsApart(RowDone(t).rows) /\ HeldInRows(RowDone(t).rows) \subseteq HeldInRows(t.rows) \cup HeldIn(t.cells)
  BY ZenonT(60), <1>2, RowMoves DEF TableApart
<1>7. TableApart(a) /\ HeldInTable(a) \subseteq HeldInTable(t)
  BY <1>3, <1>6, NothingHeld DEF TableApart, HeldInTable
<1>8. TableApart(b) /\ HeldInTable(b) \subseteq HeldInTable(t)
  BY ZenonT(60), <1>4, RowMoves, NothingHeld DEF TableApart, HeldInTable
<1>9. Apart(c.cells) /\ HeldIn(c.cells) = HeldIn(t.cells) \cup Held(t.cell)
  BY <1>5, ApartMore DEF TableApart
<1>10. TableApart(c) /\ HeldInTable(c) \subseteq HeldInTable(t)
  BY <1>5, <1>9, NothingHeld DEF TableApart, HeldInTable
<1> QED
  BY <1>6, <1>7, <1>8, <1>10 DEF a, b, c, HeldInTable

\* A start tag moves texts to a region, to the items or to the rows, or drops them.
LEMMA SingleStart ==
  ASSUME NEW before, NEW tag, NEW n \in Nat, Single(before, n)
  PROVE  Single(StartTag(before, tag), n)
<1> DEFINE h == Pushed(before, tag)
           path == Last(h.stack).path
           f == Flushed(h)
           skipping == [h EXCEPT !.skip = IF @ = 0 THEN Len(h.stack) ELSE @]
           coding == [f EXCEPT !.code = TRUE, !.codeAt = path, !.codeText = <<>>]
           listing == [f EXCEPT !.list = TRUE, !.listAt = path, !.items = <<>>]
           new == [at |-> path, rows |-> <<>>, row |-> FALSE, cells |-> <<>>, cell |-> <<>>, under |-> h.crumb]
           tabling == [f EXCEPT !.tables = Append(@, new)]
           rowing == WithTable(h, [RowDone(Table(h)) EXCEPT !.row = TRUE, !.cells = <<>>])
           linking == [h EXCEPT !.anchor = TRUE, !.anchorText = <<>>]
           opened == Opened_(h, path)
<1>1. StartTag(before, tag) \in {skipping, h, opened, coding, listing, ListItem(h), tabling, linking}
      \/ (InTable(h) /\ StartTag(before, tag) = rowing)
  BY DEF StartTag
<1>2. /\ Fields(h) /\ h.regions = before.regions /\ h.text = before.text /\ h.item = before.item
      /\ h.items = before.items /\ h.codeText = before.codeText /\ h.tables = before.tables
  BY DEF Single, Fields, Pushed
<1>3. opened = [f EXCEPT !.kind = "prose", !.at = path, !.under = h.crumb]
  BY DEF Opened_
<1> HIDE DEF h, path
<1>4. Single(h, n)
  BY <1>2, SingleStays, SingleParts
<1>5. Single(f, n) /\ Fields(f)
  BY <1>4, SingleFlushed DEF Single
<1> HIDE DEF f, opened
<1>6. Single(skipping, n) /\ Single(linking, n)
  <2> DEFINE g == skipping
             k == linking
  <2>1. /\ Fields(g) /\ g.regions = h.regions /\ g.text = h.text /\ g.item = h.item
        /\ g.items = h.items /\ g.codeText = h.codeText /\ g.tables = h.tables
    BY <1>2 DEF Fields
  <2>2. /\ Fields(k) /\ k.regions = h.regions /\ k.text = h.text /\ k.item = h.item
        /\ k.items = h.items /\ k.codeText = h.codeText /\ k.tables = h.tables
    BY <1>2 DEF Fields
  <2> HIDE DEF g, k
  <2>3. Single(g, n) /\ Single(k, n)
    BY <1>4, <2>1, <2>2, SingleStays, SingleParts
  <2> QED
    BY <2>3 DEF g, k
<1>7. Single(opened, n)
  <2>1. /\ Fields(opened) /\ opened.regions = f.regions /\ opened.text = f.text /\ opened.item = f.item
        /\ opened.items = f.items /\ opened.codeText = f.codeText /\ opened.tables = f.tables
    BY <1>3, <1>5 DEF Fields
  <2> QED
    BY <1>5, <2>1, SingleStays, SingleParts
<1>8. Single(coding, n) /\ Single(listing, n)
  <2> DEFINE g == coding
             k == listing
  <2>1. /\ Fields(g) /\ g.regions = f.regions /\ g.text = f.text /\ g.item = f.item
        /\ g.items = f.items /\ g.codeText = <<>> /\ g.tables = f.tables
    BY <1>5 DEF Fields
  <2>2. /\ Fields(k) /\ k.regions = f.regions /\ k.text = f.text /\ k.item = f.item
        /\ k.items = <<>> /\ k.codeText = f.codeText /\ k.tables = f.tables
    BY <1>5 DEF Fields
  <2> HIDE DEF g, k
  <2>3. Single(g, n) /\ Single(k, n)
    BY <1>5, <2>1, <2>2, SingleStays, SingleParts, NothingHeld
  <2> QED
    BY <2>3 DEF g, k
<1>9. Single(tabling, n)
  <2> DEFINE g == tabling
  <2>1. /\ Fields(g) /\ g.regions = f.regions /\ g.text = f.text /\ g.item = f.item
        /\ g.items = f.items /\ g.codeText = f.codeText /\ g.tables = Append(f.tables, new)
    BY <1>5 DEF Fields
  <2>2. TableApart(new) /\ HeldInTable(new) = {}
    BY NothingHeld DEF TableApart, HeldInTable
  <2> HIDE DEF g, new
  <2>3. TablesApart(g.tables) /\ HeldInTables(g.tables) \subseteq HeldInTables(f.tables)
    BY <1>5, <2>1, <2>2, SingleParts, TablesApartMore
  <2>4. Single(g, n)
    BY <1>5, <2>1, <2>3, SingleStays, SingleParts
  <2> QED
    BY <2>4 DEF g
<1>10. InTable(h) => Single(rowing, n)
  <2> SUFFICES ASSUME InTable(h) PROVE Single(rowing, n)
    OBVIOUS
  <2>1. TableApart(Table(h))
    BY <1>4, SingleParts, TablesApartLess DEF InTable, NoTable, Table
  <2> DEFINE t == [RowDone(Table(h)) EXCEPT !.row = TRUE, !.cells = <<>>]
  <2>2. TableApart(t) /\ HeldInTable(t) \subseteq HeldInTable(Table(h))
    BY <2>1, TableMoves
  <2> HIDE DEF t
  <2>3. n <= n /\ HeldInTable(t) \subseteq HeldInTable(Table(h)) \cup (n + 1 .. n)
    BY <2>2
  <2>4. Single(WithTable(h, t), n)
    BY <1>4, <2>2, <2>3, SingleTable
  <2> QED
    BY <2>4 DEF t
<1>11. Single(ListItem(h), n)
  BY <1>4, SingleItem
<1> QED
  BY <1>1, <1>4, <1>6, <1>7, <1>8, <1>9, <1>10, <1>11

\* An end tag moves texts to a region, to the items, to the cells or to the rows, or drops them.
LEMMA SingleEnd ==
  ASSUME NEW before, NEW tag, NEW n \in Nat, Single(before, n)
  PROVE  Single(EndTag(before, tag), n)
<1> DEFINE matches == Top(before) = tag
           h == IF matches THEN [before EXCEPT !.stack = Front(@)] ELSE before
           skipping == [h EXCEPT !.skip = IF Len(before.stack) <= @ \/ matches THEN 0 ELSE @]
           celling == WithTable(h, [Table(h) EXCEPT !.cells = Append(@, Table(h).cell), !.cell = <<>>])
           rowing == WithTable(h, RowEnded(Table(h)))
           linking == [h EXCEPT !.links = Append(@, h.anchorText), !.anchor = FALSE, !.anchorText = <<>>]
<1>1. \/ EndTag(before, tag) \in {skipping, before, HeadingEnded(h, tag), Flushed(h), ListItem(h), linking, h}
      \/ h.code /\ EndTag(before, tag) = CodeEnded(h)
      \/ h.list /\ EndTag(before, tag) = ListEnded(h)
      \/ InTable(h) /\ EndTag(before, tag) \in {celling, rowing, TableEnded(h)}
  BY DEF EndTag
<1>2. /\ Fields(h) /\ h.regions = before.regions /\ h.text = before.text /\ h.item = before.item
      /\ h.items = before.items /\ h.codeText = before.codeText /\ h.tables = before.tables
  BY DEF Single, Fields
<1> HIDE DEF h, matches
<1>3. Single(h, n)
  BY <1>2, SingleStays, SingleParts
<1>4. Single(skipping, n) /\ Single(linking, n)
  <2> DEFINE g == skipping
             k == linking
  <2>1. /\ Fields(g) /\ g.regions = h.regions /\ g.text = h.text /\ g.item = h.item
        /\ g.items = h.items /\ g.codeText = h.codeText /\ g.tables = h.tables
    BY <1>2 DEF Fields
  <2>2. /\ Fields(k) /\ k.regions = h.regions /\ k.text = h.text /\ k.item = h.item
        /\ k.items = h.items /\ k.codeText = h.codeText /\ k.tables = h.tables
    BY <1>2 DEF Fields
  <2> HIDE DEF g, k
  <2>3. Single(g, n) /\ Single(k, n)
    BY <1>3, <2>1, <2>2, SingleStays, SingleParts
  <2> QED
    BY <2>3 DEF g, k
<1>5. Single(Flushed(h), n) /\ Single(ListItem(h), n)
  BY <1>3, SingleFlushed, SingleItem
<1>6. Single(HeadingEnded(h, tag), n)
  <2> DEFINE level == TagLevel(tag) - 1
             kept == SubSeq(h.crumb, 1, IF level < Len(h.crumb) THEN level ELSE Len(h.crumb))
             a == [h EXCEPT !.crumb = kept]
             b == [h EXCEPT !.crumb = Append(kept, h.text), !.under = kept]
  <2>1. HeadingEnded(h, tag) \in {Flushed(a), Flushed(b)}
    BY DEF HeadingEnded
  <2> HIDE DEF kept
  <2>2. /\ Fields(a) /\ a.regions = h.regions /\ a.text = h.text /\ a.item = h.item
        /\ a.items = h.items /\ a.codeText = h.codeText /\ a.tables = h.tables
    BY <1>2 DEF Fields
  <2>3. /\ Fields(b) /\ b.regions = h.regions /\ b.text = h.text /\ b.item = h.item
        /\ b.items = h.items /\ b.codeText = h.codeText /\ b.tables = h.tables
    BY <1>2 DEF Fields
  <2> HIDE DEF a, b
  <2>4. Single(a, n) /\ Single(b, n)
    BY <1>3, <2>2, <2>3, SingleStays, SingleParts
  <2> QED
    BY <2>1, <2>4, SingleFlushed
<1>7. Single(CodeEnded(h), n)
  <2> DEFINE c == [h EXCEPT !.code = FALSE, !.codeText = <<>>]
  <2>1. CodeEnded(h) \in {c, Emitted_(c, h.codeAt, "code", h.codeText, h.crumb)}
    BY DEF CodeEnded
  <2>2. /\ Fields(c) /\ c.regions = h.regions /\ c.text = h.text /\ c.item = h.item
        /\ c.items = h.items /\ c.codeText = <<>> /\ c.tables = h.tables
    BY <1>2 DEF Fields
  <2> HIDE DEF c
  <2>3. Single(c, n)
    BY <1>3, <2>2, SingleStays, SingleParts, NothingHeld
  <2>4. RegionTexts(c) = RegionTexts(h)
    BY <2>2 DEF RegionTexts
  <2>5. /\ Held(h.codeText) \subseteq 1 .. n
        /\ Held(h.codeText) \cap (HeldIn(RegionTexts(c)) \cup HeldOpen(c)) = {}
    BY <1>3, <2>2, <2>4, NothingHeld DEF Single, OpenApart, HeldOpen
  <2>6. Single(Emitted_(c, h.codeAt, "code", h.codeText, h.crumb), n)
    BY <1>3, <2>3, <2>5, SingleEmitted, SingleParts
  <2> QED
    BY <2>1, <2>3, <2>6
<1>8. Single(ListEnded(h), n)
  <2> DEFINE c == [h EXCEPT !.list = FALSE, !.items = <<>>]
             texts == FlattenSeq(h.items)
  <2>1. ListEnded(h) \in {c, Emitted_(c, h.listAt, "list", texts, h.crumb)}
    BY DEF ListEnded
  <2>2. /\ Fields(c) /\ c.regions = h.regions /\ c.text = h.text /\ c.item = h.item
        /\ c.items = <<>> /\ c.codeText = h.codeText /\ c.tables = h.tables
    BY <1>2 DEF Fields
  <2>3. Once(texts) /\ Held(texts) = HeldIn(h.items)
    BY <1>3, SingleParts, FlattenedOnce
  <2> HIDE DEF c, texts
  <2>4. Single(c, n)
    BY <1>3, <2>2, SingleStays, SingleParts, NothingHeld
  <2>5. RegionTexts(c) = RegionTexts(h)
    BY <2>2 DEF RegionTexts
  <2>6. Held(texts) \subseteq 1 .. n /\ Held(texts) \cap (HeldIn(RegionTexts(c)) \cup HeldOpen(c)) = {}
    BY <1>3, <2>2, <2>3, <2>5, NothingHeld DEF Single, OpenApart, HeldOpen
  <2>7. Single(Emitted_(c, h.listAt, "list", texts, h.crumb), n)
    BY <2>3, <2>4, <2>6, SingleEmitted
  <2> QED
    BY <2>1, <2>4, <2>7
<1>9. InTable(h) => TablesApart(h.tables) /\ h.tables # <<>> /\ TableApart(Table(h))
  BY <1>3, SingleParts, TablesApartLess DEF InTable, NoTable, Table
<1>10. InTable(h) => Single(celling, n) /\ Single(rowing, n)
  <2> SUFFICES ASSUME InTable(h) PROVE Single(celling, n) /\ Single(rowing, n)
    OBVIOUS
  <2> DEFINE t == [Table(h) EXCEPT !.cells = Append(@, Table(h).cell), !.cell = <<>>]
             u == RowEnded(Table(h))
  <2>1. /\ TableApart(t) /\ HeldInTable(t) \subseteq HeldInTable(Table(h))
        /\ TableApart(u) /\ HeldInTable(u) \subseteq HeldInTable(Table(h))
    BY <1>9, TableMoves
  <2> HIDE DEF t, u
  <2>2. /\ n <= n /\ HeldInTable(t) \subseteq HeldInTable(Table(h)) \cup (n + 1 .. n)
        /\ HeldInTable(u) \subseteq HeldInTable(Table(h)) \cup (n + 1 .. n)
    BY <2>1
  <2>3. Single(WithTable(h, t), n) /\ Single(WithTable(h, u), n)
    BY <1>3, <2>1, <2>2, SingleTable
  <2> QED
    BY <2>3 DEF t, u
<1>11. InTable(h) => Single(TableEnded(h), n)
  <2> SUFFICES ASSUME InTable(h) PROVE Single(TableEnded(h), n)
    OBVIOUS
  <2> DEFINE t == Table(h)
             texts == Markdown(RowDone(t).rows)
             c == [h EXCEPT !.tables = Front(@)]
  <2>1. TableEnded(h) \in {c, Emitted_(c, t.at, "table", texts, t.under)}
    BY DEF TableEnded
  <2>2. /\ Fields(c) /\ c.regions = h.regions /\ c.text = h.text /\ c.item = h.item
        /\ c.items = h.items /\ c.codeText = h.codeText /\ c.tables = Front(h.tables)
    BY <1>2 DEF Fields
  <2>3. /\ TablesApart(c.tables) /\ HeldInTable(t) \cap HeldInTables(c.tables) = {}
        /\ HeldInTables(h.tables) = HeldInTables(c.tables) \cup HeldInTable(t)
    BY <1>9, <2>2, TablesApartLess DEF Table
  <2>4. Once(texts) /\ Held(texts) \subseteq HeldInTable(t)
    BY <1>9, TableMoves, MarkdownOnce
  <2> HIDE DEF c, t, texts
  <2>5. Single(c, n)
    BY <1>3, <2>2, <2>3, SingleStays, SingleParts
  <2>6. RegionTexts(c) = RegionTexts(h)
    BY <2>2 DEF RegionTexts
  <2>7. Held(texts) \subseteq 1 .. n /\ Held(texts) \cap (HeldIn(RegionTexts(c)) \cup HeldOpen(c)) = {}
    BY <1>3, <2>2, <2>3, <2>4, <2>6 DEF Single, OpenApart, HeldOpen
  <2>8. Single(Emitted_(c, t.at, "table", texts, t.under), n)
    BY <2>4, <2>5, <2>7, SingleEmitted
  <2> QED
    BY <2>1, <2>5, <2>8
<1> QED
  BY <1>1, <1>3, <1>4, <1>5, <1>6, <1>7, <1>8, <1>10, <1>11

\* A new text goes to one place at most.
LEMMA SingleData ==
  ASSUME NEW h, NEW n \in Nat, Single(h, n)
  PROVE  Single(Data(h, n + 1), n + 1)
<1> DEFINE text == n + 1
           a == Anchored(h, text)
           coding == [h EXCEPT !.codeText = Append(@, text)]
           celling == WithTable(a, [Table(h) EXCEPT !.cell = Append(@, text)])
           listing == [a EXCEPT !.item = Append(@, text)]
           saying == [a EXCEPT !.text = Append(@, text)]
<1>1. Data(h, text) \in {h, a, coding, listing, saying} \/ (InTable(h) /\ Data(h, text) = celling)
  BY DEF Data
<1>2. /\ Fields(a) /\ a.regions = h.regions /\ a.text = h.text /\ a.item = h.item
      /\ a.items = h.items /\ a.codeText = h.codeText /\ a.tables = h.tables
  BY DEF Single, Fields, Anchored
<1> HIDE DEF a
<1>3. HeldIn(RegionTexts(h)) \cup HeldOpen(h) \subseteq 1 .. n
  BY DEF Single
<1>4. text \notin HeldIn(RegionTexts(h)) \cup HeldOpen(h) /\ 1 .. n \subseteq 1 .. text /\ text \in 1 .. text
  <2>1. n + 1 \notin 1 .. n /\ 1 .. n \subseteq 1 .. n + 1 /\ n + 1 \in 1 .. n + 1
    OBVIOUS
  <2> QED
    BY <1>3, <2>1
<1>5. /\ text \notin Held(h.text) /\ text \notin Held(h.item) /\ text \notin HeldIn(h.items)
      /\ text \notin Held(h.codeText) /\ text \notin HeldInTables(h.tables)
  BY <1>4 DEF HeldOpen
<1> HIDE DEF text
<1>6. Single(h, text)
  BY <1>4 DEF Single
<1>7. Single(a, text)
  BY <1>2, <1>6, SingleStays, SingleParts
<1>8. Single(coding, text)
  <2> DEFINE g == coding
  <2>1. /\ Fields(g) /\ g.regions = h.regions /\ g.text = h.text /\ g.item = h.item
        /\ g.items = h.items /\ g.codeText = Append(h.codeText, text) /\ g.tables = h.tables
    BY <1>6 DEF Single, Fields
  <2> HIDE DEF g
  <2>2. Once(g.codeText) /\ Held(g.codeText) = Held(h.codeText) \cup {text}
    BY <1>5, <1>6, <2>1, OnceMore, SingleParts
  <2>3. RegionTexts(g) = RegionTexts(h) /\ HeldOpen(g) = HeldOpen(h) \cup {text}
    BY <2>1, <2>2 DEF RegionTexts, HeldOpen
  <2>4. OpenApart(g)
    BY <1>5, <1>6, <2>1, <2>2 DEF Single, OpenApart
  <2>5. Single(g, text)
    BY <1>4, <1>6, <2>1, <2>3, <2>4 DEF Single
  <2> QED
    BY <2>5 DEF g
<1>9. Single(listing, text)
  <2> DEFINE g == listing
  <2>1. /\ Fields(g) /\ g.regions = h.regions /\ g.text = h.text /\ g.item = Append(h.item, text)
        /\ g.items = h.items /\ g.codeText = h.codeText /\ g.tables = h.tables
    BY <1>2 DEF Fields
  <2> HIDE DEF g
  <2>2. Once(g.item) /\ Held(g.item) = Held(h.item) \cup {text}
    BY <1>5, <1>6, <2>1, OnceMore, SingleParts
  <2>3. RegionTexts(g) = RegionTexts(h) /\ HeldOpen(g) = HeldOpen(h) \cup {text}
    BY <2>1, <2>2 DEF RegionTexts, HeldOpen
  <2>4. OpenApart(g)
    BY <1>5, <1>6, <2>1, <2>2 DEF Single, OpenApart
  <2>5. Single(g, text)
    BY <1>4, <1>6, <2>1, <2>3, <2>4 DEF Single
  <2> QED
    BY <2>5 DEF g
<1>10. Single(saying, text)
  <2> DEFINE g == saying
  <2>1. /\ Fields(g) /\ g.regions = h.regions /\ g.text = Append(h.text, text) /\ g.item = h.item
        /\ g.items = h.items /\ g.codeText = h.codeText /\ g.tables = h.tables
    BY <1>2 DEF Fields
  <2> HIDE DEF g
  <2>2. Once(g.text) /\ Held(g.text) = Held(h.text) \cup {text}
    BY <1>5, <1>6, <2>1, OnceMore, SingleParts
  <2>3. RegionTexts(g) = RegionTexts(h) /\ HeldOpen(g) = HeldOpen(h) \cup {text}
    BY <2>1, <2>2 DEF RegionTexts, HeldOpen
  <2>4. OpenApart(g)
    BY <1>5, <1>6, <2>1, <2>2 DEF Single, OpenApart
  <2>5. Single(g, text)
    BY <1>4, <1>6, <2>1, <2>3, <2>4 DEF Single
  <2> QED
    BY <2>5 DEF g
<1>11. InTable(h) => Single(celling, text)
  <2> SUFFICES ASSUME InTable(h) PROVE Single(celling, text)
    OBVIOUS
  <2> DEFINE t == Table(h)
             u == [t EXCEPT !.cell = Append(@, text)]
  <2>1. InTable(a) /\ Table(a) = t
    BY <1>2 DEF InTable, Table
  <2>2. TableApart(t) /\ HeldInTable(t) \subseteq HeldInTables(h.tables)
    BY <1>6, SingleParts, TablesApartLess DEF InTable, NoTable, Table
  <2> HIDE DEF t
  <2>3. /\ u \in [at : {u.at}, rows : {u.rows}, row : {u.row}, cells : {u.cells}, cell : {u.cell}, under : {u.under}]
        /\ u.cell = Append(t.cell, text) /\ u.cells = t.cells /\ u.rows = t.rows
    BY <2>2 DEF TableApart
  <2> HIDE DEF u
  <2>4. text \notin HeldInTable(t)
    BY <1>5, <2>2
  <2>5. Once(u.cell) /\ Held(u.cell) = Held(t.cell) \cup {text}
    BY <2>2, <2>3, <2>4, OnceMore DEF TableApart, HeldInTable
  <2>6. TableApart(u) /\ HeldInTable(u) = HeldInTable(t) \cup {text}
    BY <2>2, <2>3, <2>4, <2>5 DEF TableApart, HeldInTable
  <2>7. Single(a, n)
    BY <1>2, SingleStays, SingleParts
  <2>8. n <= text /\ text \in Nat /\ text \in n + 1 .. text
    BY DEF text
  <2>9. Single(WithTable(a, u), text)
    BY <2>1, <2>6, <2>7, <2>8, SingleTable
  <2> QED
    BY <2>9 DEF u, t
<1> QED
  BY <1>1, <1>6, <1>7, <1>8, <1>9, <1>10, <1>11 DEF text

\* At the end of the file the text and the items of an open list become regions.
LEMMA SingleFinal ==
  ASSUME NEW h, NEW n \in Nat, Single(h, n)
  PROVE  Apart(RegionTexts(Finalized(h)))
<1> DEFINE f == Flushed(h)
           c == [f EXCEPT !.items = <<>>]
           texts == FlattenSeq(f.items)
           e == Emitted_(c, f.listAt, "list_final", texts, f.crumb)
           g == Emitted_(f, f.listAt, "list_final", texts, f.crumb)
<1>1. Finalized(h) \in {f, g}
  BY DEF Finalized
<1>2. Single(f, n)
  BY SingleFlushed
<1> HIDE DEF f
<1>3. /\ Fields(c) /\ c.regions = f.regions /\ c.text = f.text /\ c.item = f.item
      /\ c.items = <<>> /\ c.codeText = f.codeText /\ c.tables = f.tables
  BY <1>2 DEF Single, Fields
<1>4. Once(texts) /\ Held(texts) = HeldIn(f.items)
  BY <1>2, SingleParts, FlattenedOnce
<1> HIDE DEF c, texts
<1>5. Single(c, n)
  BY <1>2, <1>3, SingleStays, SingleParts, NothingHeld
<1>6. RegionTexts(c) = RegionTexts(f)
  BY <1>3 DEF RegionTexts
<1>7. Held(texts) \subseteq 1 .. n /\ Held(texts) \cap (HeldIn(RegionTexts(c)) \cup HeldOpen(c)) = {}
  BY <1>2, <1>3, <1>4, <1>6, NothingHeld DEF Single, OpenApart, HeldOpen
<1>8. Single(e, n)
  BY <1>4, <1>5, <1>7, SingleEmitted
<1>9. e.regions = g.regions
  BY <1>2, <1>3 DEF Single, Fields, Emitted_
<1> HIDE DEF e, g
<1>10. RegionTexts(e) = RegionTexts(g)
  BY <1>9 DEF RegionTexts
<1> QED
  BY <1>1, <1>2, <1>8, <1>10, SingleParts

TextInv ==
  /\ PageShaped /\ page.texts \in Nat
  /\ Apart(RegionTexts(html))
  /\ ~page.ended => Single(html, page.texts)

\* Every event keeps it.
LEMMA TextStep == TextInv /\ [HtmlNext]_htmlVars => TextInv'
<1> SUFFICES ASSUME TextInv, [HtmlNext]_htmlVars PROVE TextInv'
  OBVIOUS
<1>1. CASE UNCHANGED htmlVars
  <2>1. page' = page /\ html' = html
    BY <1>1 DEF htmlVars
  <2> QED
    BY <2>1 DEF TextInv, PageShaped
<1>2. ASSUME PageShaped', page.texts' \in Nat, Single(html', page.texts') PROVE TextInv'
  <2>1. Apart(RegionTexts(html'))
    BY <1>2, SingleParts
  <2> QED
    BY <1>2, <2>1 DEF TextInv
<1>3. ASSUME NEW tag \in Tags, OpenElement(tag) PROVE TextInv'
  <2>1. PageShaped' /\ page.texts' = page.texts /\ Single(html, page.texts) /\ page.texts \in Nat
    BY <1>3 DEF OpenElement, Room, TextInv, PageShaped
  <2>2. html' = StartTag(html, tag)
    BY <1>3 DEF OpenElement
  <2> QED
    BY <1>2, <2>1, <2>2, SingleStart
<1>4. ASSUME NEW tag \in Tags, VoidElement(tag) PROVE TextInv'
  <2>1. PageShaped' /\ page.texts' = page.texts /\ Single(html, page.texts) /\ page.texts \in Nat
    BY <1>4 DEF VoidElement, Room, TextInv, PageShaped
  <2>2. html' \in {StartTag(html, tag), EndTag(StartTag(html, tag), tag)}
    BY <1>4 DEF VoidElement
  <2> QED
    BY <1>2, <2>1, <2>2, SingleStart, SingleEnd
<1>5. CASE CloseElement
  <2>1. PageShaped' /\ page.texts' = page.texts /\ Single(html, page.texts) /\ page.texts \in Nat
    BY <1>5 DEF CloseElement, TextInv, PageShaped
  <2>2. html' = EndTag(html, Last(page.open))
    BY <1>5 DEF CloseElement
  <2> QED
    BY <1>2, <2>1, <2>2, SingleEnd
<1>6. CASE Text_
  <2>1. PageShaped' /\ page.texts' = page.texts + 1 /\ Single(html, page.texts) /\ page.texts \in Nat
    BY <1>6 DEF Text_, Room, TextInv, PageShaped
  <2>2. html' = Data(html, page.texts + 1)
    BY <1>6 DEF Text_
  <2> QED
    BY <1>2, <2>1, <2>2, SingleData
<1>7. CASE EndOfFile
  <2>1. PageShaped' /\ page'.ended /\ page.texts' = page.texts /\ Single(html, page.texts) /\ page.texts \in Nat
    BY <1>7 DEF EndOfFile, TextInv, PageShaped
  <2>2. html' = Finalized(html)
    BY <1>7 DEF EndOfFile
  <2>3. Apart(RegionTexts(html'))
    BY <2>1, <2>2, SingleFinal
  <2> QED
    BY <2>1, <2>3 DEF TextInv
<1> QED
  BY <1>1, <1>3, <1>4, <1>5, <1>6, <1>7 DEF HtmlNext, Tags

\* No text of a page reaches two regions, or one region twice, whatever rows, items and lists
\* are left open: for documents of any length and any nesting.
THEOREM TextsAreEmittedOnce == HtmlSpec => []EachTextOnce
<1>1. HtmlInit => TextInv
  <2> SUFFICES ASSUME HtmlInit PROVE TextInv
    OBVIOUS
  <2>1. PageShaped /\ page.texts = 0
    BY DEF HtmlInit, PageShaped
  <2>2. Fields(html)
    BY DEF HtmlInit, Fields
  <2>3. /\ html.regions = <<>> /\ html.text = <<>> /\ html.item = <<>> /\ html.items = <<>>
        /\ html.codeText = <<>> /\ html.tables = <<>>
    BY DEF HtmlInit, NoTable
  <2>4. RegionTexts(html) = <<>>
    <3>1. RegionTexts(html) = [r \in {} |-> html.regions[r].texts]
      BY <2>3, NothingHeld DEF RegionTexts
    <3> QED
      BY <3>1
  <2>5. HeldOpen(html) = {} /\ OpenApart(html)
    BY <2>3, NothingHeld DEF HeldOpen, OpenApart
  <2>6. Single(html, 0)
    BY <2>2, <2>3, <2>4, <2>5, NothingHeld DEF Single
  <2> QED
    BY <2>1, <2>4, <2>6, NothingHeld DEF TextInv
<1>2. TextInv => EachTextOnce
  BY FlattenedOnce DEF TextInv, EachTextOnce, RegionTexts, Once
<1> QED
  BY <1>1, <1>2, TextStep, PTL DEF HtmlSpec
-----------------------------------------------------------------------------
(* The families of versions: a component is the least closed set around its   *)
(* document, components are disjoint, and each has one newest document.       *)

\* What is picked from a list is of its type.
LEMMA PickedIn ==
  ASSUME NEW T, NEW s \in Seq(T), NEW places
  PROVE  Picked(s, places) \in Seq(T)
<1> DEFINE ss == [i \in DOMAIN s |-> IF i \in places THEN <<s[i]>> ELSE <<>>]
<1>1. Len(s) \in Nat /\ DOMAIN s = 1 .. Len(s) /\ \A i \in DOMAIN s : s[i] \in T
  BY LenProperties, ElementOfSeq
<1>2. DOMAIN ss = 1 .. Len(s)
  BY <1>1
<1>3. \A i \in DOMAIN ss : ss[i] \in Seq(T)
  BY <1>1
<1>4. ss = [i \in 1 .. Len(s) |-> ss[i]]
  BY <1>1
<1> HIDE DEF ss
<1>5. IsList(ss)
  BY <1>1, <1>2, <1>4 DEF IsList
<1>6. FlattenSeq(ss) \in Seq(T)
  BY <1>3, <1>5, FlattenedIn
<1> QED
  BY <1>6 DEF Picked, ss

\* What the inventory lists.
Items == [path : Paths, hash : Hashes, mtime : Nat, dup : {"unique", "primary", "exact_duplicate"}]

\* Grouping and marking copies changes no item otherwise.
LEMMA GroupedIn ==
  ASSUME NEW items \in Seq(Items)
  PROVE  Grouped(items) \in Seq(Items)
<1> DEFINE Copies(k) == {j \in DOMAIN items : items[j].hash = items[k].hash}
           First(k) == k = Min(Copies(k))
           Mark(k) == IF Copies(k) = {k} THEN "unique" ELSE IF First(k) THEN "primary" ELSE "exact_duplicate"
           marked == [k \in DOMAIN items |-> [items[k] EXCEPT !.dup = Mark(k)]]
           Group(k) == IF First(k) THEN Picked(marked, Copies(k)) ELSE <<>>
           ss == [k \in DOMAIN items |-> Group(k)]
<1>1. Len(items) \in Nat /\ DOMAIN items = 1 .. Len(items) /\ \A k \in DOMAIN items : items[k] \in Items
  BY LenProperties, ElementOfSeq
<1>2. \A k \in DOMAIN items : Mark(k) \in {"unique", "primary", "exact_duplicate"}
  OBVIOUS
<1>3. marked \in Seq(Items)
  <2> HIDE DEF Mark
  <2>1. \A k \in DOMAIN items : [items[k] EXCEPT !.dup = Mark(k)] \in Items
    BY <1>1, <1>2 DEF Items
  <2>2. marked \in [1 .. Len(items) -> Items]
    BY <1>1, <2>1
  <2> HIDE DEF marked
  <2> QED
    BY <1>1, <2>2
<1>4. Grouped(items) = FlattenSeq(ss)
  BY Zenon DEF Grouped
<1> HIDE DEF marked, Copies, First, Mark
<1>5. \A k \in DOMAIN items : Group(k) \in Seq(Items)
  <2> SUFFICES ASSUME NEW k \in DOMAIN items PROVE Group(k) \in Seq(Items)
    OBVIOUS
  <2>1. Picked(marked, Copies(k)) \in Seq(Items)
    BY <1>3, PickedIn
  <2>2. <<>> \in Seq(Items)
    OBVIOUS
  <2> QED
    BY <2>1, <2>2
<1> HIDE DEF Group
<1>6. IsList(ss) /\ \A k \in DOMAIN ss : ss[k] \in Seq(Items)
  BY <1>1, <1>5 DEF IsList
<1> HIDE DEF ss
<1> QED
  BY <1>4, <1>6, FlattenedIn

\* Numbers in a list have a bound.
LEMMA Bounded ==
  ASSUME NEW n \in Nat, NEW f, \A i \in 1 .. n : f[i] \in Nat
  PROVE  \E b \in Nat : \A i \in 1 .. n : f[i] <= b
<1> DEFINE S == {m \in 1 .. n : \E b \in Nat : \A i \in 1 .. m : f[i] <= b}
<1>1. ASSUME NEW m \in 1 .. n, m = 1 \/ m - 1 \in S PROVE m \in S
  <2>1. PICK b \in Nat : \A i \in 1 .. m - 1 : f[i] <= b
    BY <1>1
  <2> DEFINE c == IF f[m] <= b THEN b ELSE f[m]
  <2>2. c \in Nat
    OBVIOUS
  <2>3. \A i \in 1 .. m : i = m \/ i \in 1 .. m - 1
    OBVIOUS
  <2>4. \A i \in 1 .. m - 1 : i \in 1 .. n
    OBVIOUS
  <2>5. \A i \in 1 .. m : f[i] <= c
    BY <2>1, <2>3, <2>4
  <2> QED
    BY <2>2, <2>5
<1> HIDE DEF S
<1>2. 1 .. n \subseteq S
  BY <1>1, Climbs
<1>3. CASE n = 0
  BY <1>3
<1>4. CASE n # 0
  <2>1. n \in 1 .. n
    BY <1>4
  <2>2. n \in S
    BY ZenonT(60), <1>2, <2>1
  <2> QED
    BY ZenonT(60), <2>2 DEF S
<1> QED
  BY <1>3, <1>4

\* The documents that are compared, and which of them are similar.
Compared(results) == Documents(results, Eligible_(results))
Linked(results, g, h) == Near(results, Eligible_(results), g, h)

\* A set that holds what is similar to its members.
Closed(results, S) == \A g \in S : \A h \in Compared(results) : Linked(results, g, h) => h \in S

\* A parse result, which refers to a hash of the corpus.
IsResult(r) ==
  /\ r = [hash |-> r.hash, mtime |-> r.mtime, status |-> r.status, codes |-> r.codes, regions |-> r.regions,
          role |-> r.role, primary |-> r.primary, seen |-> r.seen]
  /\ r.hash \in Hashes /\ r.mtime \in Nat /\ r.role = "unique"

AreResults(results) == IsList(results) /\ \A i \in DOMAIN results : IsResult(results[i])

LEMMA LinkedBothWays ==
  ASSUME NEW results, NEW g, NEW h, Linked(results, g, h)
  PROVE  Linked(results, h, g)
<1>1. \A a, b : a \cap b = b \cap a /\ a \cup b = b \cup a
  OBVIOUS
<1>2. \A a, b : Similar(a, b) => Similar(b, a)
  BY <1>1 DEF Similar
<1> QED
  BY <1>2 DEF Linked, Near

LEMMA HashesAreFinite == IsFiniteSet(Hashes) /\ Len(HashOrder) \in Nat /\ DOMAIN HashOrder = 1 .. Len(HashOrder)
<1>1. HashOrder \in Seq(Hashes) /\ Hashes = {HashOrder[i] : i \in DOMAIN HashOrder}
  BY OrdersAssumption DEF Hashes, ToSet
<1>2. Len(HashOrder) \in Nat /\ DOMAIN HashOrder = 1 .. Len(HashOrder) /\ HashOrder \in [1 .. Len(HashOrder) -> Hashes]
  BY <1>1, LenProperties
<1>3. HashOrder \in Surjection(1 .. Len(HashOrder), Hashes)
  BY <1>1, <1>2 DEF Surjection
<1>4. ExistsSurjection(1 .. Len(HashOrder), Hashes)
  BY <1>3 DEF ExistsSurjection
<1> QED
  BY <1>2, <1>4, FS_NatSurjection

\* A component is the least set that holds its document and whatever is similar to its members:
\* what is reached in as many steps as there are documents is all that is ever reached.
LEMMA ComponentIsLeast ==
  ASSUME NEW results, IsFiniteSet(Compared(results)), NEW hash \in Compared(results)
  PROVE  LET C == Component(results, hash)
         IN /\ hash \in C /\ C \subseteq Compared(results) /\ Closed(results, C)
            /\ \A S : hash \in S /\ Closed(results, S) => C \subseteq S
<1> DEFINE hashes == Compared(results)
           Around(S) == {h \in hashes : \E g \in S : Linked(results, g, h)}
           N == Cardinality(hashes)
           Step(f, n) == IF n = 0 THEN {hash} ELSE f[n - 1] \cup Around(f[n - 1])
           Solves(f) == f = [n \in 0 .. N |-> Step(f, n)]
<1>1. N \in Nat
  BY FS_CardinalityType
<1>2. Component(results, hash) = (CHOOSE f : Solves(f))[N]
  BY DEF Component, Compared, Linked
<1>3. \E f : Solves(f)
  <2> DEFINE S == {m \in 1 .. N + 1 : \E f : DOMAIN f = 0 .. m - 1 /\ \A n \in 0 .. m - 1 : f[n] = Step(f, n)}
  <2> HIDE DEF hashes, Around, N
  <2>1. ASSUME NEW m \in 1 .. N + 1, m = 1 \/ m - 1 \in S PROVE m \in S
    <3>1. PICK f : \A n \in 0 .. m - 2 : f[n] = Step(f, n)
      <4>1. CASE m = 1
        BY <4>1
      <4>2. CASE m # 1
        <5>1. PICK f : \A n \in 0 .. (m - 1) - 1 : f[n] = Step(f, n)
          BY <2>1, <4>2
        <5>2. (m - 1) - 1 = m - 2
          OBVIOUS
        <5> HIDE DEF Step
        <5> QED
          BY <5>1, <5>2
      <4> QED
        BY <4>1, <4>2
    <3> DEFINE g == [n \in 0 .. m - 1 |-> IF n = m - 1 THEN Step(f, n) ELSE f[n]]
    <3>2. \A n \in 0 .. m - 1 : Step(g, n) = Step(f, n)
      <4> SUFFICES ASSUME NEW n \in 0 .. m - 1, n # 0 PROVE g[n - 1] = f[n - 1]
        OBVIOUS
      <4>1. n - 1 \in 0 .. m - 1 /\ n - 1 # m - 1
        OBVIOUS
      <4> QED
        BY <4>1
    <3>3. \A n \in 0 .. m - 1 : g[n] = Step(f, n)
      <4> SUFFICES ASSUME NEW n \in 0 .. m - 1, n # m - 1 PROVE f[n] = Step(f, n)
        OBVIOUS
      <4>1. n \in 0 .. m - 2
        OBVIOUS
      <4> QED
        BY <3>1, <4>1
    <3>4. DOMAIN g = 0 .. m - 1
      OBVIOUS
    <3> HIDE DEF g, Step
    <3>5. \A n \in 0 .. m - 1 : g[n] = Step(g, n)
      BY <3>2, <3>3
    <3> QED
      BY <3>4, <3>5
  <2> HIDE DEF S
  <2>2. N + 1 \in S
    <3>1. 1 .. N + 1 \subseteq S
      BY <1>1, <2>1, Climbs
    <3> QED
      BY <1>1, <3>1
  <2> HIDE DEF Step
  <2>3. PICK f : DOMAIN f = 0 .. N /\ \A n \in 0 .. N : f[n] = Step(f, n)
    BY <1>1, <2>2 DEF S
  <2> DEFINE g == [n \in 0 .. N |-> f[n]]
  <2>4. \A n \in 0 .. N : Step(g, n) = Step(f, n)
    <3> SUFFICES ASSUME NEW n \in 0 .. N PROVE Step(g, n) = Step(f, n)
      OBVIOUS
    <3>1. CASE n = 0
      BY <3>1 DEF Step
    <3>2. CASE n # 0
      <4>1. n - 1 \in 0 .. N
        BY <1>1, <3>2
      <4> QED
        BY <3>2, <4>1 DEF Step
    <3> QED
      BY <3>1, <3>2
  <2>5. \A n \in 0 .. N : g[n] = Step(g, n)
    BY <2>3, <2>4
  <2>6. g = [n \in 0 .. N |-> g[n]]
    OBVIOUS
  <2> HIDE DEF g
  <2>7. [n \in 0 .. N |-> g[n]] = [n \in 0 .. N |-> Step(g, n)]
    BY <2>5
  <2>8. Solves(g)
    BY <2>6, <2>7
  <2> QED
    BY <2>8
<1> DEFINE f == CHOOSE f : Solves(f)
<1>4. Solves(f)
  BY ZenonT(60), <1>3
<1> HIDE DEF f, hashes, Around
<1>5. f[0] = {hash} /\ \A n \in 0 .. N : n # 0 => f[n] = f[n - 1] \cup Around(f[n - 1])
  <2> HIDE DEF N
  <2>1. \A n \in 0 .. N : f[n] = Step(f, n)
    BY <1>4
  <2>2. f[0] = {hash}
    <3>1. 0 \in 0 .. N
      BY <1>1
    <3> QED
      BY <2>1, <3>1
  <2>3. \A n \in 0 .. N : n # 0 => f[n] = f[n - 1] \cup Around(f[n - 1])
    BY <2>1
  <2> QED
    BY <2>2, <2>3
<1> HIDE DEF Solves, Step, N
<1>6. Component(results, hash) = f[N]
  BY <1>2 DEF f
<1>7. \A n \in 0 .. N : hash \in f[n] /\ f[n] \subseteq hashes
  <2> DEFINE S == {m \in 1 .. N + 1 : hash \in f[m - 1] /\ f[m - 1] \subseteq hashes}
  <2>1. ASSUME NEW m \in 1 .. N + 1, m = 1 \/ m - 1 \in S PROVE m \in S
    <3>1. CASE m = 1
      BY <1>5, <3>1 DEF hashes
    <3>2. CASE m # 1
      <4>1. hash \in f[m - 2] /\ f[m - 2] \subseteq hashes
        BY <2>1, <3>2
      <4>2. f[m - 1] = f[m - 2] \cup Around(f[m - 2])
        BY <1>1, <1>5, <3>2
      <4> QED
        BY <4>1, <4>2 DEF Around
    <3> QED
      BY <3>1, <3>2
  <2> HIDE DEF S
  <2>2. 1 .. N + 1 \subseteq S
    BY <1>1, <2>1, Climbs
  <2> SUFFICES ASSUME NEW n \in 0 .. N PROVE hash \in f[n] /\ f[n] \subseteq hashes
    OBVIOUS
  <2>3. n + 1 \in S /\ (n + 1) - 1 = n
    BY <1>1, <2>2
  <2> QED
    BY <2>3 DEF S
<1>8. ASSUME NEW T, hash \in T, Closed(results, T) PROVE f[N] \subseteq T
  <2> DEFINE S == {m \in 1 .. N + 1 : f[m - 1] \subseteq T}
  <2>1. ASSUME NEW m \in 1 .. N + 1, m = 1 \/ m - 1 \in S PROVE m \in S
    <3>1. CASE m = 1
      BY <1>5, <1>8, <3>1
    <3>2. CASE m # 1
      <4>1. f[m - 2] \subseteq T
        BY <2>1, <3>2
      <4>2. f[m - 1] = f[m - 2] \cup Around(f[m - 2])
        BY <1>1, <1>5, <3>2
      <4>3. Around(f[m - 2]) \subseteq T
        BY <1>8, <4>1 DEF Around, Closed, hashes
      <4> QED
        BY <4>1, <4>2, <4>3
    <3> QED
      BY <3>1, <3>2
  <2> HIDE DEF S
  <2>2. 1 .. N + 1 \subseteq S
    BY <1>1, <2>1, Climbs
  <2>3. N + 1 \in S /\ (N + 1) - 1 = N
    BY <1>1, <2>2
  <2> QED
    BY <2>3 DEF S
<1>9. Around(f[N]) \subseteq f[N]
  <2> DEFINE Full(n) == Around(f[n]) \subseteq f[n]
             S == {m \in 1 .. N + 1 : Full(m - 1) \/ Cardinality(f[m - 1]) >= m}
  <2>1. \A n \in 0 .. N : IsFiniteSet(f[n]) /\ Cardinality(f[n]) \in Nat /\ Cardinality(f[n]) <= N
    BY <1>7, FS_Subset, FS_CardinalityType DEF hashes, N
  <2>2. ASSUME NEW m \in 1 .. N + 1, m = 1 \/ m - 1 \in S PROVE m \in S
    <3>1. CASE m = 1
      <4>1. f[m - 1] = {hash}
        BY <1>5, <3>1
      <4>2. Cardinality(f[m - 1]) = 1
        BY <4>1, FS_Singleton
      <4> QED
        BY <3>1, <4>2
    <3>2. CASE m # 1
      <4>1. m - 1 \in S /\ f[m - 1] = f[m - 2] \cup Around(f[m - 2]) /\ m - 2 \in 0 .. N /\ m - 1 \in 0 .. N
        BY <1>1, <1>5, <2>2, <3>2
      <4>2. CASE Full(m - 2)
        <5>1. f[m - 1] = f[m - 2]
          BY <4>1, <4>2
        <5>2. Full(m - 1)
          BY <4>2, <5>1
        <5> QED
          BY <5>2
      <4>3. CASE ~ Full(m - 2)
        <5>1. Cardinality(f[m - 2]) >= m - 1
          BY <4>1, <4>3
        <5>2. f[m - 2] \in SUBSET f[m - 1] /\ f[m - 2] # f[m - 1]
          BY <4>1, <4>3
        <5>3. Cardinality(f[m - 2]) <= Cardinality(f[m - 1]) /\ Cardinality(f[m - 2]) # Cardinality(f[m - 1])
          BY <2>1, <4>1, <5>2, FS_Subset
        <5>4. Cardinality(f[m - 1]) \in Nat /\ Cardinality(f[m - 2]) \in Nat
          BY ZenonT(60), <2>1, <4>1
        <5>5. Cardinality(f[m - 1]) >= m
          BY <5>1, <5>3, <5>4
        <5> QED
          BY <5>5
      <4> QED
        BY <4>2, <4>3
    <3> QED
      BY <3>1, <3>2
  <2> HIDE DEF S
  <2>3. 1 .. N + 1 \subseteq S
    BY <1>1, <2>2, Climbs
  <2>4. N + 1 \in S
    BY <1>1, <2>3
  <2>5. Full(N) \/ Cardinality(f[N]) >= N + 1
    BY <1>1, <2>4 DEF S
  <2> QED
    BY <1>1, <2>1, <2>5
<1>10. Closed(results, f[N])
  BY <1>9 DEF Closed, Around, hashes
<1>11. hash \in f[N] /\ f[N] \subseteq hashes
  BY <1>1, <1>7
<1> QED
  BY <1>6, <1>8, <1>10, <1>11 DEF hashes

\* Two components are the same or have nothing in common.
LEMMA ComponentsApart ==
  ASSUME NEW results, IsFiniteSet(Compared(results)), NEW a \in Compared(results), NEW b \in Compared(results),
         Component(results, a) \cap Component(results, b) # {}
  PROVE  Component(results, a) = Component(results, b)
<1> DEFINE C(h) == Component(results, h)
<1>1. \A h \in Compared(results) :
        /\ h \in C(h) /\ C(h) \subseteq Compared(results) /\ Closed(results, C(h))
        /\ \A S : h \in S /\ Closed(results, S) => C(h) \subseteq S
  BY ComponentIsLeast
<1> HIDE DEF C
<1>2. ASSUME NEW g \in Compared(results), NEW h \in Compared(results), C(g) \cap C(h) # {}
      PROVE  g \in C(h)
  <2> SUFFICES ASSUME g \notin C(h) PROVE FALSE
    OBVIOUS
  <2> DEFINE S == Compared(results) \ C(h)
  <2>1. Closed(results, S)
    BY <1>1, LinkedBothWays DEF Closed
  <2>2. C(g) \subseteq S
    BY <1>1, <2>1
  <2> QED
    BY <1>2, <2>2
<1>3. a \in C(b) /\ b \in C(a)
  BY <1>2 DEF C
<1>4. C(a) \subseteq C(b) /\ C(b) \subseteq C(a)
  BY <1>1, <1>3
<1> QED
  BY <1>4 DEF C

LEMMA ComparedIsFinite ==
  ASSUME NEW results, AreResults(results)
  PROVE  IsFiniteSet(Compared(results)) /\ Compared(results) \subseteq Hashes
         /\ \A h \in Compared(results) : \E i \in DOMAIN results : results[i].hash = h
<1>1. \A i \in Eligible_(results) : i \in DOMAIN results
  BY DEF Eligible_
<1>2. Compared(results) \subseteq Hashes /\ \A h \in Compared(results) : \E i \in DOMAIN results : results[i].hash = h
  BY <1>1 DEF Compared, Documents, AreResults, IsResult
<1> QED
  BY <1>2, HashesAreFinite, FS_Subset

\* Some member of a family is at least as new as every other (_pick_primary).
LEMMA NewestExists ==
  ASSUME NEW results, AreResults(results), NEW members \in SUBSET Compared(results), members # {}
  PROVE  \E h \in members : \A g \in members : Newer(results, h, g)
<1> DEFINE Time(h) == LastOf(results, DOMAIN results, h).mtime
<1>1. Len(results) \in Nat /\ DOMAIN results = 1 .. Len(results)
  <2>1. results \in Seq({results[i] : i \in DOMAIN results})
    BY DEF AreResults, IsList
  <2> QED
    BY <2>1, LenProperties
<1>2. PICK b \in Nat : \A i \in DOMAIN results : results[i].mtime <= b
  <2> DEFINE f == [i \in DOMAIN results |-> results[i].mtime]
  <2>1. \A i \in 1 .. Len(results) : f[i] \in Nat
    BY <1>1 DEF AreResults, IsResult
  <2>2. \A i \in DOMAIN results : f[i] = results[i].mtime
    OBVIOUS
  <2> HIDE DEF f
  <2>3. \E b \in Nat : \A i \in 1 .. Len(results) : f[i] <= b
    BY <1>1, <2>1, Bounded
  <2> QED
    BY <1>1, <2>2, <2>3
<1>3. \A h \in members : Time(h) \in Nat /\ Time(h) <= b
  <2> SUFFICES ASSUME NEW h \in members PROVE Time(h) \in Nat /\ Time(h) <= b
    OBVIOUS
  <2> DEFINE S == {i \in DOMAIN results : results[i].hash = h}
  <2>1. S \in SUBSET Nat /\ S # {} /\ \A i \in S : i <= Len(results)
    BY <1>1, ComparedIsFinite
  <2>2. Max(S) \in S
    BY <1>1, <2>1, MaxIsGreatest
  <2>3. Max(S) \in DOMAIN results
    BY <2>2
  <2>4. Time(h) = results[Max(S)].mtime
    BY DEF LastOf
  <2> QED
    BY <1>2, <2>3, <2>4 DEF AreResults, IsResult
<1>4. \A h \in members : HashRank(h) \in 1 .. Len(HashOrder)
  <2>1. \A h \in members : \E i \in DOMAIN HashOrder : HashOrder[i] = h
    BY ComparedIsFinite DEF Hashes, ToSet
  <2> QED
    BY <2>1, HashesAreFinite DEF HashRank
<1> HIDE DEF Time
<1> DEFINE Times == {Time(h) : h \in members}
<1>5. PICK latest \in Times : \A t \in Times : t <= latest
  <2>1. Times \in SUBSET Nat /\ Times # {} /\ \A t \in Times : t <= b
    BY <1>3
  <2> HIDE DEF Times
  <2> QED
    BY <1>2, <2>1, Greatest
<1> DEFINE Newest == {h \in members : Time(h) = latest}
           Ranks == {HashRank(h) : h \in Newest}
<1>6. PICK r \in Ranks : \A k \in Ranks : k <= r
  <2>1. Ranks \in SUBSET Nat /\ Ranks # {} /\ \A k \in Ranks : k <= Len(HashOrder)
    BY <1>4, <1>5, HashesAreFinite
  <2> HIDE DEF Ranks
  <2> QED
    BY <2>1, HashesAreFinite, Greatest
<1>7. PICK h \in Newest : r = HashRank(h)
  BY <1>6
<1>8. ASSUME NEW g \in members PROVE Newer(results, h, g)
  <2>0. h \in members /\ Time(h) = latest /\ Time(g) \in Times
    BY <1>7
  <2>1. Time(g) <= Time(h) /\ Time(g) \in Nat /\ Time(h) \in Nat
    BY <1>3, <1>5, <2>0
  <2>2. Time(g) = Time(h) => HashRank(h) >= HashRank(g)
    <3> SUFFICES ASSUME Time(g) = Time(h) PROVE HashRank(h) >= HashRank(g)
      OBVIOUS
    <3>1. g \in Newest
      BY <2>0
    <3>2. HashRank(g) \in Ranks
      BY <3>1
    <3> QED
      BY <1>4, <1>6, <1>7, <2>0, <3>2
  <2> QED
    BY <2>1, <2>2 DEF Newer, Time
<1> QED
  BY <1>7, <1>8

\* A family is a component, its primary and the others.
IsFamily(results, f) ==
  /\ \E h \in Compared(results) : f.members = Component(results, h)
  /\ f.primary \in f.members /\ f.superseded = f.members \ {f.primary}

LEMMA FamiliesAreComponents ==
  ASSUME NEW results, AreResults(results)
  PROVE  /\ \A f \in Families(results) : IsFamily(results, f)
         /\ \A f, g \in Families(results) : f.members = g.members => f = g
<1> DEFINE Primary(m) == CHOOSE h \in m : \A g \in m : Newer(results, h, g)
           FamilyOf(m) == [members |-> m, primary |-> Primary(m), superseded |-> m \ {Primary(m)}]
<1>1. \A f \in Families(results) : \E h \in Compared(results) : f = FamilyOf(Component(results, h))
  BY DEF Families, Compared
<1>2. \A h \in Compared(results) : Primary(Component(results, h)) \in Component(results, h)
  <2> SUFFICES ASSUME NEW h \in Compared(results)
               PROVE  Primary(Component(results, h)) \in Component(results, h)
    OBVIOUS
  <2>1. Component(results, h) \subseteq Compared(results) /\ Component(results, h) # {}
    BY ComparedIsFinite, ComponentIsLeast
  <2>2. \E p \in Component(results, h) : \A g \in Component(results, h) : Newer(results, p, g)
    BY <2>1, NewestExists
  <2> QED
    BY <2>2
<1> HIDE DEF Primary
<1>3. \A f \in Families(results) : f = FamilyOf(f.members)
  BY <1>1
<1>4. ASSUME NEW f \in Families(results) PROVE IsFamily(results, f)
  <2>1. PICK h \in Compared(results) : f = FamilyOf(Component(results, h))
    BY <1>1
  <2>2. f.members = Component(results, h) /\ f.primary = Primary(Component(results, h))
        /\ f.superseded = Component(results, h) \ {Primary(Component(results, h))}
    BY <2>1
  <2> QED
    BY <1>2, <2>2 DEF IsFamily
<1>5. ASSUME NEW f \in Families(results), NEW g \in Families(results), f.members = g.members PROVE f = g
  <2>1. f = FamilyOf(f.members) /\ g = FamilyOf(g.members)
    BY <1>3
  <2> QED
    BY <1>5, <2>1
<1> QED
  BY <1>4, <1>5

\* What is superseded names a primary that is in the batch and superseded by nothing.
LEMMA RoledServes ==
  ASSUME NEW results, AreResults(results)
  PROVE  LET families == Families(results)
             roled == Roled(results, families)
         IN /\ \A i \in DOMAIN roled : roled[i].role = "superseded" =>
                 \E j \in DOMAIN roled : roled[j].hash = roled[i].primary /\ roled[j].role = "primary"
            /\ \A f \in families : \A g \in families : f.primary \notin g.superseded
<1> DEFINE families == Families(results)
           roled == Roled(results, families)
           Above(i) == {f \in families : results[i].hash \in f.superseded}
<1>1. \A f \in families : IsFamily(results, f)
  BY FamiliesAreComponents
<1>2. ASSUME NEW f \in families, NEW g \in families PROVE f.primary \notin g.superseded
  <2> SUFFICES ASSUME f.primary \in g.superseded PROVE FALSE
    OBVIOUS
  <2>1. PICK a \in Compared(results) : f.members = Component(results, a)
    BY <1>1 DEF IsFamily
  <2>2. PICK b \in Compared(results) : g.members = Component(results, b)
    BY <1>1 DEF IsFamily
  <2>3. f.primary \in f.members \cap g.members
    BY <1>1 DEF IsFamily
  <2>4. f.members = g.members
    BY <2>1, <2>2, <2>3, ComparedIsFinite, ComponentsApart
  <2>5. f = g
    BY <2>4, FamiliesAreComponents
  <2> QED
    BY <1>1, <2>5 DEF IsFamily
<1>3. DOMAIN roled = DOMAIN results
  BY DEF Roled
<1>4. \A i \in DOMAIN results :
        roled[i] = IF Above(i) # {} THEN [results[i] EXCEPT !.role = "superseded", !.primary = (CHOOSE f \in Above(i) : TRUE).primary]
                   ELSE IF \E f \in families : f.primary = results[i].hash THEN [results[i] EXCEPT !.role = "primary"] ELSE results[i]
  BY DEF Roled
<1> HIDE DEF roled, families, Above
<1>5. \A i \in DOMAIN results : /\ IsResult(results[i]) /\ roled[i].hash = results[i].hash
                                /\ roled[i].role = "superseded" <=> Above(i) # {}
                                /\ Above(i) # {} => roled[i].primary = (CHOOSE f \in Above(i) : TRUE).primary
                                /\ Above(i) = {} /\ (\E f \in families : f.primary = results[i].hash) => roled[i].role = "primary"
  <2> SUFFICES ASSUME NEW i \in DOMAIN results
               PROVE  /\ IsResult(results[i]) /\ roled[i].hash = results[i].hash
                      /\ roled[i].role = "superseded" <=> Above(i) # {}
                      /\ Above(i) # {} => roled[i].primary = (CHOOSE f \in Above(i) : TRUE).primary
                      /\ Above(i) = {} /\ (\E f \in families : f.primary = results[i].hash) => roled[i].role = "primary"
    OBVIOUS
  <2>1. IsResult(results[i])
    BY DEF AreResults
  <2> DEFINE p == (CHOOSE f \in Above(i) : TRUE).primary
             x == results[i]
  <2>2. /\ [x EXCEPT !.role = "superseded", !.primary = p].hash = x.hash
        /\ [x EXCEPT !.role = "superseded", !.primary = p].role = "superseded"
        /\ [x EXCEPT !.role = "superseded", !.primary = p].primary = p
        /\ [x EXCEPT !.role = "primary"].hash = x.hash
        /\ [x EXCEPT !.role = "primary"].role = "primary"
        /\ x.role = "unique"
    <3> HIDE DEF x, p
    <3>1. IsResult(x)
      BY <2>1 DEF x
    <3> QED
      BY <3>1 DEF IsResult
  <2> HIDE DEF p
  <2>3. roled[i] = IF Above(i) # {} THEN [x EXCEPT !.role = "superseded", !.primary = p]
                   ELSE IF \E f \in families : f.primary = x.hash THEN [x EXCEPT !.role = "primary"] ELSE x
    BY <1>4 DEF p
  <2>4. CASE Above(i) # {}
    BY <2>1, <2>2, <2>3, <2>4 DEF p
  <2>5. CASE Above(i) = {}
    BY <2>1, <2>2, <2>3, <2>5
  <2> QED
    BY <2>4, <2>5
<1>6. ASSUME NEW i \in DOMAIN roled, roled[i].role = "superseded"
      PROVE  \E j \in DOMAIN roled : roled[j].hash = roled[i].primary /\ roled[j].role = "primary"
  <2>1. Above(i) # {}
    BY <1>3, <1>5, <1>6
  <2>2. PICK f \in Above(i) : roled[i].primary = f.primary
    BY <1>3, <1>5, <2>1
  <2>3. f \in families
    BY DEF Above
  <2>4. f.primary \in Compared(results)
    BY <1>1, <2>3, ComparedIsFinite, ComponentIsLeast DEF IsFamily
  <2>5. PICK j \in DOMAIN results : results[j].hash = f.primary
    BY <2>4, ComparedIsFinite
  <2>6. Above(j) = {}
    BY <1>2, <2>3, <2>5 DEF Above
  <2>7. roled[j].role = "primary" /\ roled[j].hash = f.primary
    BY <1>5, <2>3, <2>5, <2>6
  <2> QED
    BY <1>3, <2>2, <2>5, <2>7
<1> QED
  BY <1>2, <1>6 DEF families, roled

\* A file as it is, or as it was last seen.
IsFile(f, path) == f \in [content : Fits[path] \cup {"none"}, mtime : Nat, readable : BOOLEAN]

\* What the stages hand on is about files of the directory, and no role is given before the
\* corpus passes give it.
FamilyInv ==
  /\ Shaped(run) /\ clock = [runs |-> clock.runs, edits |-> clock.edits] /\ clock.edits \in Nat
  /\ DOMAIN files = Paths /\ \A path \in Paths : IsFile(files[path], path)
  /\ run.walk \in Seq(Paths) /\ run.items \in Seq(Items)
  /\ run.stage \in {"idle", "collect", "assess"} => AreResults(run.results)
  /\ FamilyIsServed

LEMMA WalkIn == Walk \in Seq(Paths)
BY OrdersAssumption, PickedIn DEF Walk

LEMMA ItemIn ==
  ASSUME NEW path \in Paths, IsFile(files[path], path), files[path].content # "none"
  PROVE  Item(path) \in Items
<1>1. {path} \cup Fits[path] \subseteq Hashes
  BY HashAssumption
<1> QED
  BY <1>1 DEF Item, Items, IsFile

\* A run that starts, or starts a stage again, has nothing to serve yet.
LEMMA NothingToServe ==
  ASSUME run'.stage \notin {"decompose", "done"}
  PROVE  FamilyIsServed'
BY DEF FamilyIsServed

LEMMA FamilyStep ==
  ASSUME FamilyInv, [CorpusNext]_corpusVars
  PROVE  FamilyInv'
<1> USE DEF FamilyInv
<1>e. AreResults(<<>>) /\ <<>> \in Seq(Items) /\ <<>> \in Seq(Paths)
  BY DEF AreResults, IsList
<1>1. CASE UNCHANGED <<files, run, clock>>
  BY <1>1 DEF FamilyIsServed, Shaped
<1>2. ASSUME Edited PROVE clock'.edits = clock.edits + 1 /\ clock'.edits \in Nat /\ clock' = [runs |-> clock'.runs, edits |-> clock'.edits]
  BY <1>2 DEF Edited
<1>3. ASSUME Edited, UNCHANGED run,
             NEW path \in Paths, NEW f, IsFile(f, path), files' = [files EXCEPT ![path] = f]
      PROVE  FamilyInv'
  <2>1. DOMAIN files' = Paths /\ \A p \in Paths : IsFile(files'[p], p)
    BY <1>3
  <2>2. FamilyIsServed' /\ Shaped(run')
    BY <1>3 DEF FamilyIsServed, Shaped
  <2> QED
    BY <1>2, <1>3, <2>1, <2>2
<1>4. ASSUME NEW path \in Paths, Edit(path) PROVE FamilyInv'
  <2>1. PICK c \in Fits[path] :
          files' = [files EXCEPT ![path] = [content |-> c, mtime |-> clock.edits + 2, readable |-> TRUE]]
    BY <1>4 DEF Edit
  <2>2. IsFile([content |-> c, mtime |-> clock.edits + 2, readable |-> TRUE], path)
    BY DEF IsFile
  <2> QED
    BY <1>3, <1>4, <2>1, <2>2 DEF Edit
<1>5. ASSUME NEW path \in Paths, Deny(path) PROVE FamilyInv'
  <2> DEFINE f == [files[path] EXCEPT !.readable = FALSE]
  <2>1. IsFile(f, path)
    <3>1. IsFile(files[path], path)
      OBVIOUS
    <3> QED
      BY <3>1 DEF IsFile
  <2>2. files' = [files EXCEPT ![path] = f]
    BY <1>5 DEF Deny
  <2> HIDE DEF f
  <2> QED
    BY <1>3, <1>5, <2>1, <2>2 DEF Deny
<1>6. ASSUME NEW path \in Paths, Remove_(path) PROVE FamilyInv'
  <2>1. IsFile(Absent_, path)
    BY DEF IsFile, Absent_
  <2> QED
    BY <1>3, <1>6, <2>1 DEF Remove_
<1>7. CASE Edited /\ UNCHANGED <<files, run>>
  <2>1. FamilyIsServed' /\ Shaped(run')
    BY <1>7 DEF FamilyIsServed, Shaped
  <2> QED
    BY <1>2, <1>7, <2>1
<1>8. CASE SwitchOcr
  BY <1>7, <1>8 DEF SwitchOcr
<1>9. ASSUME NEW hash \in DOMAIN frozen, RemoveArtifacts(hash) PROVE FamilyInv'
  BY <1>7, <1>9 DEF RemoveArtifacts
<1>10. ASSUME NEW kb \in KBs, StartRun(kb) PROVE FamilyInv'
  <2>1. /\ run'.stage = "collect" /\ run'.walk = Walk /\ run'.items = <<>> /\ run'.results = <<>> /\ Shaped(run')
    BY <1>10 DEF StartRun, Idle_, Shaped
  <2>2. clock'.edits = clock.edits /\ clock' = [runs |-> clock'.runs, edits |-> clock'.edits] /\ files' = files
    BY <1>10 DEF StartRun
  <2> QED
    BY <1>e, <2>1, <2>2, WalkIn, NothingToServe
<1>11. CASE CollectFile
  <2> DEFINE path == Head(run.walk)
  <2>1. /\ run.stage = "collect" /\ run.walk # <<>> /\ run'.stage = "collect" /\ run'.walk = Tail(run.walk)
        /\ run'.items = IF files[path].content = "none" THEN run.items ELSE Append(run.items, Item(path))
        /\ run'.results = run.results /\ Shaped(run') /\ UNCHANGED <<files, clock>>
    BY <1>11 DEF CollectFile, Shaped
  <2>2. path \in Paths /\ run'.walk \in Seq(Paths)
    BY <2>1, HeadTailProperties
  <2>3. run'.items \in Seq(Items)
    BY <2>1, <2>2, ItemIn, AppendProperties
  <2> QED
    BY <2>1, <2>2, <2>3, NothingToServe
<1>12. CASE FinishCollect
  <2>1. /\ run.stage = "collect" /\ run'.stage = "assess" /\ run'.walk = run.walk /\ run'.items = Grouped(run.items)
        /\ run'.results = run.results /\ Shaped(run') /\ UNCHANGED <<files, clock>>
    BY ZenonT(60), <1>12 DEF FinishCollect, Shaped
  <2> QED
    BY <2>1, GroupedIn, NothingToServe
<1>13. CASE AssessItem
  <2> DEFINE item == run.items[Len(run.results) + 1]
             Result(parsed) ==
               [hash |-> item.hash, mtime |-> item.mtime, status |-> parsed.status, codes |-> parsed.codes,
                regions |-> parsed.regions, role |-> "unique", primary |-> "none",
                seen |-> files[item.path].content]
  <2>0. \E parsed : run' = [run EXCEPT !.results = Append(@, Result(parsed))]
    BY <1>13 DEF AssessItem
  <2>p. PICK parsed : run' = [run EXCEPT !.results = Append(@, Result(parsed))]
    BY <2>0
  <2> DEFINE new == Result(parsed)
  <2>1. /\ run.stage = "assess" /\ Len(run.results) < Len(run.items)
        /\ run' = [run EXCEPT !.results = Append(@, new)] /\ UNCHANGED <<files, clock>>
    BY <1>13, <2>p DEF AssessItem
  <2>2. item \in Items
    <3>1. Len(run.results) \in Nat
      BY <2>1, Appended DEF AreResults
    <3>2. Len(run.items) \in Nat /\ DOMAIN run.items = 1 .. Len(run.items)
      BY LenProperties
    <3>3. Len(run.results) + 1 \in 1 .. Len(run.items)
      BY <2>1, <3>1, <3>2
    <3> QED
      BY <3>3, ElementOfSeq
  <2>3. IsResult(new)
    BY <2>2 DEF Items, IsResult
  <2> HIDE DEF new
  <2>4. /\ run'.stage = "assess" /\ run'.walk = run.walk /\ run'.items = run.items
        /\ run'.results = Append(run.results, new) /\ Shaped(run')
    BY <2>1 DEF Shaped
  <2>5. AreResults(Append(run.results, new))
    <3>1. AreResults(run.results)
      BY <2>1
    <3>2. \A i \in 1 .. Len(run.results) + 1 : i = Len(run.results) + 1 \/ i \in 1 .. Len(run.results)
      BY <3>1, Appended DEF AreResults
    <3> QED
      BY <2>3, <3>1, <3>2, Appended DEF AreResults
  <2>6. FamilyIsServed'
    BY <2>4, NothingToServe
  <2>7. /\ Shaped(run') /\ clock' = [runs |-> clock'.runs, edits |-> clock'.edits] /\ clock'.edits \in Nat
        /\ DOMAIN files' = Paths /\ \A path \in Paths : IsFile(files'[path], path)
    BY <2>1, <2>4
  <2>8. /\ run'.walk \in Seq(Paths) /\ run'.items \in Seq(Items)
        /\ run'.stage \in {"idle", "collect", "assess"} => AreResults(run'.results)
    BY <2>4, <2>5
  <2> QED
    BY ZenonT(60), <2>6, <2>7, <2>8
<1>14. CASE FinishAssess
  <2> DEFINE families == Families(run.results)
  <2>1. /\ run.stage = "assess" /\ run'.stage = "decompose" /\ run'.results = Roled(run.results, families)
        /\ run'.families = families
        /\ run'.walk = run.walk /\ run'.items = run.items /\ Shaped(run') /\ UNCHANGED <<files, clock>>
    <3> HIDE DEF families
    <3>1. run' = [run EXCEPT !.stage = "decompose", !.results = Roled(@, families), !.families = families,
                             !.blocks = Boilerplate_(run.results)]
      BY <1>14 DEF FinishAssess, families
    <3> QED
      BY <1>14, <3>1 DEF FinishAssess, Shaped
  <2>2. AreResults(run.results)
    BY <2>1
  <2>3. FamilyIsServed'
    BY <2>1, <2>2, RoledServes DEF FamilyIsServed
  <2> QED
    BY <2>1, <2>3
<1>15. CASE DecomposeResult
  <2>1. /\ run.stage = "decompose" /\ run'.stage = run.stage /\ run'.walk = run.walk /\ run'.items = run.items
        /\ run'.results = run.results /\ run'.families = run.families /\ Shaped(run') /\ UNCHANGED <<files, clock>>
    BY <1>15 DEF DecomposeResult, Pending_, Shaped
  <2> QED
    BY <2>1 DEF FamilyIsServed
<1>16. CASE FinishDecompose
  <2>1. /\ run.stage = "decompose" /\ run'.stage = "done" /\ run'.walk = run.walk /\ run'.items = run.items
        /\ run'.results = run.results /\ run'.families = run.families /\ Shaped(run') /\ UNCHANGED <<files, clock>>
    BY <1>16 DEF FinishDecompose, Shaped
  <2> QED
    BY <2>1 DEF FamilyIsServed
<1>17. CASE Crash_
  <2>1. run' = Restarted /\ Edited /\ UNCHANGED files /\ run.stage \in {"collect", "assess", "decompose"}
    BY <1>17 DEF Crash_
  <2>2. CASE run.stage = "collect"
    <3>1. run'.stage = "collect" /\ run'.walk = Walk /\ run'.items = <<>> /\ run'.results = run.results /\ Shaped(run')
      BY <2>1, <2>2 DEF Restarted, Shaped
    <3> QED
      BY <1>2, <1>e, <2>1, <2>2, <3>1, WalkIn, NothingToServe
  <2>3. CASE run.stage = "assess"
    <3>1. run'.stage = "assess" /\ run'.walk = run.walk /\ run'.items = run.items /\ run'.results = <<>> /\ Shaped(run')
      BY <2>1, <2>3 DEF Restarted, Shaped
    <3> QED
      BY <1>2, <1>e, <2>1, <3>1, NothingToServe
  <2>4. CASE run.stage = "decompose"
    <3>1. /\ run'.stage = "decompose" /\ run'.walk = run.walk /\ run'.items = run.items /\ run'.results = run.results
          /\ run'.families = run.families /\ Shaped(run')
      BY <2>1, <2>4 DEF Restarted, Shaped
    <3>2. FamilyIsServed'
      BY <2>4, <3>1 DEF FamilyIsServed
    <3> QED
      BY <1>2, <2>1, <3>1, <3>2
  <2> QED
    BY <2>1, <2>2, <2>3, <2>4
<1>18. CASE UNCHANGED corpusVars
  BY <1>1, <1>18 DEF corpusVars
<1> QED
  BY <1>4, <1>5, <1>6, <1>8, <1>9, <1>10, <1>11, <1>12, <1>13, <1>14, <1>15, <1>16, <1>17, <1>18 DEF CorpusNext

\* However versions chain, copies repeat and files change between collect and assess: a
\* document is left out only for one that is in the batch and is itself left in
\* (compute_version_families, run_corpus_passes).
THEOREM FamiliesAreServed == CorpusSpec => []FamilyIsServed
<1>1. CorpusInit => FamilyInv
  <2> SUFFICES ASSUME CorpusInit PROVE FamilyInv
    OBVIOUS
  <2>1. DOMAIN files = Paths /\ \A path \in Paths : IsFile(files[path], path)
    <3>1. files \in [Paths -> {Absent_} \cup {[content |-> c, mtime |-> 1, readable |-> TRUE] : c \in DOMAIN Content}]
          /\ \A path \in Paths : files[path].content \in Fits[path] \cup {"none"}
      BY DEF CorpusInit, CorpusFrom, Fitting
    <3>2. ASSUME NEW path \in Paths PROVE IsFile(files[path], path)
      <4>1. files[path] = Absent_ \/ \E c \in DOMAIN Content : files[path] = [content |-> c, mtime |-> 1, readable |-> TRUE]
        BY <3>1
      <4>2. CASE files[path] = Absent_
        BY <4>2 DEF IsFile, Absent_
      <4>3. ASSUME NEW c \in DOMAIN Content, files[path] = [content |-> c, mtime |-> 1, readable |-> TRUE]
            PROVE  IsFile(files[path], path)
        <5>1. c \in Fits[path] \cup {"none"}
          BY <3>1, <4>3
        <5> QED
          BY <4>3, <5>1 DEF IsFile
      <4> QED
        BY <4>1, <4>2, <4>3
    <3> QED
      BY <3>1, <3>2
  <2>2. /\ run.stage = "idle" /\ run.walk = <<>> /\ run.items = <<>> /\ run.results = <<>> /\ Shaped(run)
        /\ clock = [runs |-> 0, edits |-> 0]
    BY DEF CorpusInit, CorpusFrom, Idle_, Shaped
  <2>3. AreResults(<<>>) /\ <<>> \in Seq(Items) /\ <<>> \in Seq(Paths)
    BY DEF AreResults, IsList
  <2> QED
    BY <2>1, <2>2, <2>3 DEF FamilyInv, FamilyIsServed
<1>2. FamilyInv /\ [CorpusNext]_corpusVars => FamilyInv'
  BY FamilyStep
<1>3. FamilyInv => FamilyIsServed
  BY DEF FamilyInv
<1> QED
  BY <1>1, <1>2, <1>3, PTL DEF CorpusSpec
-----------------------------------------------------------------------------
(* The plan: whatever is read off the measurements depends on which segments   *)
(* there are, and not on where they stand in the list.                         *)

\* The places of the segments in the lists of K.
PlacesIn(ss, K) == {p \in K \X Nat : p[2] \in DOMAIN ss[p[1]]}

\* The list m holds exactly the segments of the lists of K.
LaidBy(g, m, ss, K) ==
  /\ g \in [DOMAIN m -> PlacesIn(ss, K)]
  /\ \A i, j \in DOMAIN m : g[i] = g[j] => i = j
  /\ \A p \in PlacesIn(ss, K) : \E i \in DOMAIN m : g[i] = p
  /\ \A i \in DOMAIN m : m[i] = ss[g[i][1]][g[i][2]]
Laid(m, ss, K) == IsList(m) /\ \E g : LaidBy(g, m, ss, K)

\* Two lists, or two families of values, are the same but for the places.
ShuffledBy(g, v, w) ==
  /\ g \in [DOMAIN v -> DOMAIN w]
  /\ \A i, j \in DOMAIN v : g[i] = g[j] => i = j
  /\ \A k \in DOMAIN w : \E i \in DOMAIN v : g[i] = k
  /\ \A i \in DOMAIN v : v[i] = w[g[i]]
Shuffled(v, w) == IsFiniteSet(DOMAIN v) /\ \E g : ShuffledBy(g, v, w)

LEMMA ListDomain ==
  ASSUME NEW s, IsList(s)
  PROVE  Len(s) \in Nat /\ DOMAIN s = 1 .. Len(s) /\ IsFiniteSet(DOMAIN s)
<1>1. s \in Seq({s[i] : i \in DOMAIN s})
  BY DEF IsList
<1>2. Len(s) \in Nat /\ DOMAIN s = 1 .. Len(s)
  BY <1>1, LenProperties
<1> QED
  BY <1>2, FS_Interval

\* Putting one list behind another.
LEMMA Concatenated ==
  ASSUME NEW s, NEW t, IsList(s), IsList(t)
  PROVE  /\ IsList(s \o t) /\ Len(s \o t) = Len(s) + Len(t)
         /\ \A i \in 1 .. Len(s \o t) : (s \o t)[i] = IF i <= Len(s) THEN s[i] ELSE t[i - Len(s)]
<1> DEFINE S == {s[i] : i \in DOMAIN s} \cup {t[i] : i \in DOMAIN t}
           u == s \o t
<1>1. s \in Seq(S) /\ t \in Seq(S)
  BY DEF IsList
<1>2. /\ u \in Seq(S) /\ Len(u) = Len(s) + Len(t)
      /\ \A i \in 1 .. Len(u) : u[i] = IF i <= Len(s) THEN s[i] ELSE t[i - Len(s)]
  BY <1>1, ConcatProperties
<1> HIDE DEF u
<1>3. IsList(u)
  BY ZenonT(60), <1>2, ListIn
<1> QED
  BY ZenonT(60), <1>2, <1>3 DEF u

\* A set that is carried to another one to one is as large.
LEMMA AsLarge ==
  ASSUME NEW A, NEW B, NEW f \in [A -> B], IsFiniteSet(A),
         \A x, y \in A : f[x] = f[y] => x = y, \A z \in B : \E x \in A : f[x] = z
  PROVE  Cardinality(A) = Cardinality(B) /\ IsFiniteSet(B)
<1>1. f \in Bijection(A, B)
  BY DEF Bijection, Injection, Surjection, IsInjective
<1>2. ExistsBijection(A, B)
  BY <1>1 DEF ExistsBijection
<1> QED
  BY <1>2, FS_Bijection

\* Before the first list there is nothing.
LEMMA LaidFirst ==
  ASSUME NEW ss
  PROVE  Laid(<<>>, ss, {})
<1>1. IsList(<<>>) /\ DOMAIN <<>> = {}
  BY DEF IsList
<1>2. LaidBy(<<>>, <<>>, ss, {})
  BY <1>1 DEF LaidBy, PlacesIn
<1> QED
  BY <1>1, <1>2 DEF Laid

\* The next list is put behind those before it.
LEMMA LaidMore ==
  ASSUME NEW m, NEW ss, NEW K, Laid(m, ss, K), NEW k, k \notin K, IsList(ss[k])
  PROVE  Laid(m \o ss[k], ss, K \cup {k})
<1> DEFINE n == Len(m)
           t == ss[k]
           u == m \o t
           L == K \cup {k}
<1>1. PICK g : LaidBy(g, m, ss, K)
  BY DEF Laid
<1>2. n \in Nat /\ DOMAIN m = 1 .. n /\ Len(t) \in Nat /\ DOMAIN t = 1 .. Len(t)
  BY ListDomain DEF Laid
<1>3. /\ IsList(u) /\ Len(u) = n + Len(t)
      /\ \A i \in 1 .. Len(u) : u[i] = IF i <= n THEN m[i] ELSE t[i - n]
  BY Concatenated DEF Laid
<1>4. DOMAIN u = 1 .. n + Len(t)
  BY <1>3, ListDomain
<1> HIDE DEF u
<1> DEFINE h == [i \in DOMAIN u |-> IF i <= n THEN g[i] ELSE <<k, i - n>>]
<1>5. ASSUME NEW i \in DOMAIN u, i <= n
      PROVE  i \in DOMAIN m /\ h[i] = g[i] /\ h[i] \in PlacesIn(ss, K) /\ u[i] = m[i]
  <2>1. i \in DOMAIN m
    BY <1>2, <1>4, <1>5
  <2> QED
    BY <1>1, <1>3, <1>4, <1>5, <2>1, <1>2 DEF LaidBy
<1>6. ASSUME NEW i \in DOMAIN u, ~(i <= n)
      PROVE  i - n \in DOMAIN t /\ i - n \in Nat /\ h[i] = <<k, i - n>> /\ u[i] = t[i - n]
  BY <1>2, <1>3, <1>4, <1>6
<1>b. ASSUME NEW j \in DOMAIN t PROVE h[n + j] = <<k, j>>
  <2> DEFINE w == n + j
  <2>1. w \in DOMAIN u /\ ~(w <= n) /\ w - n = j
    BY <1>2, <1>4
  <2> HIDE DEF w
  <2>2. h[w] = IF w <= n THEN g[w] ELSE <<k, w - n>>
    BY <2>1
  <2> HIDE DEF h
  <2>3. h[w] = <<k, j>>
    BY <2>1, <2>2
  <2> QED
    BY <2>3 DEF w
<1>7. \A p \in PlacesIn(ss, K) : p \in PlacesIn(ss, L) /\ p[1] # k
  BY DEF PlacesIn
<1>8. \A j \in DOMAIN t : <<k, j>> \in PlacesIn(ss, L)
  BY <1>2 DEF PlacesIn
<1>9. h \in [DOMAIN u -> PlacesIn(ss, L)]
  <2>1. \A i \in DOMAIN u : h[i] \in PlacesIn(ss, L)
    BY <1>5, <1>6, <1>7, <1>8
  <2> QED
    BY <2>1
<1>10. \A p \in PlacesIn(ss, L) : p \in PlacesIn(ss, K) \/ (p[2] \in DOMAIN t /\ p = <<k, p[2]>>)
  BY DEF PlacesIn
<1> HIDE DEF h
<1>11. ASSUME NEW i \in DOMAIN u, NEW j \in DOMAIN u, h[i] = h[j] PROVE i = j
  <2>1. CASE i <= n /\ j <= n
    BY <1>1, <1>5, <1>11, <2>1 DEF LaidBy
  <2>2. CASE ~(i <= n) /\ ~(j <= n)
    <3>1. i - n = j - n /\ i \in Int /\ j \in Int
      BY <1>4, <1>2, <1>6, <1>11, <2>2
    <3> QED
      BY <1>2, <3>1
  <2>3. CASE i <= n /\ ~(j <= n)
    BY <1>5, <1>6, <1>7, <1>11, <2>3
  <2>4. CASE ~(i <= n) /\ j <= n
    BY <1>5, <1>6, <1>7, <1>11, <2>4
  <2> QED
    BY <2>1, <2>2, <2>3, <2>4
<1>12. ASSUME NEW p \in PlacesIn(ss, L) PROVE \E i \in DOMAIN u : h[i] = p
  <2>1. CASE p \in PlacesIn(ss, K)
    <3>1. PICK i \in DOMAIN m : g[i] = p
      BY <1>1, <2>1 DEF LaidBy
    <3>2. i \in DOMAIN u /\ i <= n
      BY <1>2, <1>4
    <3> QED
      BY <1>5, <3>1, <3>2
  <2>2. CASE p[2] \in DOMAIN t /\ p = <<k, p[2]>>
    <3>1. n + p[2] \in DOMAIN u /\ ~(n + p[2] <= n) /\ n + p[2] - n = p[2]
      BY <1>2, <1>4, <2>2
    <3>2. h[n + p[2]] = <<k, p[2]>>
      BY ZenonT(60), <2>2, <1>b
    <3>3. h[n + p[2]] = p
      BY ZenonT(60), <2>2, <3>2
    <3> QED
      BY ZenonT(60), <3>1, <3>3
  <2> QED
    BY <1>10, <2>1, <2>2
<1>13. ASSUME NEW i \in DOMAIN u PROVE u[i] = ss[h[i][1]][h[i][2]]
  <2>1. CASE i <= n
    BY <1>1, <1>5, <2>1 DEF LaidBy
  <2>2. CASE ~(i <= n)
    BY <1>6, <2>2
  <2> QED
    BY <2>1, <2>2
<1> QED
  BY <1>3, <1>9, <1>11, <1>12, <1>13 DEF Laid, LaidBy, u

\* Two lists of the same segments differ in the places only.
LEMMA LaidAlike ==
  ASSUME NEW a, NEW b, NEW ss, NEW K, Laid(a, ss, K), Laid(b, ss, K)
  PROVE  Shuffled(a, b)
<1>1. PICK g : LaidBy(g, a, ss, K)
  BY DEF Laid
<1>2. PICK h : LaidBy(h, b, ss, K)
  BY DEF Laid
<1> DEFINE f == [i \in DOMAIN a |-> CHOOSE k \in DOMAIN b : h[k] = g[i]]
<1>3. ASSUME NEW i \in DOMAIN a PROVE f[i] \in DOMAIN b /\ h[f[i]] = g[i]
  <2>1. \E k \in DOMAIN b : h[k] = g[i]
    BY <1>1, <1>2 DEF LaidBy
  <2> QED
    BY <2>1
<1>4. f \in [DOMAIN a -> DOMAIN b]
  BY <1>3
<1> HIDE DEF f
<1>5. \A i, j \in DOMAIN a : f[i] = f[j] => i = j
  BY <1>1, <1>3 DEF LaidBy
<1>6. ASSUME NEW k \in DOMAIN b PROVE \E i \in DOMAIN a : f[i] = k
  <2>1. h[k] \in PlacesIn(ss, K)
    BY <1>2 DEF LaidBy
  <2>2. PICK i \in DOMAIN a : g[i] = h[k]
    BY <1>1, <2>1 DEF LaidBy
  <2> QED
    BY <1>2, <1>3, <2>2 DEF LaidBy
<1>7. \A i \in DOMAIN a : a[i] = b[f[i]]
  BY <1>1, <1>2, <1>3 DEF LaidBy
<1>8. IsFiniteSet(DOMAIN a)
  BY ListDomain DEF Laid
<1> QED
  BY <1>4, <1>5, <1>6, <1>7, <1>8 DEF Shuffled, ShuffledBy

\* What is read off is the same, whatever the places are.
LEMMA SameValues ==
  ASSUME NEW v, NEW w, Shuffled(v, w)
  PROVE  /\ HowMany(v) = HowMany(w) /\ (DOMAIN v = {} <=> DOMAIN w = {})
         /\ {v[i] : i \in DOMAIN v} = {w[i] : i \in DOMAIN w}
<1>1. PICK g : ShuffledBy(g, v, w)
  BY DEF Shuffled
<1>2. HowMany(v) = HowMany(w)
  BY <1>1, AsLarge DEF Shuffled, ShuffledBy, HowMany
<1>3. \A i \in DOMAIN v : g[i] \in DOMAIN w /\ v[i] = w[g[i]]
  BY <1>1 DEF ShuffledBy
<1>4. \A k \in DOMAIN w : \E i \in DOMAIN v : g[i] = k /\ v[i] = w[k]
  BY <1>1 DEF ShuffledBy
<1>5. DOMAIN v = {} <=> DOMAIN w = {}
  BY <1>3, <1>4
<1>6. {v[i] : i \in DOMAIN v} = {w[i] : i \in DOMAIN w}
  BY <1>3, <1>4
<1> QED
  BY <1>2, <1>5, <1>6

LEMMA SameCounts ==
  ASSUME NEW v, NEW w, Shuffled(v, w), NEW x
  PROVE  Cardinality({i \in DOMAIN v : v[i] <= x}) = Cardinality({i \in DOMAIN w : w[i] <= x})
<1> DEFINE A == {i \in DOMAIN v : v[i] <= x}
           B == {i \in DOMAIN w : w[i] <= x}
<1>1. PICK g : ShuffledBy(g, v, w)
  BY DEF Shuffled
<1> DEFINE f == [i \in A |-> g[i]]
<1>2. f \in [A -> B]
  BY <1>1 DEF ShuffledBy
<1>3. \A i, j \in A : f[i] = f[j] => i = j
  BY <1>1 DEF ShuffledBy
<1>4. ASSUME NEW k \in B PROVE \E i \in A : f[i] = k
  BY <1>1 DEF ShuffledBy
<1>5. IsFiniteSet(A)
  BY FS_Subset DEF Shuffled
<1> HIDE DEF A, B, f
<1>6. Cardinality(A) = Cardinality(B)
  BY <1>2, <1>3, <1>4, <1>5, AsLarge
<1> QED
  BY <1>6 DEF A, B

LEMMA SameRank ==
  ASSUME NEW v, NEW w, Shuffled(v, w), NEW k
  PROVE  Ranked_(v, k) = Ranked_(w, k)
<1> DEFINE C(x) == Cardinality({i \in DOMAIN v : v[i] <= x})
           D(x) == Cardinality({i \in DOMAIN w : w[i] <= x})
           R == {v[i] : i \in DOMAIN v}
           Q == {w[i] : i \in DOMAIN w}
<1>1. R = Q
  BY ZenonT(60), SameValues
<1>2. \A x : C(x) = D(x)
  BY SameCounts
<1>3. Ranked_(v, k) = Min({x \in R : C(x) >= k}) /\ Ranked_(w, k) = Min({x \in Q : D(x) >= k})
  BY DEF Ranked_
<1> HIDE DEF C, D, R, Q
<1>4. {x \in R : C(x) >= k} = {x \in Q : D(x) >= k}
  BY <1>1, <1>2
<1> QED
  BY <1>3, <1>4

LEMMA SameQuantile ==
  ASSUME NEW v, NEW w, Shuffled(v, w), NEW p
  PROVE  Quantile(v, p) = Quantile(w, p)
BY SameValues, SameRank DEF Quantile

\* The sum of numbers, counted out.
LEMMA SameTotal ==
  ASSUME NEW v, NEW w, Shuffled(v, w), \A i \in DOMAIN v : v[i] \in Nat
  PROVE  Total(v) = Total(w)
<1> DEFINE A == UNION {{i} \X (1 .. v[i]) : i \in DOMAIN v}
           B == UNION {{i} \X (1 .. w[i]) : i \in DOMAIN w}
<1>1. PICK g : ShuffledBy(g, v, w)
  BY DEF Shuffled
<1>2. \A p : p \in A <=> p[1] \in DOMAIN v /\ p[2] \in 1 .. v[p[1]] /\ p = <<p[1], p[2]>>
  OBVIOUS
<1>3. \A p : p \in B <=> p[1] \in DOMAIN w /\ p[2] \in 1 .. w[p[1]] /\ p = <<p[1], p[2]>>
  OBVIOUS
<1>4. IsFiniteSet(A)
  <2> DEFINE S == {{i} \X (1 .. v[i]) : i \in DOMAIN v}
             h == [i \in DOMAIN v |-> {i} \X (1 .. v[i])]
  <2>1. h \in Surjection(DOMAIN v, S)
    BY DEF Surjection
  <2>2. IsFiniteSet(S)
    BY <2>1, FS_Surjection DEF Shuffled
  <2>3. ASSUME NEW i \in DOMAIN v PROVE IsFiniteSet({i} \X (1 .. v[i]))
    <3>1. 1 \in Int /\ v[i] \in Int
      OBVIOUS
    <3>2. IsFiniteSet(1 .. v[i])
      BY <3>1, FS_Interval
    <3>3. IsFiniteSet({i})
      BY FS_Singleton
    <3> QED
      BY <3>2, <3>3, FS_Product
  <2> QED
    BY <2>2, <2>3, FS_UNION
<1> HIDE DEF A, B
<1> DEFINE f == [p \in A |-> <<g[p[1]], p[2]>>]
<1>5. f \in [A -> B]
  <2> SUFFICES ASSUME NEW p \in A PROVE <<g[p[1]], p[2]>> \in B
    OBVIOUS
  <2>1. g[p[1]] \in DOMAIN w /\ w[g[p[1]]] = v[p[1]]
    BY <1>1, <1>2 DEF ShuffledBy
  <2> QED
    BY <1>2, <1>3, <2>1
<1>6. ASSUME NEW p \in A, NEW q \in A, f[p] = f[q] PROVE p = q
  <2>1. g[p[1]] = g[q[1]] /\ p[2] = q[2]
    BY <1>6
  <2>2. p[1] = q[1]
    BY <1>1, <1>2, <2>1 DEF ShuffledBy
  <2> QED
    BY <1>2, <2>1, <2>2
<1>7. ASSUME NEW q \in B PROVE \E p \in A : f[p] = q
  <2>1. PICK i \in DOMAIN v : g[i] = q[1]
    BY <1>1, <1>3 DEF ShuffledBy
  <2>2. v[i] = w[q[1]]
    BY <1>1, <2>1 DEF ShuffledBy
  <2>3. <<i, q[2]>> \in A
    BY <1>2, <1>3, <2>1, <2>2
  <2>4. f[<<i, q[2]>>] = q
    BY <1>3, <2>1, <2>3
  <2> QED
    BY <2>3, <2>4
<1> HIDE DEF f
<1>8. Cardinality(A) = Cardinality(B)
  BY <1>4, <1>5, <1>6, <1>7, AsLarge
<1> QED
  BY <1>8 DEF Total, A, B

\* A part of what is shuffled, and what is read off that part.
LEMMA PartShuffled ==
  ASSUME NEW a, NEW b, NEW g, ShuffledBy(g, a, b), IsFiniteSet(DOMAIN a), NEW v, NEW w,
         \A i \in DOMAIN v : i \in DOMAIN a, \A k \in DOMAIN w : k \in DOMAIN b,
         \A i \in DOMAIN a : i \in DOMAIN v <=> g[i] \in DOMAIN w,
         \A i \in DOMAIN v : v[i] = w[g[i]]
  PROVE  Shuffled(v, w)
<1> DEFINE f == [i \in DOMAIN v |-> g[i]]
<1>1. f \in [DOMAIN v -> DOMAIN w]
  OBVIOUS
<1>2. \A i, j \in DOMAIN v : f[i] = f[j] => i = j
  BY DEF ShuffledBy
<1>3. \A k \in DOMAIN w : \E i \in DOMAIN v : f[i] = k
  BY DEF ShuffledBy
<1>4. \A i \in DOMAIN v : v[i] = w[f[i]]
  OBVIOUS
<1>5. IsFiniteSet(DOMAIN v)
  BY FS_Subset
<1> QED
  BY <1>1, <1>2, <1>3, <1>4, <1>5 DEF Shuffled, ShuffledBy

LEMMA MeasuresShuffled ==
  ASSUME NEW a, NEW b, Shuffled(a, b), NEW class
  PROVE  /\ Shuffled(Tokens(a, class), Tokens(b, class))
         /\ Shuffled(Confidences(a, class), Confidences(b, class))
         /\ Shuffled(Depths(a, class), Depths(b, class))
         /\ Of(a, class) = {} <=> Of(b, class) = {}
<1>1. PICK g : ShuffledBy(g, a, b)
  BY DEF Shuffled
<1>2. \A i \in DOMAIN a : g[i] \in DOMAIN b /\ a[i] = b[g[i]]
  BY <1>1 DEF ShuffledBy
<1>0. IsFiniteSet(DOMAIN a)
  BY DEF Shuffled
<1>3. Shuffled(Tokens(a, class), Tokens(b, class))
  <2> DEFINE v == Tokens(a, class)
             w == Tokens(b, class)
  <2>1. /\ \A i : i \in DOMAIN v <=> i \in DOMAIN a /\ a[i].class = class /\ a[i].tokens >= 0
        /\ \A i : i \in DOMAIN w <=> i \in DOMAIN b /\ b[i].class = class /\ b[i].tokens >= 0
        /\ \A i \in DOMAIN v : v[i] = a[i].tokens
        /\ \A i \in DOMAIN w : w[i] = b[i].tokens
    BY DEF Tokens, Of
  <2> HIDE DEF v, w
  <2>2. \A i \in DOMAIN a : i \in DOMAIN v <=> g[i] \in DOMAIN w
    BY <1>2, <2>1
  <2>3. \A i \in DOMAIN v : v[i] = w[g[i]]
    BY <1>2, <2>1, <2>2
  <2>4. (\A i \in DOMAIN v : i \in DOMAIN a) /\ \A k \in DOMAIN w : k \in DOMAIN b
    BY <2>1
  <2>5. Shuffled(v, w)
    BY <1>1, <1>0, <2>2, <2>3, <2>4, PartShuffled
  <2> QED
    BY <2>5 DEF v, w
<1>4. Shuffled(Confidences(a, class), Confidences(b, class))
  <2> DEFINE v == Confidences(a, class)
             w == Confidences(b, class)
  <2>1. /\ \A i : i \in DOMAIN v <=> i \in DOMAIN a /\ a[i].class = class /\ a[i].conf >= 0
        /\ \A i : i \in DOMAIN w <=> i \in DOMAIN b /\ b[i].class = class /\ b[i].conf >= 0
        /\ \A i \in DOMAIN v : v[i] = a[i].conf
        /\ \A i \in DOMAIN w : w[i] = b[i].conf
    BY DEF Confidences, Of
  <2> HIDE DEF v, w
  <2>2. \A i \in DOMAIN a : i \in DOMAIN v <=> g[i] \in DOMAIN w
    BY <1>2, <2>1
  <2>3. \A i \in DOMAIN v : v[i] = w[g[i]]
    BY <1>2, <2>1, <2>2
  <2>4. (\A i \in DOMAIN v : i \in DOMAIN a) /\ \A k \in DOMAIN w : k \in DOMAIN b
    BY <2>1
  <2>5. Shuffled(v, w)
    BY <1>1, <1>0, <2>2, <2>3, <2>4, PartShuffled
  <2> QED
    BY <2>5 DEF v, w
<1>5. Shuffled(Depths(a, class), Depths(b, class))
  <2> DEFINE v == Depths(a, class)
             w == Depths(b, class)
  <2>1. /\ \A i : i \in DOMAIN v <=> i \in DOMAIN a /\ a[i].class = class
        /\ \A i : i \in DOMAIN w <=> i \in DOMAIN b /\ b[i].class = class
        /\ \A i \in DOMAIN v : v[i] = a[i].depth
        /\ \A i \in DOMAIN w : w[i] = b[i].depth
    BY DEF Depths, Of
  <2> HIDE DEF v, w
  <2>2. \A i \in DOMAIN a : i \in DOMAIN v <=> g[i] \in DOMAIN w
    BY <1>2, <2>1
  <2>3. \A i \in DOMAIN v : v[i] = w[g[i]]
    BY <1>2, <2>1, <2>2
  <2>4. (\A i \in DOMAIN v : i \in DOMAIN a) /\ \A k \in DOMAIN w : k \in DOMAIN b
    BY <2>1
  <2>5. Shuffled(v, w)
    BY <1>1, <1>0, <2>2, <2>3, <2>4, PartShuffled
  <2> QED
    BY <2>5 DEF v, w
<1>6. Of(a, class) = {} <=> Of(b, class) = {}
  <2>1. DOMAIN Depths(a, class) = Of(a, class) /\ DOMAIN Depths(b, class) = Of(b, class)
    BY DEF Depths
  <2>2. DOMAIN Depths(a, class) = {} <=> DOMAIN Depths(b, class) = {}
    BY <1>5, SameValues
  <2> QED
    BY <2>1, <2>2
<1> QED
  BY <1>3, <1>4, <1>5, <1>6

\* Whatever the order of the segments, they give the same rules for the same classes.
LEMMA RulesAlike ==
  ASSUME NEW a, NEW b, Shuffled(a, b), \A i \in DOMAIN a : a[i].depth \in Nat, NEW file
  PROVE  Observed(a) = Observed(b) /\ \A class : Rule(a, file, class) = Rule(b, file, class)
<1>1. \A class : Of(a, class) = {} <=> Of(b, class) = {}
  BY MeasuresShuffled
<1>2. Observed(a) = Observed(b)
  <2>1. {class \in Classes : Of(a, class) # {}} = {class \in Classes : Of(b, class) # {}}
    BY <1>1
  <2> QED
    BY <2>1 DEF Observed
<1>3. ASSUME NEW class PROVE MaxTokens(a, class) = MaxTokens(b, class)
  <2> DEFINE v == Tokens(a, class)
             w == Tokens(b, class)
  <2>1. Shuffled(v, w)
    BY MeasuresShuffled
  <2>2. HowMany(v) = HowMany(w) /\ Quantile(v, 90) = Quantile(w, 90)
    BY <2>1, SameValues, SameQuantile
  <2> QED
    BY <2>2 DEF MaxTokens
<1>4. ASSUME NEW class PROVE ConfidenceFloor(a, class) = ConfidenceFloor(b, class)
  <2> DEFINE v == Confidences(a, class)
             w == Confidences(b, class)
  <2>1. Shuffled(v, w)
    BY MeasuresShuffled
  <2>2. /\ HowMany(v) = HowMany(w) /\ Quantile(v, 10) = Quantile(w, 10) /\ Ranked_(v, 1) = Ranked_(w, 1)
        /\ (DOMAIN v = {}) = (DOMAIN w = {})
    BY <2>1, SameValues, SameQuantile, SameRank
  <2> QED
    BY <2>2 DEF ConfidenceFloor
<1>5. ASSUME NEW class PROVE HasHeadings(a, class) = HasHeadings(b, class)
  <2> DEFINE v == Depths(a, class)
             w == Depths(b, class)
  <2>0. \A i \in DOMAIN v : v[i] \in Nat
    BY DEF Depths, Of
  <2>1. Shuffled(v, w) /\ \A i \in DOMAIN v : v[i] \in Nat
    BY <2>0, MeasuresShuffled
  <2>2. HowMany(v) = HowMany(w) /\ Total(v) = Total(w) /\ (DOMAIN v = {} <=> DOMAIN w = {})
    BY <2>1, SameValues, SameTotal
  <2> QED
    BY <1>1, <2>2 DEF HasHeadings
<1>6. \A class : Breadcrumb(a, class) = Breadcrumb(b, class)
  BY <1>5 DEF Breadcrumb
<1>7. \A class : Plain(a, file, class) = Plain(b, file, class)
  BY <1>3 DEF Plain
<1>8. ASSUME NEW class PROVE Rule(a, file, class) = Rule(b, file, class)
  <2>1. /\ ProseRule(a, file) = ProseRule(b, file) /\ TableRule(a, file) = TableRule(b, file)
        /\ CodeRule(a, file) = CodeRule(b, file) /\ CrossReferenceRule(a, file) = CrossReferenceRule(b, file)
    BY <1>6, <1>7 DEF ProseRule, TableRule, CodeRule, CrossReferenceRule
  <2>2. ScannedRule(a, file) = ScannedRule(b, file)
    BY <1>4, <1>7 DEF ScannedRule
  <2>3. FrameRule(a, file, class) = FrameRule(b, file, class) /\ GenericRule(a, file, class) = GenericRule(b, file, class)
    BY <1>6, <1>7 DEF FrameRule, GenericRule
  <2> QED
    BY <2>1, <2>2, <2>3 DEF Rule
<1> QED
  BY <1>2, <1>8

OneImageMore(f, A, m) == {f[i] : i \in A \cup {m}} = {f[i] : i \in A} \cup {f[m]}
\* What is reached from one more index.
LEMMA ImagesMore == ASSUME NEW f, NEW A, NEW m PROVE OneImageMore(f, A, m)
BY DEF OneImageMore

\* The lists one after the other, in any order.
LEMMA FlattenedLaid ==
  ASSUME NEW n \in Nat, NEW ss, \A i \in 1 .. n : IsList(ss[i]), NEW order \in [1 .. n -> 1 .. n],
         \A i, j \in 1 .. n : order[i] = order[j] => i = j,
         NEW tt, IsList(tt), Len(tt) = n, \A i \in 1 .. n : tt[i] = ss[order[i]]
  PROVE  Laid(FlattenSeq(tt), ss, 1 .. n)
<1> DEFINE Before(m) == {order[i] : i \in 1 .. m}
<1>1. DOMAIN tt = 1 .. n
  BY ListDomain
<1>2. CASE n = 0
  <2>1. tt = <<>> /\ FlattenSeq(tt) = tt
    BY <1>2 DEF FlattenSeq, IsList
  <2>2. 1 .. n = {}
    BY <1>2
  <2> QED
    BY <2>1, <2>2, LaidFirst
<1>3. CASE n # 0
  <2>1. \E f : /\ FlattenSeq(tt) = f[Len(tt)]
               /\ \A i \in 1 .. Len(tt) : f[i] = IF i = 1 THEN tt[i] ELSE f[i - 1] \o tt[i]
    <3>1. Len(tt) # 0
      BY <1>3
    <3> QED
      BY <3>1, Unfolded
  <2>2. PICK f : /\ FlattenSeq(tt) = f[n]
                 /\ \A i \in 1 .. n : f[i] = IF i = 1 THEN tt[i] ELSE f[i - 1] \o tt[i]
    BY <2>1
  <2> DEFINE S == {m \in 1 .. n : Laid(f[m], ss, Before(m))}
  <2>3. ASSUME NEW m \in 1 .. n, m = 1 \/ m - 1 \in S PROVE m \in S
    <3> DEFINE k == order[m]
    <3>1. k \in 1 .. n /\ IsList(ss[k]) /\ tt[m] = ss[k]
      BY <1>1
    <3>2. CASE m = 1
      <4>1. f[m] = ss[k] /\ Before(m) = {} \cup {k}
        BY <2>2, <3>1, <3>2
      <4>2. <<>> \o ss[k] = ss[k]
        BY <3>1, ConcatEmptySeq DEF IsList
      <4>3. Laid(<<>> \o ss[k], ss, {} \cup {k})
        BY <3>1, LaidFirst, LaidMore
      <4> QED
        BY ZenonT(60), <4>1, <4>2, <4>3
    <3>3. CASE m # 1
      <4>1. m - 1 \in 1 .. n /\ 1 .. m = (1 .. m - 1) \cup {m} /\ m \notin 1 .. m - 1 /\ 1 .. m - 1 \subseteq 1 .. n
        <5>1. m \in Nat \ {0} /\ n \in Nat /\ m <= n
          OBVIOUS
        <5>2. m - 1 \in 1 .. n
          BY <3>3, <5>1
        <5>3. 1 .. m = (1 .. m - 1) \cup {m} /\ m \notin 1 .. m - 1
          BY <5>1
        <5>4. 1 .. m - 1 \subseteq 1 .. n
          BY <5>1
        <5> QED
          BY <5>2, <5>3, <5>4
      <4>2. f[m] = f[m - 1] \o ss[k] /\ Laid(f[m - 1], ss, Before(m - 1))
        BY ZenonT(60), <2>2, <2>3, <3>1, <3>3
      <4>3. Before(m) = Before(m - 1) \cup {k} /\ k \notin Before(m - 1)
        <5> DEFINE A == 1 .. m - 1
        <5>1. 1 .. m = A \cup {m} /\ m \notin A /\ A \subseteq 1 .. n
          BY ZenonT(60), <4>1
        <5>2. Before(m - 1) = {order[i] : i \in A}
          OBVIOUS
        <5>3. Before(m) = {order[i] : i \in A \cup {m}}
          BY ZenonT(60), <5>1
        <5> HIDE DEF A, Before
        <5>4. {order[i] : i \in A \cup {m}} = {order[i] : i \in A} \cup {order[m]}
          <6>1. OneImageMore(order, A, m)
            BY ZenonT(60), ImagesMore
          <6> QED
            BY ZenonT(60), <6>1 DEF OneImageMore
        <5>5. order[m] \notin {order[i] : i \in A}
          BY ZenonT(60), <5>1
        <5> QED
          BY ZenonT(60), <5>2, <5>3, <5>4, <5>5
      <4> HIDE DEF Before, k
      <4>4. Laid(f[m - 1] \o ss[k], ss, Before(m - 1) \cup {k})
        BY <3>1, <4>2, <4>3, LaidMore
      <4> QED
        BY <4>2, <4>3, <4>4
    <3> QED
      BY <3>2, <3>3
  <2> HIDE DEF S
  <2>4. n \in S
    <3>1. 1 .. n \subseteq S
      BY <2>3, Climbs
    <3> QED
      BY <1>3, <3>1
  <2>5. Before(n) = 1 .. n
    <3>1. IsFiniteSet(1 .. n)
      BY FS_Interval
    <3>2. order \in Injection(1 .. n, 1 .. n)
      BY DEF Injection, IsInjective
    <3>3. order \in Surjection(1 .. n, 1 .. n)
      BY <3>1, <3>2, FS_Injection
    <3> QED
      BY <3>3 DEF Surjection
  <2> QED
    BY <2>2, <2>4, <2>5 DEF S
<1> QED
  BY <1>2, <1>3

\* The lists of segments of a batch.
Lists(batch) == [i \in DOMAIN batch |-> batch[i].segments]

\* The rules, and the version, that a list of segments gives.
RulesOf(measured, file) ==
  [i \in DOMAIN Observed(measured) |-> Rule(measured, file, Observed(measured)[i])]
VersionOf(measured, file) ==
  [rules |-> [i \in DOMAIN RulesOf(measured, file) |-> BuildFields(RulesOf(measured, file)[i])],
   described |-> {<<file[i].class, file[i].text>> : i \in DOMAIN file}]

LEMMA AssembledVersion ==
  ASSUME NEW batch, NEW file, NEW measured, NEW rules, rules = RulesOf(measured, file)
  PROVE  Assembled(batch, file, measured, rules).version = VersionOf(measured, file)
BY DEF Assembled, Derived, VersionOf

\* How far the run is: the segments of the sets before the next one, then all of them.
PlanInv ==
  /\ planned.batch \in Batches
  /\ planning = [stage |-> planning.stage, next |-> planning.next, measured |-> planning.measured,
                 rules |-> planning.rules, audited |-> planning.audited, config |-> planning.config]
  /\ planning.stage = "gate" => planning.next = 1 /\ planning.measured = <<>>
  /\ planning.stage = "measure" =>
       /\ planning.next \in 1 .. Len(planned.batch) + 1
       /\ Laid(planning.measured, Lists(planned.batch), 1 .. planning.next - 1)
  /\ planning.stage \in {"assemble", "done"} =>
       Laid(planning.measured, Lists(planned.batch), 1 .. Len(planned.batch))
  /\ planning.stage = "assemble" => planning.rules = RulesOf(planning.measured, planned.file)
  /\ planning.stage = "done" => planning.config.version = VersionOf(planning.measured, planned.file)

LEMMA BatchIn ==
  ASSUME NEW batch \in Batches
  PROVE  /\ Len(batch) \in Nat /\ DOMAIN batch = 1 .. Len(batch)
         /\ \A i \in 1 .. Len(batch) :
              /\ Lists(batch)[i] = batch[i].segments /\ IsList(Lists(batch)[i])
              /\ \A j \in DOMAIN Lists(batch)[i] : Lists(batch)[i][j].depth \in Nat
<1>1. IsList(batch)
  BY BatchesAssumption DEF IsList
<1>2. Len(batch) \in Nat /\ DOMAIN batch = 1 .. Len(batch)
  BY <1>1, ListDomain
<1>3. ASSUME NEW i \in 1 .. Len(batch)
      PROVE  /\ Lists(batch)[i] = batch[i].segments /\ IsList(batch[i].segments)
             /\ \A j \in DOMAIN batch[i].segments : batch[i].segments[j].depth \in Nat
  BY <1>2, BatchesAssumption DEF IsList, Lists
<1> QED
  BY <1>2, <1>3

LEMMA PlanStep == PlanInv /\ [PlanNext]_planVars => PlanInv'
<1> SUFFICES ASSUME PlanInv, [PlanNext]_planVars PROVE PlanInv'
  OBVIOUS
<1>b. Len(planned.batch) \in Nat /\ \A i \in 1 .. Len(planned.batch) : IsList(Lists(planned.batch)[i])
  BY BatchIn DEF PlanInv
<1>1. CASE UNCHANGED <<planned, planning>>
  BY <1>1 DEF PlanInv
<1>2. CASE PassGate
  <2>1. /\ planned' = planned /\ planning.next = 1 /\ planning.measured = <<>>
        /\ planning'.stage \in {"failed", "measure"} /\ planning'.next = 1 /\ planning'.measured = <<>>
        /\ planning' = [stage |-> planning'.stage, next |-> planning'.next, measured |-> planning'.measured,
                        rules |-> planning'.rules, audited |-> planning'.audited, config |-> planning'.config]
    BY <1>2 DEF PassGate, PlanInv
  <2>2. Laid(<<>>, Lists(planned.batch), 1 .. 1 - 1)
    <3>1. 1 .. 1 - 1 = {}
      OBVIOUS
    <3> QED
      BY <3>1, LaidFirst
  <2>3. 1 \in 1 .. Len(planned.batch) + 1
    BY <1>b
  <2> QED
    BY <2>1, <2>2, <2>3 DEF PlanInv
<1>3. CASE Measure
  <2>1. /\ planned' = planned /\ planning.stage = "measure" /\ planning'.stage = "measure"
        /\ planning'.next = planning.next + 1 /\ planning'.measured = planning.measured \o planned.batch[planning.next].segments
        /\ planning' = [stage |-> planning'.stage, next |-> planning'.next, measured |-> planning'.measured,
                        rules |-> planning'.rules, audited |-> planning'.audited, config |-> planning'.config]
    BY <1>3 DEF Measure, PlanInv
  <2>2. planning.next \in 1 .. Len(planned.batch) /\ Laid(planning.measured, Lists(planned.batch), 1 .. planning.next - 1)
    BY <1>3, <1>b DEF Measure, PlanInv
  <2>3. /\ planning.next + 1 \in 1 .. Len(planned.batch) + 1 /\ planning.next \notin 1 .. planning.next - 1
        /\ 1 .. planning.next + 1 - 1 = (1 .. planning.next - 1) \cup {planning.next}
    BY <1>b, <2>2
  <2>4. IsList(Lists(planned.batch)[planning.next]) /\ Lists(planned.batch)[planning.next] = planned.batch[planning.next].segments
    BY <2>2, BatchIn DEF PlanInv
  <2>5. Laid(planning.measured \o Lists(planned.batch)[planning.next], Lists(planned.batch), (1 .. planning.next - 1) \cup {planning.next})
    BY <2>2, <2>3, <2>4, LaidMore
  <2>6. planning'.next - 1 = planning.next + 1 - 1 /\ planned'.batch = planned.batch
    BY <1>b, <2>1, <2>2
  <2>7. 1 .. planning'.next - 1 = (1 .. planning.next - 1) \cup {planning.next}
    BY <2>3, <2>6
  <2>8. planning'.measured = planning.measured \o Lists(planned.batch)[planning.next]
    BY <2>1, <2>4
  <2>9. Laid(planning'.measured, Lists(planned'.batch), 1 .. planning'.next - 1)
    BY <2>5, <2>6, <2>7, <2>8
  <2>10. planning'.next \in 1 .. Len(planned'.batch) + 1
    BY <2>1, <2>3
  <2> QED
    BY <2>1, <2>9, <2>10 DEF PlanInv
<1>4. CASE Recommend
  <2>1. /\ planned' = planned /\ planning.stage = "measure" /\ planning'.stage = "assemble"
        /\ planning'.measured = planning.measured /\ planning'.rules = RulesOf(planning.measured, planned.file)
        /\ planning' = [stage |-> planning'.stage, next |-> planning'.next, measured |-> planning'.measured,
                        rules |-> planning'.rules, audited |-> planning'.audited, config |-> planning'.config]
    BY <1>4 DEF Recommend, PlanInv, RulesOf
  <2>2. planning.next = Len(planned.batch) + 1 /\ 1 .. planning.next - 1 = 1 .. Len(planned.batch)
    BY <1>4, <1>b, <2>1 DEF Recommend, PlanInv
  <2> QED
    BY <2>1, <2>2 DEF PlanInv
<1>5. CASE Assemble
  <2>1. /\ planned' = planned /\ planning.stage = "assemble" /\ planning'.stage = "done"
        /\ planning'.measured = planning.measured
        /\ planning'.config = Assembled(planned.batch, planned.file, planning.measured, planning.rules)
        /\ planning' = [stage |-> planning'.stage, next |-> planning'.next, measured |-> planning'.measured,
                        rules |-> planning'.rules, audited |-> planning'.audited, config |-> planning'.config]
    BY <1>5 DEF Assemble, PlanInv
  <2>2. planning'.config.version = VersionOf(planning.measured, planned.file)
    BY <2>1, AssembledVersion DEF PlanInv
  <2> QED
    BY <2>1, <2>2 DEF PlanInv
<1>6. CASE Export \/ ImportFile \/ (\E field \in {"max", "floor", "salience", "text"} : EditFile(field)) \/ UNCHANGED planVars
  <2>1. UNCHANGED <<planned, planning>>
    BY <1>6 DEF Export, ImportFile, EditFile, planVars
  <2> QED
    BY <1>1, <2>1
<1> QED
  BY <1>2, <1>3, <1>4, <1>5, <1>6 DEF PlanNext

\* Every order of the documents gives the version that the order of the run gave.
LEMMA OrderIsFree == PlanInv => PlanIsOrderFree
<1> SUFFICES ASSUME PlanInv, planning.stage = "done" PROVE PlanIsOrderFree
  BY DEF PlanIsOrderFree
<1> DEFINE n == Len(planned.batch)
           ss == Lists(planned.batch)
           a == planning.measured
           file == planned.file
<1>1. n \in Nat /\ DOMAIN planned.batch = 1 .. n /\ \A i \in 1 .. n : IsList(ss[i]) /\ ss[i] = planned.batch[i].segments
  BY BatchIn DEF PlanInv
<1>2. Laid(a, ss, 1 .. n) /\ planning.config.version = VersionOf(a, file)
  BY DEF PlanInv
<1>3. \A i \in DOMAIN a : a[i].depth \in Nat
  <2>1. PICK g : LaidBy(g, a, ss, 1 .. n)
    BY <1>2 DEF Laid
  <2>2. \A i \in 1 .. n : \A j \in DOMAIN ss[i] : ss[i][j].depth \in Nat
    BY BatchIn DEF PlanInv
  <2> QED
    BY <2>1, <2>2 DEF LaidBy, PlacesIn
<1>4. ASSUME NEW order \in [1 .. n -> 1 .. n], \A i, j \in 1 .. n : order[i] = order[j] => i = j,
             NEW batch, batch = [i \in 1 .. n |-> planned.batch[order[i]]],
             NEW b, b = FlattenSeq([i \in 1 .. n |-> batch[i].segments])
      PROVE  Assembled(batch, file, b, RulesOf(b, file)).version = planning.config.version
  <2>1. [i \in 1 .. n |-> batch[i].segments] = [i \in 1 .. n |-> ss[order[i]]]
    BY <1>1, <1>4
  <2> DEFINE tt == [i \in 1 .. n |-> ss[order[i]]]
  <2>2. b = FlattenSeq(tt)
    BY <1>4, <2>1
  <2>3. DOMAIN tt = 1 .. n /\ tt = [i \in 1 .. n |-> tt[i]] /\ \A i \in 1 .. n : tt[i] = ss[order[i]]
    OBVIOUS
  <2> HIDE DEF ss, n, a, tt
  <2>4. IsList(tt) /\ Len(tt) = n
    <3>1. tt \in Seq({tt[i] : i \in DOMAIN tt})
      BY <1>1, <2>3
    <3>2. Len(tt) \in Nat /\ DOMAIN tt = 1 .. Len(tt)
      BY <3>1, LenProperties
    <3> QED
      BY <1>1, <2>3, <3>1, <3>2 DEF IsList
  <2>5. Laid(FlattenSeq(tt), ss, 1 .. n)
    BY ZenonT(60), <1>1, <1>4, <2>3, <2>4, FlattenedLaid
  <2>6. Laid(b, ss, 1 .. n)
    BY <2>2, <2>5
  <2>7. Shuffled(a, b)
    BY <1>2, <2>6, LaidAlike
  <2>8. Observed(a) = Observed(b) /\ \A class : Rule(a, file, class) = Rule(b, file, class)
    BY <1>3, <2>7, RulesAlike
  <2>9. RulesOf(a, file) = RulesOf(b, file)
    BY <2>8 DEF RulesOf
  <2>10. VersionOf(a, file) = VersionOf(b, file)
    BY ZenonT(60), <2>9 DEF VersionOf
  <2> QED
    BY <1>2, <2>10, AssembledVersion
<1> SUFFICES ASSUME NEW order \in {f \in [1 .. n -> 1 .. n] : \A i, j \in 1 .. n : f[i] = f[j] => i = j}
             PROVE  LET batch == [i \in 1 .. n |-> planned.batch[order[i]]]
                        b == FlattenSeq([i \in 1 .. n |-> batch[i].segments])
                    IN Assembled(batch, file, b, RulesOf(b, file)).version = planning.config.version
  BY DEF PlanIsOrderFree, RulesOf
<1> QED
  BY <1>4

\* The version of a plan, and with it the identity of every chunk, is the same for every order in
\* which Collect may hand the documents over (compute_corpus_stats, derive_config_version).
THEOREM PlansAreOrderFree == PlanSpec => []PlanIsOrderFree
<1>1. PlanInit => PlanInv
  BY DEF PlanInit, PlanFrom, PlanInv
<1> QED
  BY <1>1, PlanStep, OrderIsFree, PTL DEF PlanSpec
-----------------------------------------------------------------------------
(* Decomposition: the lines of the segments and those of the exclusions are    *)
(* the lines of the document, merged.                                          *)

\* Which of the entries of s come from a: after i of them, c[i].
MergedBy(c, s, a, b) ==
  /\ Len(s) = Len(a) + Len(b) /\ c \in [0 .. Len(s) -> Nat] /\ c[0] = 0 /\ c[Len(s)] = Len(a)
  /\ \A i \in 1 .. Len(s) :
       /\ c[i] \in 0 .. i
       /\ \/ c[i] = c[i - 1] + 1 /\ c[i] \in 1 .. Len(a) /\ s[i] = a[c[i]]
          \/ c[i] = c[i - 1] /\ i - c[i] \in 1 .. Len(b) /\ s[i] = b[i - c[i]]
Merged(s, a, b) == \E c : MergedBy(c, s, a, b)

\* What is left of i after x of it, when x goes on with i, and when it does not.
LEMMA Differences ==
  ASSUME NEW i \in Nat, NEW x \in Nat, NEW y \in Nat
  PROVE  (x = y + 1 => i - x = i - 1 - y) /\ (x = y => i - x = i - 1 - y + 1)
OBVIOUS

LEMMA OneBefore ==
  ASSUME NEW n \in Nat, NEW m \in Nat, NEW i \in n + 1 .. m
  PROVE  IF i = n + 1 THEN i - 1 = n /\ i - n = 1 ELSE i - 1 \in n + 1 .. m
OBVIOUS

LEMMA MergedSwapped ==
  ASSUME NEW T, NEW s \in Seq(T), NEW a \in Seq(T), NEW b \in Seq(T), Merged(s, a, b)
  PROVE  Merged(s, b, a)
<1> DEFINE n == Len(s)
<1>1. PICK c : MergedBy(c, s, a, b)
  BY DEF Merged
<1>2. n \in Nat /\ Len(a) \in Nat /\ Len(b) \in Nat /\ n = Len(a) + Len(b)
  BY <1>1, LenProperties DEF MergedBy
<1> DEFINE d == [i \in 0 .. n |-> i - c[i]]
<1>3. c[0] = 0 /\ c[n] = Len(a) /\ \A i \in 0 .. n : c[i] \in Nat /\ i - c[i] \in Nat
  BY <1>1, <1>2 DEF MergedBy
<1>4. d \in [0 .. n -> Nat] /\ d[0] = 0 /\ d[n] = Len(b)
  BY <1>2, <1>3
<1>5. ASSUME NEW i \in 1 .. n
      PROVE  /\ d[i] \in 0 .. i
             /\ \/ d[i] = d[i - 1] + 1 /\ d[i] \in 1 .. Len(b) /\ s[i] = b[d[i]]
                \/ d[i] = d[i - 1] /\ i - d[i] \in 1 .. Len(a) /\ s[i] = a[i - d[i]]
  <2>1. i - 1 \in 0 .. n /\ i \in 0 .. n /\ i \in Nat
    BY <1>2
  <2>2. d[i] = i - c[i] /\ d[i - 1] = i - 1 - c[i - 1] /\ c[i] \in Nat /\ c[i - 1] \in Nat /\ i - d[i] = c[i]
    BY <1>3, <2>1
  <2>3. d[i] \in 0 .. i
    BY <1>3, <2>1, <2>2
  <2>4. CASE c[i] = c[i - 1] + 1 /\ c[i] \in 1 .. Len(a) /\ s[i] = a[c[i]]
    <3>1. d[i] = d[i - 1]
      BY ZenonT(60), <2>1, <2>2, <2>4, Differences
    <3> QED
      BY <2>2, <2>3, <2>4, <3>1
  <2>5. CASE c[i] = c[i - 1] /\ i - c[i] \in 1 .. Len(b) /\ s[i] = b[i - c[i]]
    <3>1. d[i] = d[i - 1] + 1
      BY ZenonT(60), <2>1, <2>2, <2>5, Differences
    <3> QED
      BY <2>2, <2>3, <2>5, <3>1
  <2> QED
    BY <1>1, <2>4, <2>5 DEF MergedBy
<1> HIDE DEF d
<1>6. MergedBy(d, s, b, a)
  <2>1. Len(s) = Len(b) + Len(a)
    BY <1>2
  <2> QED
    BY ZenonT(60), <1>4, <1>5, <2>1 DEF MergedBy
<1> QED
  BY <1>6 DEF Merged

\* A list put behind what was merged, and behind one of the two.
LEMMA MergedMore ==
  ASSUME NEW T, NEW s \in Seq(T), NEW a \in Seq(T), NEW b \in Seq(T), NEW t \in Seq(T), Merged(s, a, b)
  PROVE  Merged(s \o t, a \o t, b)
<1> DEFINE n == Len(s)
           u == s \o t
           v == a \o t
<1>1. PICK c : MergedBy(c, s, a, b)
  BY DEF Merged
<1>2. /\ n \in Nat /\ Len(a) \in Nat /\ Len(b) \in Nat /\ Len(t) \in Nat /\ n = Len(a) + Len(b)
      /\ c \in [0 .. n -> Nat] /\ c[0] = 0 /\ c[n] = Len(a)
  BY <1>1, LenProperties DEF MergedBy
<1>3. /\ Len(u) = n + Len(t) /\ Len(v) = Len(a) + Len(t)
      /\ \A i \in 1 .. n + Len(t) : u[i] = IF i <= n THEN s[i] ELSE t[i - n]
      /\ \A i \in 1 .. Len(a) + Len(t) : v[i] = IF i <= Len(a) THEN a[i] ELSE t[i - Len(a)]
  BY ConcatProperties
<1> DEFINE d == [i \in 0 .. n + Len(t) |-> IF i <= n THEN c[i] ELSE Len(a) + (i - n)]
<1>4. \A i \in 0 .. n : d[i] = c[i]
  BY <1>2
<1>5. \A i \in n + 1 .. n + Len(t) : d[i] = Len(a) + (i - n)
  BY <1>2
<1>6. d \in [0 .. n + Len(t) -> Nat]
  BY <1>2
<1> HIDE DEF d, u, v, n
<1>7. d[0] = 0 /\ d[n + Len(t)] = Len(a) + Len(t)
  <2>1. CASE Len(t) = 0
    <3>1. n + Len(t) = n /\ n \in 0 .. n /\ 0 \in 0 .. n /\ Len(a) + Len(t) = Len(a)
      BY <1>2, <2>1
    <3> QED
      BY <1>2, <1>4, <3>1
  <2>2. CASE Len(t) # 0
    <3> DEFINE k == n + Len(t)
    <3>1. k \in n + 1 .. n + Len(t) /\ 0 \in 0 .. n /\ k - n = Len(t)
      BY <1>2, <2>2
    <3>2. d[0] = 0
      BY <1>2, <1>4, <3>1
    <3> HIDE DEF k
    <3>3. d[k] = Len(a) + (k - n)
      BY <1>5, <3>1
    <3> QED
      BY <3>1, <3>2, <3>3 DEF k
  <2> QED
    BY <2>1, <2>2
<1>8. ASSUME NEW i \in 1 .. n + Len(t)
      PROVE  /\ d[i] \in 0 .. i
             /\ \/ d[i] = d[i - 1] + 1 /\ d[i] \in 1 .. Len(v) /\ u[i] = v[d[i]]
                \/ d[i] = d[i - 1] /\ i - d[i] \in 1 .. Len(b) /\ u[i] = b[i - d[i]]
  <2>1. CASE i <= n
    <3>1. i \in 1 .. n /\ d[i] = c[i] /\ d[i - 1] = c[i - 1] /\ u[i] = s[i]
      BY <1>2, <1>3, <1>4, <2>1
    <3>2. c[i] \in 1 .. Len(a) => c[i] \in 1 .. Len(v) /\ v[c[i]] = a[c[i]]
      BY <1>2, <1>3
    <3>3. /\ c[i] \in 0 .. i
          /\ \/ c[i] = c[i - 1] + 1 /\ c[i] \in 1 .. Len(a) /\ s[i] = a[c[i]]
             \/ c[i] = c[i - 1] /\ i - c[i] \in 1 .. Len(b) /\ s[i] = b[i - c[i]]
      BY <1>1, <3>1 DEF MergedBy, n
    <3> QED
      BY <3>1, <3>2, <3>3
  <2>2. CASE ~(i <= n)
    <3>1. i \in n + 1 .. n + Len(t) /\ i \in Nat /\ d[i] = Len(a) + (i - n) /\ u[i] = t[i - n]
      BY <1>2, <1>3, <1>5, <2>2
    <3>2. d[i] = d[i - 1] + 1
      <4>0. n + Len(t) \in Nat /\ n \in 0 .. n
        BY <1>2
      <4>1. CASE i = n + 1
        <5>1. i - 1 = n /\ i - n = 1
          BY ZenonT(60), <1>2, <3>1, <4>0, <4>1, OneBefore
        <5>2. d[i - 1] = Len(a)
          BY ZenonT(60), <1>2, <1>4, <4>0, <5>1
        <5>3. d[i] = Len(a) + 1
          BY ZenonT(60), <3>1, <5>1
        <5> QED
          BY ZenonT(60), <5>2, <5>3
      <4>2. CASE i # n + 1
        <5>1. i - 1 \in n + 1 .. n + Len(t)
          BY ZenonT(60), <1>2, <3>1, <4>0, <4>2, OneBefore
        <5>2. d[i - 1] = Len(a) + (i - 1 - n)
          BY <1>5, <5>1
        <5> QED
          BY <1>2, <3>1, <5>2
      <4> QED
        BY <4>1, <4>2
    <3>3. d[i] \in 0 .. i /\ d[i] \in 1 .. Len(v) /\ ~(d[i] <= Len(a)) /\ d[i] - Len(a) = i - n
      BY <1>2, <1>3, <3>1
    <3>4. v[d[i]] = t[i - n]
      BY <1>3, <3>3
    <3> QED
      BY <3>1, <3>2, <3>3, <3>4
  <2> QED
    BY <2>1, <2>2
<1>9. Len(u) = Len(v) + Len(b)
  BY <1>2, <1>3
<1>10. MergedBy(d, u, v, b)
  BY <1>3, <1>6, <1>7, <1>8, <1>9 DEF MergedBy
<1> QED
  BY <1>10 DEF Merged, u, v

LEMMA MergedOther ==
  ASSUME NEW T, NEW s \in Seq(T), NEW a \in Seq(T), NEW b \in Seq(T), NEW t \in Seq(T), Merged(s, a, b)
  PROVE  Merged(s \o t, a, b \o t)
<1>1. Merged(s \o t, b \o t, a)
  BY MergedSwapped, MergedMore
<1>2. s \o t \in Seq(T) /\ b \o t \in Seq(T)
  BY ConcatProperties
<1> QED
  BY <1>1, <1>2, MergedSwapped

LEMMA MergedFirst == Merged(<<>>, <<>>, <<>>)
<1>1. Len(<<>>) = 0
  OBVIOUS
<1>2. MergedBy([i \in 0 .. 0 |-> 0], <<>>, <<>>, <<>>)
  BY <1>1 DEF MergedBy
<1> QED
  BY <1>2 DEF Merged

\* What such a merge is, step by step, is what Merges looks for.
LEMMA MergedMerges ==
  ASSUME NEW T, NEW s \in Seq(T), NEW a \in Seq(T), NEW b \in Seq(T), Merged(s, a, b)
  PROVE  Merges(s, a, b)
<1> DEFINE n == Len(s)
           Next_(before, i) == {j \in 0 .. i : \/ j \in DOMAIN a /\ j - 1 \in before /\ s[i] = a[j]
                                               \/ i - j \in DOMAIN b /\ j \in before /\ s[i] = b[i - j]}
           Join(f, i) == IF i = 0 THEN {0} ELSE Next_(f[i - 1], i)
           Solves(f) == f = [i \in 0 .. n |-> Join(f, i)]
<1>1. PICK c : MergedBy(c, s, a, b)
  BY DEF Merged
<1>2. /\ n \in Nat /\ Len(a) \in Nat /\ Len(b) \in Nat /\ n = Len(a) + Len(b)
      /\ DOMAIN a = 1 .. Len(a) /\ DOMAIN b = 1 .. Len(b)
  BY <1>1, LenProperties DEF MergedBy
<1>3. Merges(s, a, b) <=> Len(s) = Len(a) + Len(b) /\ Len(a) \in (CHOOSE f : Solves(f))[n]
  BY DEF Merges
<1> HIDE DEF n, Next_
<1>4. \E f : Solves(f)
  <2> DEFINE Upto(f, k) == DOMAIN f = 0 .. k /\ \A i \in 0 .. k : f[i] = Join(f, i)
             S == {m \in 1 .. n + 1 : \E f : Upto(f, m - 1)}
  <2>1. ASSUME NEW m \in 1 .. n + 1, m = 1 \/ m - 1 \in S PROVE m \in S
    <3>1. PICK f : \A i \in 0 .. m - 2 : f[i] = Join(f, i)
      <4>1. CASE m = 1
        BY <4>1
      <4>2. CASE m # 1
        <5>1. m - 1 - 1 = m - 2
          BY <1>2
        <5> QED
          BY <2>1, <4>2, <5>1
      <4> QED
        BY <4>1, <4>2
    <3> DEFINE g == [i \in 0 .. m - 1 |-> IF i = m - 1 THEN Join(f, m - 1) ELSE f[i]]
    <3>2. \A i \in 0 .. m - 1 : Join(g, i) = Join(f, i)
      <4> SUFFICES ASSUME NEW i \in 0 .. m - 1, i # 0 PROVE g[i - 1] = f[i - 1]
        OBVIOUS
      <4>1. i - 1 \in 0 .. m - 1 /\ i - 1 # m - 1
        BY <1>2
      <4> QED
        BY <4>1
    <3>3. \A i \in 0 .. m - 1 : g[i] = Join(f, i)
      <4> SUFFICES ASSUME NEW i \in 0 .. m - 1, i # m - 1 PROVE f[i] = Join(f, i)
        OBVIOUS
      <4>1. i \in 0 .. m - 2
        BY <1>2
      <4> QED
        BY <3>1, <4>1
    <3>4. DOMAIN g = 0 .. m - 1
      OBVIOUS
    <3> HIDE DEF g, Join
    <3>5. \A i \in 0 .. m - 1 : g[i] = Join(g, i)
      BY <3>2, <3>3
    <3> QED
      BY <3>4, <3>5
  <2> HIDE DEF S
  <2>2. n + 1 \in Nat /\ n + 1 \in 1 .. n + 1
    BY <1>2
  <2>3. \E k \in S : k - 1 = n
    <3>1. 1 .. n + 1 \subseteq S
      BY <2>1, <2>2, Climbs
    <3>2. (n + 1) - 1 = n
      BY <1>2
    <3> QED
      BY ZenonT(60), <2>2, <3>1, <3>2
  <2> HIDE DEF Join, Upto
  <2>10. \A m \in S : \E f : Upto(f, m - 1)
    BY DEF S
  <2> HIDE DEF S
  <2>11. PICK k \in S : k - 1 = n
    BY <2>3
  <2>4. PICK f : Upto(f, n)
    BY <2>10, <2>11
  <2> DEFINE g == [i \in 0 .. n |-> f[i]]
  <2>5. \A i \in 0 .. n : Join(g, i) = Join(f, i)
    <3> SUFFICES ASSUME NEW i \in 0 .. n PROVE Join(g, i) = Join(f, i)
      OBVIOUS
    <3>1. CASE i = 0
      BY <3>1 DEF Join
    <3>2. CASE i # 0
      <4>1. i - 1 \in 0 .. n
        BY <1>2, <3>2
      <4> QED
        BY <4>1 DEF Join
    <3> QED
      BY <3>1, <3>2
  <2>6. \A i \in 0 .. n : g[i] = Join(g, i)
    BY <2>4, <2>5 DEF Upto
  <2>7. g = [i \in 0 .. n |-> g[i]]
    OBVIOUS
  <2> HIDE DEF g
  <2>8. [i \in 0 .. n |-> g[i]] = [i \in 0 .. n |-> Join(g, i)]
    BY <2>6
  <2>9. Solves(g)
    BY <2>7, <2>8
  <2> QED
    BY <2>9
<1> DEFINE f == CHOOSE f : Solves(f)
<1>5. Solves(f)
  BY ZenonT(60), <1>4
<1> HIDE DEF f
<1>6. \A i \in 0 .. n : f[i] = Join(f, i)
  BY <1>5
<1> HIDE DEF Solves
<1>7. f[0] = {0} /\ \A i \in 1 .. n : f[i] = Next_(f[i - 1], i)
  <2>1. 0 \in 0 .. n /\ \A i \in 1 .. n : i \in 0 .. n /\ i # 0
    BY <1>2
  <2> QED
    BY <1>6, <2>1
<1>8. \A i \in 1 .. n : c[i] \in f[i]
  <2> DEFINE S == {i \in 1 .. n : c[i] \in f[i]}
  <2>1. ASSUME NEW m \in 1 .. n, m = 1 \/ m - 1 \in S PROVE m \in S
    <3>1. c[m - 1] \in f[m - 1]
      <4>1. CASE m = 1
        <5>1. m - 1 = 0 /\ c[0] = 0
          BY <1>1, <4>1 DEF MergedBy
        <5> QED
          BY <1>7, <5>1
      <4>2. CASE m # 1
        BY <2>1, <4>2
      <4> QED
        BY <4>1, <4>2
    <3>2. /\ c[m] \in 0 .. m
          /\ \/ c[m] = c[m - 1] + 1 /\ c[m] \in 1 .. Len(a) /\ s[m] = a[c[m]]
             \/ c[m] = c[m - 1] /\ m - c[m] \in 1 .. Len(b) /\ s[m] = b[m - c[m]]
      BY <1>1 DEF MergedBy, n
    <3>3. c[m - 1] \in Nat
      <4>1. m - 1 \in 0 .. n
        BY <1>2
      <4> QED
        BY <1>1, <4>1 DEF MergedBy, n
    <3>4. c[m] = c[m - 1] + 1 => c[m] - 1 = c[m - 1]
      BY <3>3
    <3>5. c[m] \in Next_(f[m - 1], m)
      BY <1>2, <3>1, <3>2, <3>4 DEF Next_
    <3> QED
      BY <1>7, <3>5
  <2> HIDE DEF S
  <2>2. 1 .. n \subseteq S
    BY <1>2, <2>1, Climbs
  <2> QED
    BY <2>2 DEF S
<1>9. Len(a) \in f[n]
  <2>1. c[n] = Len(a) /\ c[0] = 0
    BY <1>1 DEF MergedBy, n
  <2>2. CASE n = 0
    BY <1>7, <2>1, <2>2
  <2>3. CASE n # 0
    <3>1. n \in 1 .. n
      BY <1>2, <2>3
    <3> QED
      BY <1>8, <2>1, <3>1
  <2> QED
    BY <2>2, <2>3
<1> QED
  BY <1>2, <1>3, <1>9 DEF f, n

ListOf(T, s) == s \in Seq(T)
Regroups(a, b, c) == (a \o b) \o c = a \o (b \o c)
\* How three lists are put together does not matter.
LEMMA Regrouped ==
  ASSUME NEW T, NEW a, NEW b, NEW c, ListOf(T, a), ListOf(T, b), ListOf(T, c)
  PROVE  Regroups(a, b, c)
BY ConcatAssociative DEF ListOf, Regroups

\* Lists of lists, one more, or twice as deep.
LEMMA FlattenedMore ==
  ASSUME NEW T, NEW ss \in Seq(Seq(T)), NEW e \in Seq(T)
  PROVE  FlattenSeq(Append(ss, e)) = FlattenSeq(ss) \o e /\ FlattenSeq(ss) \in Seq(T)
<1> DEFINE n == Len(ss)
           tt == Append(ss, e)
<1>1. n \in Nat /\ DOMAIN ss = 1 .. n /\ \A i \in 1 .. n : ss[i] \in Seq(T)
  BY LenProperties, ElementOfSeq
<1>2. IsList(ss)
  BY ListIn
<1>3. FlattenSeq(ss) \in Seq(T)
  BY <1>1, <1>2, FlattenedIn
<1>4. tt \in Seq(Seq(T)) /\ Len(tt) = n + 1 /\ (\A i \in 1 .. n : tt[i] = ss[i]) /\ tt[n + 1] = e
  BY AppendProperties
<1> HIDE DEF tt
<1>5. DOMAIN tt = 1 .. n + 1
  BY <1>4, LenProperties
<1>6. IsList(tt)
  BY <1>4, ListIn
<1>7. Len(tt) # 0
  BY <1>1, <1>4
<1>8. \E f : /\ FlattenSeq(tt) = f[Len(tt)]
             /\ \A i \in 1 .. Len(tt) : f[i] = IF i = 1 THEN tt[i] ELSE f[i - 1] \o tt[i]
  BY <1>6, <1>7, Unfolded
<1>9. PICK f : /\ FlattenSeq(tt) = f[n + 1]
               /\ \A i \in 1 .. n + 1 : f[i] = IF i = 1 THEN tt[i] ELSE f[i - 1] \o tt[i]
  BY <1>4, <1>8
<1>10. CASE n = 0
  <2>1. FlattenSeq(ss) = <<>>
    <3>1. ss = <<>>
      BY <1>10, EmptySeq
    <3> QED
      BY <3>1 DEF FlattenSeq
  <2>2. FlattenSeq(tt) = e
    BY <1>4, <1>9, <1>10
  <2>3. <<>> \o e = e
    BY ConcatEmptySeq
  <2> QED
    BY <1>3, <2>1, <2>2, <2>3 DEF tt
<1>11. CASE n # 0
  <2>1. PICK g : /\ FlattenSeq(ss) = g[n]
                 /\ \A i \in 1 .. n : g[i] = IF i = 1 THEN ss[i] ELSE g[i - 1] \o ss[i]
    BY <1>2, <1>11, Unfolded
  <2> DEFINE S == {i \in 1 .. n : f[i] = g[i]}
  <2>2. ASSUME NEW m \in 1 .. n, m = 1 \/ m - 1 \in S PROVE m \in S
    <3>1. m \in 1 .. n + 1 /\ tt[m] = ss[m]
      BY <1>1, <1>4
    <3>2. CASE m = 1
      BY <1>9, <2>1, <3>1, <3>2
    <3>3. CASE m # 1
      <4>1. f[m - 1] = g[m - 1]
        BY <2>2, <3>3
      <4> QED
        BY <1>9, <2>1, <3>1, <3>3, <4>1
    <3> QED
      BY <3>2, <3>3
  <2> HIDE DEF S
  <2>3. n \in S
    <3>1. 1 .. n \subseteq S
      BY <1>1, <2>2, Climbs
    <3>2. n \in 1 .. n
      BY <1>1, <1>11
    <3> QED
      BY ZenonT(60), <3>1, <3>2
  <2>4. f[n] = g[n]
    BY <2>3 DEF S
  <2>5. PICK k : k = n + 1
    OBVIOUS
  <2>7. k \in 1 .. n + 1 /\ k # 1 /\ k - 1 = n
    BY <1>1, <1>11, <2>5
  <2>8. f[k] = f[k - 1] \o tt[k]
    BY <1>9, <2>7
  <2>6. f[n + 1] = f[n] \o tt[n + 1]
    BY <2>5, <2>7, <2>8
  <2> QED
    BY <1>3, <1>4, <1>9, <2>1, <2>4, <2>6 DEF tt
<1> QED
  BY <1>10, <1>11

LEMMA FlattenedFirst ==
  FlattenSeq(<<>>) = <<>>
BY DEF FlattenSeq

LEMMA FlattenedOne ==
  ASSUME NEW T, NEW e \in Seq(T)
  PROVE  FlattenSeq(<<e>>) = e
<1>1. <<>> \in Seq(Seq(T)) /\ Append(<<>>, e) = <<e>>
  OBVIOUS
<1>2. FlattenSeq(<<e>>) = <<>> \o e
  BY <1>1, FlattenedMore, FlattenedFirst
<1> QED
  BY <1>2, ConcatEmptySeq

\* The part of a list up to a place, and the next one.
LEMMA UpTo ==
  ASSUME NEW T, NEW s \in Seq(T), NEW m \in 1 .. Len(s)
  PROVE  /\ SubSeq(s, 1, m) = Append(SubSeq(s, 1, m - 1), s[m]) /\ s[m] \in T
         /\ SubSeq(s, 1, m - 1) \in Seq(T) /\ SubSeq(s, 1, m) \in Seq(T)
<1>1. Len(s) \in Nat /\ s[m] \in T /\ DOMAIN s = 1 .. Len(s)
  BY LenProperties, ElementOfSeq
<1>2. 1 \in 1 .. Len(s) /\ m \in 1 .. Len(s) /\ m - 1 \in Int /\ m \in Int
  BY <1>1
<1>3. \A k \in 1 .. m : s[k] \in T
  BY <1>1, ElementOfSeq
<1>4. SubSeq(s, 1, m - 1) \in Seq(T)
  <2>1. \A k \in 1 .. m - 1 : s[k] \in T
    BY <1>2, <1>3
  <2> QED
    BY <1>2, <2>1, SubSeqProperties
<1>5. SubSeq(s, 1, m) \in Seq(T)
  BY <1>2, <1>3, SubSeqProperties
<1>6. SubSeq(s, 1, m) = SubSeq(s, 1, m - 1) \o <<s[m]>>
  <2>1. m \in 1 .. Len(s) /\ 1 \in 1 .. Len(s)
    BY <1>2
  <2> QED
    BY <2>1, SubSeqRecursiveSecond
<1> QED
  BY <1>1, <1>4, <1>5, <1>6, AppendIsConcat

LEMMA FlattenedJoined ==
  ASSUME NEW T, NEW a \in Seq(Seq(T)), NEW b \in Seq(Seq(T))
  PROVE  FlattenSeq(a \o b) = FlattenSeq(a) \o FlattenSeq(b)
<1> DEFINE n == Len(b)
           Part(m) == SubSeq(b, 1, m)
           S == {m \in 1 .. n : FlattenSeq(a \o Part(m)) = FlattenSeq(a) \o FlattenSeq(Part(m))}
<1>1. n \in Nat
  BY LenProperties
<1>2. FlattenSeq(a) \in Seq(T)
  <2>1. <<>> \in Seq(T)
    BY EmptySeq
  <2> QED
    BY <2>1, FlattenedMore
<1>3. Part(0) = <<>>
  BY SubSeqEmpty
<1>4. FlattenSeq(a \o Part(0)) = FlattenSeq(a) \o FlattenSeq(Part(0))
  <2>1. a \o <<>> = a /\ FlattenSeq(a) \o <<>> = FlattenSeq(a)
    BY <1>2, ConcatEmptySeq
  <2> QED
    BY <1>3, <2>1, FlattenedFirst
<1> HIDE DEF Part
<1>5. ASSUME NEW m \in 1 .. n, m = 1 \/ m - 1 \in S PROVE m \in S
  <2> DEFINE p == Part(m - 1)
             x == b[m]
  <2>1. p \in Seq(Seq(T)) /\ x \in Seq(T) /\ Part(m) = Append(p, x)
    BY UpTo DEF Part
  <2>2. FlattenSeq(a \o p) = FlattenSeq(a) \o FlattenSeq(p)
    <3>1. CASE m = 1
      <4>1. m - 1 = 0
        BY <3>1
      <4> QED
        BY <1>4, <4>1
    <3>2. CASE m # 1
      BY <1>5, <3>2
    <3> QED
      BY <3>1, <3>2
  <2> HIDE DEF p, x
  <2>3. a \o Append(p, x) = Append(a \o p, x) /\ a \o p \in Seq(Seq(T))
    <3>1. a \o p \in Seq(Seq(T)) /\ <<x>> \in Seq(Seq(T))
      BY <2>1, ConcatProperties
    <3>2. Append(p, x) = p \o <<x>> /\ Append(a \o p, x) = (a \o p) \o <<x>>
      BY <2>1, <3>1, AppendIsConcat
    <3>3. (a \o p) \o <<x>> = a \o (p \o <<x>>)
      <4> DEFINE e == <<x>>
                 U == Seq(T)
      <4>1. ListOf(U, a) /\ ListOf(U, p) /\ ListOf(U, e)
        BY <2>1, <3>1 DEF ListOf
      <4> HIDE DEF e, U
      <4>2. (a \o p) \o e = a \o (p \o e)
        <5>1. Regroups(a, p, e)
          BY ZenonT(60), <4>1, Regrouped
        <5> QED
          BY ZenonT(60), <5>1 DEF Regroups
      <4> QED
        BY <4>2 DEF e
    <3> QED
      BY <3>1, <3>2, <3>3
  <2>4. FlattenSeq(Append(a \o p, x)) = FlattenSeq(a \o p) \o x
    BY <2>1, <2>3, FlattenedMore
  <2>5. FlattenSeq(Append(p, x)) = FlattenSeq(p) \o x /\ FlattenSeq(p) \in Seq(T)
    BY <2>1, FlattenedMore
  <2>6. (FlattenSeq(a) \o FlattenSeq(p)) \o x = FlattenSeq(a) \o (FlattenSeq(p) \o x)
    <3> DEFINE A == FlattenSeq(a)
               P == FlattenSeq(p)
    <3>1. ListOf(T, A) /\ ListOf(T, P) /\ ListOf(T, x)
      BY <1>2, <2>1, <2>5 DEF ListOf
    <3> HIDE DEF A, P
    <3>2. (A \o P) \o x = A \o (P \o x)
      <4>1. Regroups(A, P, x)
        BY ZenonT(60), <3>1, Regrouped
      <4> QED
        BY ZenonT(60), <4>1 DEF Regroups
    <3> QED
      BY <3>2 DEF A, P
  <2>7. FlattenSeq(a \o Part(m)) = FlattenSeq(a) \o FlattenSeq(Part(m))
    BY <2>1, <2>2, <2>3, <2>4, <2>5, <2>6
  <2> QED
    BY <2>7
<1> HIDE DEF S
<1>6. 1 .. n \subseteq S
  BY <1>1, <1>5, Climbs
<1>7. Part(n) = b
  BY SubSeqFull DEF Part
<1>8. CASE n = 0
  BY <1>4, <1>7, <1>8
<1>9. CASE n # 0
  <2>1. n \in S
    <3>1. n \in 1 .. n
      BY <1>1, <1>9
    <3> QED
      BY ZenonT(60), <1>6, <3>1
  <2> QED
    BY <1>7, <2>1 DEF S
<1> QED
  BY <1>8, <1>9

\* Flattening twice is flattening what was flattened one by one.
LEMMA FlattenedTwice ==
  ASSUME NEW T, NEW xss \in Seq(Seq(Seq(T))), NEW ys \in Seq(Seq(T)), Len(ys) = Len(xss),
         \A i \in 1 .. Len(xss) : ys[i] = FlattenSeq(xss[i])
  PROVE  FlattenSeq(FlattenSeq(xss)) = FlattenSeq(ys)
<1> DEFINE n == Len(xss)
           X(m) == SubSeq(xss, 1, m)
           Y(m) == SubSeq(ys, 1, m)
           S == {m \in 1 .. n : FlattenSeq(FlattenSeq(X(m))) = FlattenSeq(Y(m))}
<1>1. n \in Nat
  BY LenProperties
<1>2. FlattenSeq(FlattenSeq(X(0))) = FlattenSeq(Y(0))
  <2>1. X(0) = <<>> /\ Y(0) = <<>>
    BY SubSeqEmpty
  <2> QED
    BY <2>1, FlattenedFirst
<1> HIDE DEF X, Y
<1>3. ASSUME NEW m \in 1 .. n, m = 1 \/ m - 1 \in S PROVE m \in S
  <2> DEFINE p == X(m - 1)
             q == Y(m - 1)
             x == xss[m]
             y == ys[m]
  <2>1. p \in Seq(Seq(Seq(T))) /\ x \in Seq(Seq(T)) /\ X(m) = Append(p, x)
    BY UpTo DEF X
  <2>2. q \in Seq(Seq(T)) /\ y \in Seq(T) /\ Y(m) = Append(q, y)
    BY UpTo DEF Y
  <2>3. FlattenSeq(FlattenSeq(p)) = FlattenSeq(q)
    <3>1. CASE m = 1
      <4>1. m - 1 = 0
        BY <3>1
      <4> QED
        BY <1>2, <4>1
    <3>2. CASE m # 1
      BY <1>3, <3>2
    <3> QED
      BY <3>1, <3>2
  <2>4. y = FlattenSeq(x)
    OBVIOUS
  <2> HIDE DEF p, q, x, y
  <2>5. FlattenSeq(Append(p, x)) = FlattenSeq(p) \o x /\ FlattenSeq(p) \in Seq(Seq(T))
    BY <2>1, FlattenedMore
  <2>6. FlattenSeq(FlattenSeq(p) \o x) = FlattenSeq(FlattenSeq(p)) \o FlattenSeq(x)
    BY <2>1, <2>5, FlattenedJoined
  <2>7. FlattenSeq(Append(q, y)) = FlattenSeq(q) \o y
    BY <2>2, FlattenedMore
  <2>8. FlattenSeq(FlattenSeq(X(m))) = FlattenSeq(Y(m))
    BY <2>1, <2>2, <2>3, <2>4, <2>5, <2>6, <2>7
  <2> QED
    BY <2>8
<1> HIDE DEF S
<1>4. 1 .. n \subseteq S
  BY <1>1, <1>3, Climbs
<1>5. X(n) = xss /\ Y(n) = ys
  BY SubSeqFull DEF X, Y
<1>6. CASE n = 0
  BY <1>2, <1>5, <1>6
<1>7. CASE n # 0
  <2>1. n \in S
    <3>1. n \in 1 .. n
      BY <1>1, <1>7
    <3> QED
      BY <1>4, <3>1
  <2> QED
    BY <1>5, <2>1 DEF S
<1> QED
  BY <1>6, <1>7

\* Splitting a block at its headings loses no line, and leaves no part empty.
LEMMA SplitWhole ==
  ASSUME NEW T, NEW block \in Seq(T), block # <<>>
  PROVE  /\ SplitOnHeadings(block) \in Seq(Seq(T) \ {<<>>})
         /\ FlattenSeq(SplitOnHeadings(block)) = block
<1> DEFINE n == Len(block)
           First == [closed |-> <<>>, current |-> <<block[1]>>]
           Next_(w, i) == IF block[i].heading /\ ~block[i - 1].table
                          THEN [closed |-> Append(w.closed, w.current), current |-> <<block[i]>>]
                          ELSE [closed |-> w.closed, current |-> Append(w.current, block[i])]
           Join(f, i) == IF i = 1 THEN First ELSE Next_(f[i - 1], i)
           Solves(f) == f = [i \in 1 .. n |-> Join(f, i)]
<1>1. n \in Nat \ {0} /\ n \in 1 .. n /\ \A i \in 1 .. n : block[i] \in T
  <2>1. n \in Nat \ {0}
    BY EmptySeq, LenProperties
  <2> QED
    BY <2>1, ElementOfSeq
<1>2. SplitOnHeadings(block) = Append((CHOOSE f : Solves(f))[n].closed, (CHOOSE f : Solves(f))[n].current)
  BY DEF SplitOnHeadings
<1> HIDE DEF n, Next_, First
<1>3. \E f : Solves(f)
  <2> DEFINE S == {m \in 1 .. n : \E f : DOMAIN f = 1 .. m /\ \A i \in 1 .. m : f[i] = Join(f, i)}
  <2>1. ASSUME NEW m \in 1 .. n, m = 1 \/ m - 1 \in S PROVE m \in S
    <3>1. PICK f : \A i \in 1 .. m - 1 : f[i] = Join(f, i)
      <4>1. CASE m = 1
        BY <4>1
      <4>2. CASE m # 1
        BY <2>1, <4>2
      <4> QED
        BY <4>1, <4>2
    <3> DEFINE g == [i \in 1 .. m |-> IF i = m THEN Join(f, m) ELSE f[i]]
    <3>2. \A i \in 1 .. m : Join(g, i) = Join(f, i)
      <4> SUFFICES ASSUME NEW i \in 1 .. m, i # 1 PROVE g[i - 1] = f[i - 1]
        OBVIOUS
      <4>1. i - 1 \in 1 .. m /\ i - 1 # m
        OBVIOUS
      <4> QED
        BY <4>1
    <3>3. \A i \in 1 .. m : g[i] = Join(f, i)
      <4> SUFFICES ASSUME NEW i \in 1 .. m, i # m PROVE f[i] = Join(f, i)
        OBVIOUS
      <4>1. i \in 1 .. m - 1
        OBVIOUS
      <4> QED
        BY <3>1, <4>1
    <3>4. DOMAIN g = 1 .. m
      OBVIOUS
    <3> HIDE DEF g, Join
    <3>5. \A i \in 1 .. m : g[i] = Join(g, i)
      BY <3>2, <3>3
    <3> QED
      BY <3>4, <3>5
  <2> HIDE DEF S
  <2>2. 1 .. n \subseteq S
    BY <1>1, <2>1, Climbs
  <2>3. n \in S
    BY <1>1, <2>2
  <2> HIDE DEF Join
  <2>4. PICK f : DOMAIN f = 1 .. n /\ \A i \in 1 .. n : f[i] = Join(f, i)
    BY <2>3 DEF S
  <2> DEFINE g == [i \in 1 .. n |-> f[i]]
  <2>5. \A i \in 1 .. n : Join(g, i) = Join(f, i)
    <3> SUFFICES ASSUME NEW i \in 1 .. n PROVE Join(g, i) = Join(f, i)
      OBVIOUS
    <3>1. CASE i = 1
      BY <3>1 DEF Join
    <3>2. CASE i # 1
      <4>1. i - 1 \in 1 .. n
        BY <1>1, <3>2
      <4> QED
        BY <4>1 DEF Join
    <3> QED
      BY <3>1, <3>2
  <2>6. \A i \in 1 .. n : g[i] = Join(g, i)
    BY <2>4, <2>5
  <2>7. g = [i \in 1 .. n |-> g[i]]
    OBVIOUS
  <2> HIDE DEF g
  <2>8. [i \in 1 .. n |-> g[i]] = [i \in 1 .. n |-> Join(g, i)]
    BY <2>6
  <2>9. Solves(g)
    BY <2>7, <2>8
  <2> QED
    BY <2>9
<1> DEFINE f == CHOOSE f : Solves(f)
<1>4. Solves(f)
  BY ZenonT(60), <1>3
<1> HIDE DEF f
<1>5. \A i \in 1 .. n : f[i] = Join(f, i)
  BY <1>4
<1> HIDE DEF Solves
<1>6. f[1] = First /\ \A i \in 1 .. n : i # 1 => f[i] = Next_(f[i - 1], i)
  <2>1. 1 \in 1 .. n
    BY <1>1
  <2> QED
    BY <1>5, <2>1
<1> DEFINE U == Seq(T) \ {<<>>}
           Good(w, i) == /\ w.closed \in Seq(U) /\ w.current \in U
                         /\ FlattenSeq(w.closed) \o w.current = SubSeq(block, 1, i)
           S == {i \in 1 .. n : Good(f[i], i)}
<1>7. \A s \in Seq(U) : s \in Seq(Seq(T))
  <2>1. U \subseteq Seq(T)
    OBVIOUS
  <2> QED
    BY <2>1, SeqMonotonic
<1>8. ASSUME NEW m \in 1 .. n, m = 1 \/ m - 1 \in S PROVE m \in S
  <2> DEFINE x == block[m]
  <2>1. /\ SubSeq(block, 1, m) = Append(SubSeq(block, 1, m - 1), x) /\ x \in T
        /\ SubSeq(block, 1, m - 1) \in Seq(T)
    BY UpTo DEF n
  <2>2. <<x>> \in U
    BY <2>1
  <2>3. CASE m = 1
    <3>1. f[m] = First /\ block[1] = x
      BY <1>6, <2>3
    <3>2. f[m].closed = <<>> /\ f[m].current = <<x>>
      BY <3>1 DEF First
    <3>3. SubSeq(block, 1, m - 1) = <<>>
      BY <2>3, SubSeqEmpty
    <3>4. <<>> \o <<x>> = <<x>> /\ Append(<<>>, x) = <<x>> /\ <<>> \in Seq(U)
      BY <2>1, ConcatEmptySeq
    <3>5. FlattenSeq(f[m].closed) \o f[m].current = SubSeq(block, 1, m)
      BY ZenonT(60), <2>1, <3>2, <3>3, <3>4, FlattenedFirst
    <3>6. Good(f[m], m)
      BY ZenonT(60), <2>2, <3>2, <3>4, <3>5
    <3> QED
      BY <3>6
  <2>4. CASE m # 1
    <3> DEFINE w == f[m - 1]
               before == SubSeq(block, 1, m - 1)
    <3>1. m - 1 \in S /\ f[m] = Next_(w, m)
      BY <1>6, <1>8, <2>4
    <3>2. w.closed \in Seq(U) /\ w.current \in U /\ FlattenSeq(w.closed) \o w.current = before
      BY <3>1
    <3> HIDE DEF w, before, x
    <3>3. /\ w.closed \in Seq(Seq(T)) /\ w.current \in Seq(T) /\ w.current # <<>>
          /\ FlattenSeq(w.closed) \in Seq(T)
      <4>1. w.closed \in Seq(Seq(T)) /\ w.current \in Seq(T) /\ w.current # <<>>
        BY <1>7, <3>2
      <4> QED
        BY <4>1, FlattenedMore
    <3>4. before \in Seq(T) /\ SubSeq(block, 1, m) = before \o <<x>>
      BY <2>1, AppendIsConcat DEF before, x
    <3>5. ASSUME f[m] = [closed |-> Append(w.closed, w.current), current |-> <<x>>]
          PROVE  Good(f[m], m)
      <4>1. f[m].closed = Append(w.closed, w.current) /\ f[m].current = <<x>>
        BY <3>5
      <4>2. Append(w.closed, w.current) \in Seq(U)
        BY <3>2, AppendProperties
      <4>3. FlattenSeq(Append(w.closed, w.current)) = before
        BY <3>2, <3>3, FlattenedMore
      <4> QED
        BY <2>2, <3>4, <4>1, <4>2, <4>3 DEF x
    <3>6. ASSUME f[m] = [closed |-> w.closed, current |-> Append(w.current, x)]
          PROVE  Good(f[m], m)
      <4>1. f[m].closed = w.closed /\ f[m].current = Append(w.current, x)
        BY <3>6
      <4>2. Append(w.current, x) \in U /\ Append(w.current, x) = w.current \o <<x>>
        <5>1. x \in T
          BY <2>1 DEF x
        <5>2. /\ Append(w.current, x) \in Seq(T) /\ Append(w.current, x) # <<>>
          BY ZenonT(60), <3>3, <5>1, AppendProperties
        <5>3. Append(w.current, x) = w.current \o <<x>>
          BY ZenonT(60), <3>3, <5>1, AppendIsConcat
        <5> QED
          BY ZenonT(60), <5>2, <5>3
      <4> DEFINE A == FlattenSeq(w.closed)
                 B == w.current
                 C == <<x>>
      <4>3. ListOf(T, A) /\ ListOf(T, B) /\ ListOf(T, C)
        BY <2>2, <3>3 DEF ListOf, x
      <4>4. A \o B = before
        BY <3>2
      <4> HIDE DEF A, B, C
      <4>5. (A \o B) \o C = A \o (B \o C)
        <5>1. Regroups(A, B, C)
          BY ZenonT(60), <4>3, Regrouped
        <5> QED
          BY ZenonT(60), <5>1 DEF Regroups
      <4>6. A \o (B \o C) = before \o C
        BY <4>4, <4>5
      <4>7. FlattenSeq(w.closed) \o (w.current \o <<x>>) = before \o <<x>>
        BY <4>6 DEF A, B, C
      <4> QED
        BY <3>2, <3>4, <4>1, <4>2, <4>7
    <3> QED
      BY <3>1, <3>5, <3>6 DEF Next_, w, x
  <2> QED
    BY <2>3, <2>4
<1> HIDE DEF S
<1>9. Good(f[n], n)
  <2>1. 1 .. n \subseteq S
    BY <1>1, <1>8, Climbs
  <2> QED
    BY <1>1, <2>1 DEF S
<1> DEFINE w == f[n]
<1>10. w.closed \in Seq(U) /\ w.current \in U /\ FlattenSeq(w.closed) \o w.current = SubSeq(block, 1, n)
  BY <1>9
<1> HIDE DEF w
<1>11. Append(w.closed, w.current) \in Seq(U)
  BY <1>10, AppendProperties
<1>12. FlattenSeq(Append(w.closed, w.current)) = SubSeq(block, 1, n)
  <2>1. w.closed \in Seq(Seq(T)) /\ w.current \in Seq(T)
    BY <1>7, <1>10
  <2> QED
    BY <1>10, <2>1, FlattenedMore
<1>13. SubSeq(block, 1, n) = block
  BY SubSeqFull DEF n
<1>14. SplitOnHeadings(block) = Append(w.closed, w.current)
  BY <1>2 DEF f, w, n
<1> QED
  BY <1>11, <1>12, <1>13, <1>14

\* Lists of records that hold lines; a record may hold more.
Piece(T, x) == "lines" \in DOMAIN x /\ x.lines \in Seq(T)
Pieces(T, items) == IsList(items) /\ \A i \in DOMAIN items : Piece(T, items[i])
TextsOf(items) == [i \in DOMAIN items |-> items[i].lines]

LEMMA PieceLines ==
  ASSUME NEW T, NEW items, Pieces(T, items)
  PROVE  /\ Len(items) \in Nat /\ DOMAIN items = 1 .. Len(items)
         /\ TextsOf(items) \in Seq(Seq(T)) /\ LinesOf(items) \in Seq(T)
<1>1. Len(items) \in Nat /\ DOMAIN items = 1 .. Len(items)
  BY LenProperties DEF Pieces, IsList
<1>2. \A i \in 1 .. Len(items) : items[i].lines \in Seq(T)
  BY <1>1 DEF Pieces, Piece
<1>3. TextsOf(items) \in Seq(Seq(T))
  BY <1>1, <1>2 DEF TextsOf
<1>4. <<>> \in Seq(T)
  BY EmptySeq
<1>5. FlattenSeq(TextsOf(items)) \in Seq(T)
  BY <1>3, <1>4, FlattenedMore
<1> QED
  BY <1>1, <1>3, <1>5 DEF LinesOf, TextsOf

LEMMA OneMore ==
  ASSUME NEW T, NEW items, Pieces(T, items), NEW x, Piece(T, x)
  PROVE  Pieces(T, Append(items, x)) /\ LinesOf(Append(items, x)) = LinesOf(items) \o x.lines
<1> DEFINE n == Len(items)
           more == Append(items, x)
           U == {items[i] : i \in DOMAIN items} \cup {x}
<1>1. n \in Nat /\ DOMAIN items = 1 .. n /\ TextsOf(items) \in Seq(Seq(T))
  BY PieceLines
<1>2. items \in Seq(U) /\ x \in U
  <2>1. items \in Seq({items[i] : i \in DOMAIN items})
    BY DEF Pieces, IsList
  <2> QED
    BY <2>1, SeqMonotonic
<1> HIDE DEF U
<1>3. more \in Seq(U) /\ Len(more) = n + 1 /\ (\A i \in 1 .. n : more[i] = items[i]) /\ more[n + 1] = x
  BY <1>2, AppendProperties
<1> HIDE DEF more
<1>4. DOMAIN more = 1 .. n + 1
  BY <1>3, LenProperties
<1>5. Pieces(T, more)
  <2>1. IsList(more)
    BY <1>3, ListIn
  <2>2. ASSUME NEW i \in 1 .. n + 1 PROVE Piece(T, more[i])
    <3>1. CASE i \in 1 .. n
      BY <1>1, <1>3, <3>1 DEF Pieces
    <3>2. CASE i \notin 1 .. n
      <4>1. i = n + 1
        BY <1>1, <3>2
      <4> QED
        BY <1>3, <4>1
    <3> QED
      BY <3>1, <3>2
  <2> QED
    BY <1>4, <2>1, <2>2 DEF Pieces
<1>6. TextsOf(more) = Append(TextsOf(items), x.lines)
  <2> DEFINE a == TextsOf(more)
             b == Append(TextsOf(items), x.lines)
  <2>1. Len(TextsOf(items)) = n /\ \A i \in 1 .. n : TextsOf(items)[i] = items[i].lines
    BY <1>1, LenProperties DEF TextsOf
  <2>2. x.lines \in Seq(T)
    BY DEF Piece
  <2>3. /\ b \in Seq(Seq(T)) /\ Len(b) = n + 1 /\ (\A i \in 1 .. n : b[i] = items[i].lines)
        /\ b[n + 1] = x.lines
    <3>1. /\ b \in Seq(Seq(T)) /\ Len(b) = n + 1 /\ (\A i \in 1 .. n : b[i] = TextsOf(items)[i])
          /\ b[n + 1] = x.lines
      BY <1>1, <2>1, <2>2, AppendProperties
    <3> QED
      BY <2>1, <3>1
  <2>4. \A i \in 1 .. n + 1 : a[i] = more[i].lines
    BY <1>4 DEF TextsOf
  <2>5. a \in Seq(Seq(T)) /\ Len(a) = n + 1
    <3>1. a \in Seq(Seq(T)) /\ Len(more) = n + 1 /\ DOMAIN a = 1 .. n + 1
      BY <1>3, <1>4, <1>5, PieceLines DEF TextsOf
    <3> QED
      BY <1>1, <3>1, LenProperties
  <2> HIDE DEF a, b
  <2>6. ASSUME NEW i \in 1 .. n + 1 PROVE a[i] = b[i]
    <3>1. CASE i \in 1 .. n
      BY <1>3, <2>3, <2>4, <3>1
    <3>2. CASE i \notin 1 .. n
      <4>1. i = n + 1
        BY <1>1, <3>2
      <4> QED
        BY <1>3, <2>3, <2>4, <4>1
    <3> QED
      BY <3>1, <3>2
  <2>7. a = b
    BY <2>3, <2>5, <2>6, SeqEqual
  <2> QED
    BY <2>7 DEF a, b
<1>7. FlattenSeq(TextsOf(more)) = FlattenSeq(TextsOf(items)) \o x.lines
  BY <1>1, <1>6, FlattenedMore DEF Piece
<1> QED
  BY <1>5, <1>7 DEF LinesOf, TextsOf, more

\* What the passes have produced holds the lines of s: in order, each in one place.
Holds(T, o, s) ==
  /\ {"segments", "exclusions"} \subseteq DOMAIN o
  /\ s \in Seq(T) /\ Pieces(T, o.segments) /\ Pieces(T, o.exclusions)
  /\ Merged(s, LinesOf(o.segments), LinesOf(o.exclusions))

LEMMA EmittedHolds ==
  ASSUME NEW T, NEW o, NEW s, Holds(T, o, s), NEW region, NEW type, NEW crumb, NEW lines \in Seq(T)
  PROVE  Holds(T, Emitted(o, region, type, crumb, lines), s \o lines)
<1> DEFINE p == Emitted(o, region, type, crumb, lines)
           x == [type |-> type, tier |-> TierOf(type), crumb |-> crumb, lines |-> lines,
                 at |-> <<Joined(o.path), OrdinalAt(o, o.path)>>, page |-> region.page, ocr |-> region.ocr,
                 hint |-> region.hint, signals |-> <<Winner("segment_type_prior", TierOf(type))>>,
                 basis |-> "segment_type_prior", suspicion |-> 0, flags |-> {}]
           c == Counted(o)
<1>1. /\ p = [o EXCEPT !.segments = Append(@, x), !.ordinals = c]
      /\ Piece(T, x) /\ x.lines = lines
  <2>1. p = [o EXCEPT !.segments = Append(@, x), !.ordinals = c]
    BY DEF Emitted
  <2>2. x.lines = lines /\ "lines" \in DOMAIN x
    OBVIOUS
  <2> QED
    BY <2>1, <2>2 DEF Piece
<1> HIDE DEF p, x, c
<1>2. {"segments", "exclusions"} \subseteq DOMAIN p /\ p.segments = Append(o.segments, x) /\ p.exclusions = o.exclusions
  <2> DEFINE q == [o EXCEPT !.segments = Append(@, x)]
  <2>1. p = [q EXCEPT !.ordinals = c]
    BY <1>1
  <2>2. DOMAIN q = DOMAIN o /\ q.segments = Append(o.segments, x) /\ q.exclusions = o.exclusions
    BY DEF Holds
  <2> HIDE DEF q
  <2>3. DOMAIN p = DOMAIN q /\ (\A k \in DOMAIN q : k # "ordinals" => p[k] = q[k])
    BY <2>1
  <2>4. {"segments", "exclusions"} \subseteq DOMAIN q
    BY <2>2 DEF Holds
  <2>5. p.segments = q.segments /\ p.exclusions = q.exclusions
    BY <2>3, <2>4
  <2> QED
    BY <2>2, <2>3, <2>4, <2>5
<1>3. Pieces(T, p.segments) /\ LinesOf(p.segments) = LinesOf(o.segments) \o lines
  <2>1. Pieces(T, o.segments) /\ Piece(T, x) /\ x.lines = lines
    BY <1>1 DEF Holds
  <2>2. Pieces(T, Append(o.segments, x)) /\ LinesOf(Append(o.segments, x)) = LinesOf(o.segments) \o x.lines
    BY <2>1, OneMore
  <2> QED
    BY <1>2, <2>1, <2>2
<1>4. LinesOf(o.segments) \in Seq(T) /\ LinesOf(o.exclusions) \in Seq(T)
  BY PieceLines DEF Holds
<1>5. Merged(s \o lines, LinesOf(o.segments) \o lines, LinesOf(o.exclusions))
  BY <1>4, MergedMore DEF Holds
<1>6. s \o lines \in Seq(T)
  BY ConcatProperties DEF Holds
<1> QED
  BY <1>2, <1>3, <1>5, <1>6 DEF Holds, p

LEMMA ExcludedHolds ==
  ASSUME NEW T, NEW o, NEW s, Holds(T, o, s), NEW reason, NEW lines \in Seq(T)
  PROVE  Holds(T, Excluded_(o, reason, lines), s \o lines)
<1> DEFINE p == Excluded_(o, reason, lines)
           x == [reason |-> reason, lines |-> lines]
<1>1. p = [o EXCEPT !.exclusions = Append(@, x)] /\ Piece(T, x) /\ x.lines = lines
  BY DEF Excluded_, Piece
<1> HIDE DEF p, x
<1>2. {"segments", "exclusions"} \subseteq DOMAIN p /\ p.exclusions = Append(o.exclusions, x) /\ p.segments = o.segments
  BY <1>1 DEF Holds
<1>3. Pieces(T, p.exclusions) /\ LinesOf(p.exclusions) = LinesOf(o.exclusions) \o lines
  BY ZenonT(60), <1>1, <1>2, OneMore DEF Holds
<1>4. LinesOf(o.segments) \in Seq(T) /\ LinesOf(o.exclusions) \in Seq(T)
  BY PieceLines DEF Holds
<1>5. Merged(s \o lines, LinesOf(o.segments), LinesOf(o.exclusions) \o lines)
  BY <1>4, MergedOther DEF Holds
<1>6. s \o lines \in Seq(T)
  BY ConcatProperties DEF Holds
<1> QED
  BY <1>2, <1>3, <1>5, <1>6 DEF Holds, p

LEMMA ReferenceHolds ==
  ASSUME NEW T, NEW o, NEW s, Holds(T, o, s), NEW lines
  PROVE  Holds(T, WithReference(o, lines), s)
BY DEF WithReference, Holds

LEMMA HeadingHolds ==
  ASSUME NEW T, NEW o, NEW s, Holds(T, o, s), NEW region, NEW line \in T
  PROVE  Holds(T, HeadingSegment(o, region, line), s \o <<line>>)
<1> DEFINE moved == [o EXCEPT !.path = UpdatedPath(@, line)]
<1>1. Holds(T, moved, s)
  BY DEF Holds
<1>2. \E type, crumb : HeadingSegment(o, region, line) = Emitted(moved, region, type, crumb, <<line>>)
  BY DEF HeadingSegment
<1>3. <<line>> \in Seq(T)
  OBVIOUS
<1> HIDE DEF moved
<1> QED
  BY <1>1, <1>2, <1>3, EmittedHolds

LEMMA BodyHolds ==
  ASSUME NEW T, NEW o, NEW s, Holds(T, o, s), NEW region, NEW first, NEW k, NEW lines \in Seq(T)
  PROVE  Holds(T, Body(o, region, first, k, lines), s \o lines)
<1>1. Holds(T, Excluded_(o, "too_short", lines), s \o lines)
  BY ExcludedHolds
<1>2. ASSUME NEW type
      PROVE  Holds(T, WithReference(Emitted(o, region, type, o.path, lines), lines), s \o lines)
  BY EmittedHolds, ReferenceHolds
<1> QED
  BY <1>1, <1>2 DEF Body

LEMMA ParagraphHolds ==
  ASSUME NEW T, NEW o, NEW s, Holds(T, o, s), NEW region, NEW first, NEW k, NEW lines \in Seq(T), lines # <<>>
  PROVE  Holds(T, Paragraph(o, region, first, k, lines), s \o lines)
<1> DEFINE h == lines[1]
           headed == HeadingSegment(o, region, h)
           rest == Tail(lines)
<1>1. h \in T /\ rest \in Seq(T) /\ lines = <<h>> \o rest /\ Len(lines) \in Nat \ {0} /\ Len(rest) = Len(lines) - 1
  <2>1. Len(lines) \in Nat \ {0}
    BY EmptySeq, LenProperties
  <2>2. h \in T
    BY <2>1, ElementOfSeq
  <2>3. /\ rest \in Seq(T) /\ Len(rest) = Len(lines) - 1
        /\ \A i \in 1 .. Len(lines) - 1 : rest[i] = lines[i + 1]
    BY HeadTailProperties
  <2>4. lines = <<h>> \o rest
    <3> DEFINE t == <<h>> \o rest
               n == Len(lines)
    <3>1. <<h>> \in Seq(T) /\ Len(<<h>>) = 1 /\ <<h>>[1] = h
      BY <2>2
    <3>2. /\ t \in Seq(T) /\ Len(t) = n
          /\ \A i \in 1 .. n : t[i] = IF i <= 1 THEN h ELSE rest[i - 1]
      <4>1. /\ t \in Seq(T) /\ Len(t) = 1 + (n - 1)
            /\ \A i \in 1 .. 1 + (n - 1) : t[i] = IF i <= 1 THEN <<h>>[i] ELSE rest[i - 1]
        BY <2>3, <3>1, ConcatProperties
      <4>2. 1 + (n - 1) = n
        BY <2>1
      <4> QED
        BY <2>1, <3>1, <4>1, <4>2
    <3> HIDE DEF t
    <3>3. ASSUME NEW i \in 1 .. n PROVE t[i] = lines[i]
      <4>1. CASE i = 1
        BY <3>2, <4>1
      <4>2. CASE i # 1
        <5>1. i - 1 \in 1 .. n - 1 /\ i - 1 + 1 = i /\ ~(i <= 1)
          BY <2>1, <4>2
        <5>2. rest[i - 1] = lines[i]
          BY <2>3, <5>1
        <5> QED
          BY <3>2, <5>1, <5>2
      <4> QED
        BY <4>1, <4>2
    <3> QED
      BY <3>2, <3>3, SeqEqual DEF t
  <2> QED
    BY <2>1, <2>2, <2>3, <2>4
<1> HIDE DEF h, rest
<1>2. Holds(T, headed, s \o <<h>>)
  BY <1>1, HeadingHolds
<1> HIDE DEF headed
<1>3. CASE region.hint # "table" /\ h.heading
  <2>1. CASE Len(lines) = 1
    <3>1. rest = <<>>
      <4>1. Len(rest) = 0
        BY <1>1, <2>1
      <4> QED
        BY <1>1, <4>1, EmptySeq
    <3>2. lines = <<h>>
      BY <1>1, <3>1, ConcatEmptySeq
    <3>3. Paragraph(o, region, first, k, lines) = headed
      BY <1>3, <2>1 DEF Paragraph, headed, h
    <3> QED
      BY <1>2, <3>2, <3>3
  <2>2. CASE Len(lines) # 1
    <3>1. Paragraph(o, region, first, k, lines) = Body(headed, region, first, k, rest)
      BY <1>3, <2>2 DEF Paragraph, headed, h, rest
    <3>2. Holds(T, Body(headed, region, first, k, rest), (s \o <<h>>) \o rest)
      BY <1>1, <1>2, BodyHolds
    <3>3. (s \o <<h>>) \o rest = s \o lines
      <4> DEFINE e == <<h>>
      <4>1. ListOf(T, s) /\ ListOf(T, e) /\ ListOf(T, rest) /\ lines = e \o rest
        BY <1>1 DEF ListOf, Holds
      <4> HIDE DEF e
      <4>2. (s \o e) \o rest = s \o lines
        <5>1. Regroups(s, e, rest)
          BY ZenonT(60), <4>1, Regrouped
        <5> QED
          BY ZenonT(60), <4>1, <5>1 DEF Regroups
      <4> QED
        BY <4>2 DEF e
    <3> QED
      BY <3>1, <3>2, <3>3
  <2> QED
    BY <2>1, <2>2
<1>4. CASE ~(region.hint # "table" /\ h.heading)
  <2>1. Paragraph(o, region, first, k, lines) = Body(o, region, first, k, lines)
    BY <1>4 DEF Paragraph, h
  <2> QED
    BY <2>1, BodyHolds
<1> QED
  BY <1>3, <1>4

\* The paragraphs of a region are its text, cut anew.
LEMMA ParagraphsWhole ==
  ASSUME NEW T, NEW region, region.blocks \in Seq(Seq(T) \ {<<>>})
  PROVE  /\ Paragraphs(region) \in Seq(Seq(T) \ {<<>>})
         /\ FlattenSeq(Paragraphs(region)) = FlattenSeq(region.blocks)
<1> DEFINE U == Seq(T) \ {<<>>}
           blocks == region.blocks
           n == Len(blocks)
           Cuts_(block) == IF LengthOf(block) >= NoBlankLineThreshold THEN SplitOnHeadings(block) ELSE <<block>>
           xss == [b \in DOMAIN blocks |-> Cuts_(blocks[b])]
<1>1. n \in Nat /\ DOMAIN blocks = 1 .. n /\ \A b \in 1 .. n : blocks[b] \in U
  BY LenProperties, ElementOfSeq
<1>2. Paragraphs(region) = FlattenSeq(xss)
  BY DEF Paragraphs
<1> HIDE DEF blocks
<1>3. \A s \in Seq(U) : s \in Seq(Seq(T))
  <2>1. U \subseteq Seq(T)
    OBVIOUS
  <2> QED
    BY <2>1, SeqMonotonic
<1>4. ASSUME NEW block \in U PROVE Cuts_(block) \in Seq(U) /\ FlattenSeq(Cuts_(block)) = block
  <2>1. SplitOnHeadings(block) \in Seq(U) /\ FlattenSeq(SplitOnHeadings(block)) = block
    BY SplitWhole
  <2>2. <<block>> \in Seq(U) /\ FlattenSeq(<<block>>) = block
    BY FlattenedOne
  <2> QED
    BY <2>1, <2>2
<1> HIDE DEF Cuts_
<1>5. Len(xss) = n /\ xss \in Seq(Seq(U)) /\ \A b \in 1 .. n : xss[b] = Cuts_(blocks[b])
  <2>1. xss \in [1 .. n -> Seq(U)]
    BY <1>1, <1>4
  <2>2. xss \in Seq(Seq(U))
    BY <1>1, <2>1
  <2> QED
    BY <1>1, <2>1, <2>2, LenProperties
<1> HIDE DEF xss, U, n
<1>6. FlattenSeq(xss) \in Seq(U)
  <2>1. <<>> \in Seq(U)
    BY EmptySeq
  <2> QED
    BY <1>5, <2>1, FlattenedMore
<1>7. xss \in Seq(Seq(Seq(T)))
  <2>1. Seq(U) \subseteq Seq(Seq(T))
    BY <1>3
  <2> QED
    BY <1>5, <2>1, SeqMonotonic
<1>8. blocks \in Seq(Seq(T)) /\ Len(blocks) = n
  BY <1>3 DEF blocks, U, n
<1>9. \A b \in 1 .. Len(xss) : blocks[b] = FlattenSeq(xss[b])
  BY <1>1, <1>4, <1>5
<1>10. FlattenSeq(FlattenSeq(xss)) = FlattenSeq(blocks)
  <2>1. Len(blocks) = Len(xss)
    BY <1>5, <1>8
  <2> HIDE DEF blocks
  <2>2. blocks \in Seq(Seq(T))
    BY <1>8
  <2> QED
    BY <1>7, <1>9, <2>1, <2>2, FlattenedTwice
<1> QED
  BY <1>2, <1>6, <1>10 DEF blocks, U

\* A region's paragraphs, one after the other.
LEMMA AfterHolds ==
  ASSUME NEW T, NEW o, NEW s, Holds(T, o, s), NEW region, NEW first,
         NEW paragraphs \in Seq(Seq(T) \ {<<>>})
  PROVE  Holds(T, AfterParagraphs(o, region, first, paragraphs), s \o FlattenSeq(paragraphs))
<1> DEFINE n == Len(paragraphs)
           Next_(p, k) == Paragraph(p, region, first, k, paragraphs[k])
           Join(f, k) == IF k = 0 THEN o ELSE Next_(f[k - 1], k)
           Solves(f) == f = [k \in 0 .. n |-> Join(f, k)]
<1>1. n \in Nat /\ \A k \in 1 .. n : paragraphs[k] \in Seq(T) /\ paragraphs[k] # <<>>
  BY LenProperties, ElementOfSeq
<1>2. AfterParagraphs(o, region, first, paragraphs) = (CHOOSE f : Solves(f))[n]
  BY DEF AfterParagraphs
<1> HIDE DEF n, Next_
<1>3. \E f : Solves(f)
  <2> DEFINE Upto(f, k) == DOMAIN f = 0 .. k /\ \A i \in 0 .. k : f[i] = Join(f, i)
             S == {m \in 1 .. n + 1 : \E f : Upto(f, m - 1)}
  <2>1. ASSUME NEW m \in 1 .. n + 1, m = 1 \/ m - 1 \in S PROVE m \in S
    <3>1. PICK f : \A i \in 0 .. m - 2 : f[i] = Join(f, i)
      <4>1. CASE m = 1
        BY <4>1
      <4>2. CASE m # 1
        <5>1. m - 1 - 1 = m - 2
          BY <1>1
        <5> QED
          BY <2>1, <4>2, <5>1
      <4> QED
        BY <4>1, <4>2
    <3> DEFINE g == [i \in 0 .. m - 1 |-> IF i = m - 1 THEN Join(f, m - 1) ELSE f[i]]
    <3>2. \A i \in 0 .. m - 1 : Join(g, i) = Join(f, i)
      <4> SUFFICES ASSUME NEW i \in 0 .. m - 1, i # 0 PROVE g[i - 1] = f[i - 1]
        OBVIOUS
      <4>1. i - 1 \in 0 .. m - 1 /\ i - 1 # m - 1
        BY <1>1
      <4> QED
        BY <4>1
    <3>3. \A i \in 0 .. m - 1 : g[i] = Join(f, i)
      <4> SUFFICES ASSUME NEW i \in 0 .. m - 1, i # m - 1 PROVE f[i] = Join(f, i)
        OBVIOUS
      <4>1. i \in 0 .. m - 2
        BY <1>1
      <4> QED
        BY <3>1, <4>1
    <3>4. DOMAIN g = 0 .. m - 1
      OBVIOUS
    <3> HIDE DEF g, Join
    <3>5. \A i \in 0 .. m - 1 : g[i] = Join(g, i)
      BY <3>2, <3>3
    <3> QED
      BY <3>4, <3>5
  <2> HIDE DEF S
  <2>2. n + 1 \in Nat /\ n + 1 \in 1 .. n + 1
    BY <1>1
  <2>3. \E k \in S : k - 1 = n
    <3>1. 1 .. n + 1 \subseteq S
      BY <2>1, <2>2, Climbs
    <3>2. (n + 1) - 1 = n
      BY <1>1
    <3> QED
      BY ZenonT(60), <2>2, <3>1, <3>2
  <2> HIDE DEF Join, Upto
  <2>10. \A m \in S : \E f : Upto(f, m - 1)
    BY DEF S
  <2> HIDE DEF S
  <2>11. PICK k \in S : k - 1 = n
    BY <2>3
  <2>4. PICK f : Upto(f, n)
    BY <2>10, <2>11
  <2> DEFINE g == [i \in 0 .. n |-> f[i]]
  <2>5. \A i \in 0 .. n : Join(g, i) = Join(f, i)
    <3> SUFFICES ASSUME NEW i \in 0 .. n PROVE Join(g, i) = Join(f, i)
      OBVIOUS
    <3>1. CASE i = 0
      BY <3>1 DEF Join
    <3>2. CASE i # 0
      <4>1. i - 1 \in 0 .. n
        BY <1>1, <3>2
      <4> QED
        BY <4>1 DEF Join
    <3> QED
      BY <3>1, <3>2
  <2>6. \A i \in 0 .. n : g[i] = Join(g, i)
    BY <2>4, <2>5 DEF Upto
  <2>7. g = [i \in 0 .. n |-> g[i]]
    OBVIOUS
  <2> HIDE DEF g
  <2>8. [i \in 0 .. n |-> g[i]] = [i \in 0 .. n |-> Join(g, i)]
    BY <2>6
  <2>9. Solves(g)
    BY <2>7, <2>8
  <2> QED
    BY <2>9
<1> DEFINE f == CHOOSE f : Solves(f)
<1>4. Solves(f)
  BY ZenonT(60), <1>3
<1> HIDE DEF f
<1>5. \A k \in 0 .. n : f[k] = Join(f, k)
  BY <1>4
<1> HIDE DEF Solves
<1>6. f[0] = o /\ \A k \in 1 .. n : f[k] = Next_(f[k - 1], k)
  <2>1. 0 \in 0 .. n /\ \A k \in 1 .. n : k \in 0 .. n /\ k # 0
    BY <1>1
  <2> QED
    BY <1>5, <2>1
<1> DEFINE Part(k) == SubSeq(paragraphs, 1, k)
           Good(k) == Holds(T, f[k], s \o FlattenSeq(Part(k)))
           S == {k \in 1 .. n : Good(k)}
<1>7. paragraphs \in Seq(Seq(T))
  <2>1. Seq(T) \ {<<>>} \subseteq Seq(T)
    OBVIOUS
  <2> QED
    BY <2>1, SeqMonotonic
<1>8. Good(0)
  <2>1. Part(0) = <<>> /\ s \o <<>> = s
    BY SubSeqEmpty, ConcatEmptySeq DEF Holds
  <2> QED
    BY <1>6, <2>1, FlattenedFirst
<1> HIDE DEF Part
<1>9. ASSUME NEW k \in 1 .. n, k = 1 \/ k - 1 \in S PROVE k \in S
  <2> DEFINE p == Part(k - 1)
             x == paragraphs[k]
             before == f[k - 1]
  <2>1. p \in Seq(Seq(T)) /\ x \in Seq(T) /\ x # <<>> /\ Part(k) = Append(p, x)
    BY <1>1, <1>7, UpTo DEF Part, n
  <2>2. Holds(T, before, s \o FlattenSeq(p))
    <3>1. CASE k = 1
      <4>1. k - 1 = 0
        BY <3>1
      <4> QED
        BY <1>8, <4>1
    <3>2. CASE k # 1
      BY <1>9, <3>2
    <3> QED
      BY <3>1, <3>2
  <2>3. f[k] = Paragraph(before, region, first, k, x)
    BY <1>6 DEF Next_
  <2> HIDE DEF p, x, before
  <2>4. Holds(T, f[k], (s \o FlattenSeq(p)) \o x)
    BY <2>1, <2>2, <2>3, ParagraphHolds
  <2>5. FlattenSeq(Append(p, x)) = FlattenSeq(p) \o x /\ FlattenSeq(p) \in Seq(T)
    BY <2>1, FlattenedMore
  <2>6. (s \o FlattenSeq(p)) \o x = s \o (FlattenSeq(p) \o x)
    <3> DEFINE P == FlattenSeq(p)
    <3>1. ListOf(T, s) /\ ListOf(T, P) /\ ListOf(T, x)
      BY <2>1, <2>5 DEF ListOf, Holds
    <3> HIDE DEF P
    <3>2. (s \o P) \o x = s \o (P \o x)
      <4>1. Regroups(s, P, x)
        BY ZenonT(60), <3>1, Regrouped
      <4> QED
        BY ZenonT(60), <4>1 DEF Regroups
    <3> QED
      BY <3>2 DEF P
  <2>7. Good(k)
    BY <2>1, <2>4, <2>5, <2>6
  <2> QED
    BY <2>7
<1> HIDE DEF S
<1>10. 1 .. n \subseteq S
  BY <1>1, <1>9, Climbs
<1>11. Good(n)
  <2>1. CASE n = 0
    BY <1>8, <2>1
  <2>2. CASE n # 0
    <3>1. n \in 1 .. n
      BY <1>1, <2>2
    <3> QED
      BY <1>10, <3>1 DEF S
  <2> QED
    BY <2>1, <2>2
<1>12. Part(n) = paragraphs
  BY SubSeqFull DEF Part, n
<1> QED
  BY <1>2, <1>11, <1>12 DEF f, n

\* Every line of every document that may be parsed.
LinesIn(block) == {block[i] : i \in DOMAIN block}
Text == UNION {UNION {UNION {LinesIn(d[r].blocks[b]) : b \in DOMAIN d[r].blocks} : r \in DOMAIN d} : d \in Documents_}

LEMMA DocumentTyped ==
  ASSUME NEW d \in Documents_
  PROVE  /\ Len(d) \in Nat /\ DOMAIN d = 1 .. Len(d)
         /\ \A r \in 1 .. Len(d) : d[r].blocks \in Seq(Seq(Text) \ {<<>>})
<1>1. Len(d) \in Nat /\ DOMAIN d = 1 .. Len(d)
  BY DocumentsAssumption, LenProperties
<1>2. ASSUME NEW r \in DOMAIN d PROVE d[r].blocks \in Seq(Seq(Text) \ {<<>>})
  <2> DEFINE blocks == d[r].blocks
             U == Seq(Text) \ {<<>>}
  <2>1. /\ blocks \in Seq({blocks[b] : b \in DOMAIN blocks})
        /\ \A b \in DOMAIN blocks : blocks[b] # <<>> /\ blocks[b] \in Seq(LinesIn(blocks[b]))
    BY DocumentsAssumption DEF LinesIn
  <2>2. ASSUME NEW b \in DOMAIN blocks PROVE blocks[b] \in U
    <3>1. LinesIn(blocks[b]) \subseteq Text
      BY DEF Text
    <3> QED
      BY <2>1, <3>1, SeqMonotonic
  <2>3. {blocks[b] : b \in DOMAIN blocks} \subseteq U
    BY <2>2
  <2> QED
    BY <2>1, <2>3, SeqMonotonic
<1> QED
  BY <1>1, <1>2

SegInv ==
  /\ document.regions \in Documents_ /\ regionNo \in 1 .. Len(document.regions) + 1
  /\ Holds(Text, out, SeenLines)

\* A pass that leaves each segment its lines changes nothing of this.
SameLines(olds, news) ==
  /\ news = [i \in DOMAIN olds |-> news[i]]
  /\ \A i \in DOMAIN olds : "lines" \in DOMAIN olds[i] => "lines" \in DOMAIN news[i] /\ news[i].lines = olds[i].lines

LEMMA PassHolds ==
  ASSUME NEW T, NEW o, NEW s, Holds(T, o, s), NEW items, SameLines(o.segments, items)
  PROVE  Holds(T, [o EXCEPT !.segments = items], s)
<1> DEFINE olds == o.segments
           n == Len(olds)
           p == [o EXCEPT !.segments = items]
<1>1. Pieces(T, olds)
  BY DEF Holds
<1>2. n \in Nat /\ DOMAIN olds = 1 .. n
  BY <1>1, PieceLines
<1>3. {"segments", "exclusions"} \subseteq DOMAIN p /\ p.segments = items /\ p.exclusions = o.exclusions
  BY DEF Holds
<1> HIDE DEF p, olds
<1>4. items = [i \in 1 .. n |-> items[i]] /\ DOMAIN items = 1 .. n
  BY <1>2 DEF SameLines, olds
<1>5. \A i \in 1 .. n : Piece(T, items[i]) /\ items[i].lines = olds[i].lines
  BY <1>1, <1>2 DEF SameLines, olds, Pieces, Piece
<1>6. Pieces(T, items)
  <2>1. IsList(items)
    BY <1>2, <1>4 DEF IsList
  <2> QED
    BY <1>4, <1>5, <2>1 DEF Pieces
<1>7. LinesOf(items) = LinesOf(olds)
  <2>1. TextsOf(items) = TextsOf(olds)
    BY <1>2, <1>4, <1>5 DEF TextsOf
  <2> QED
    BY <2>1 DEF LinesOf, TextsOf
<1> QED
  BY <1>3, <1>6, <1>7 DEF Holds, p, olds

LEMMA SegStarts ==
  ASSUME SegInit
  PROVE  SegInv
<1>1. /\ document.regions \in Documents_ /\ regionNo = 1
      /\ out = [segments |-> <<>>, exclusions |-> <<>>, references |-> <<>>, path |-> <<>>,
                ordinals |-> [p \in {} |-> 0], firstPage |-> -1]
  BY DEF SegInit, SegFrom
<1>2. {"segments", "exclusions"} \subseteq DOMAIN out /\ out.segments = <<>> /\ out.exclusions = <<>>
  BY <1>1
<1>3. SeenLines = <<>>
  <2>1. [r \in 1 .. regionNo - 1 |-> FlattenSeq(document.regions[r].blocks)] = <<>>
    BY <1>1
  <2> QED
    BY <2>1, FlattenedFirst DEF SeenLines
<1>4. Pieces(Text, <<>>) /\ LinesOf(<<>>) = <<>>
  <2>1. IsList(<<>>) /\ DOMAIN <<>> = {}
    BY DEF IsList
  <2>2. [i \in DOMAIN <<>> |-> <<>>[i].lines] = <<>>
    BY <2>1
  <2>3. LinesOf(<<>>) = FlattenSeq([i \in DOMAIN <<>> |-> <<>>[i].lines])
    BY DEF LinesOf
  <2> QED
    BY <2>1, <2>2, <2>3, FlattenedFirst DEF Pieces
<1>5. 1 \in 1 .. Len(document.regions) + 1
  BY <1>1, DocumentTyped
<1>6. <<>> \in Seq(Text)
  BY EmptySeq
<1> QED
  BY <1>1, <1>2, <1>3, <1>4, <1>5, <1>6, MergedFirst DEF SegInv, Holds

\* The next region's text comes behind what has been looked at.
LEMMA SeenMore ==
  ASSUME SegInv, regionNo \in DOMAIN document.regions, regionNo' = regionNo + 1, document' = document
  PROVE  /\ SeenLines' = SeenLines \o FlattenSeq(document.regions[regionNo].blocks)
         /\ FlattenSeq(document.regions[regionNo].blocks) \in Seq(Text)
<1> DEFINE d == document.regions
           F(r) == FlattenSeq(d[r].blocks)
           seen == [r \in 1 .. regionNo - 1 |-> F(r)]
           more == [r \in 1 .. regionNo |-> F(r)]
<1>1. Len(d) \in Nat /\ regionNo \in 1 .. Len(d) /\ \A r \in 1 .. Len(d) : d[r].blocks \in Seq(Seq(Text))
  <2>1. /\ Len(d) \in Nat /\ DOMAIN d = 1 .. Len(d)
        /\ \A r \in 1 .. Len(d) : d[r].blocks \in Seq(Seq(Text) \ {<<>>})
    BY DocumentTyped DEF SegInv
  <2>2. Seq(Seq(Text) \ {<<>>}) \subseteq Seq(Seq(Text))
    <3>1. Seq(Text) \ {<<>>} \subseteq Seq(Text)
      OBVIOUS
    <3> QED
      BY <3>1, SeqMonotonic
  <2> QED
    BY <2>1, <2>2
<1> HIDE DEF d
<1>2. \A r \in 1 .. Len(d) : F(r) \in Seq(Text)
  <2>1. <<>> \in Seq(Text)
    BY EmptySeq
  <2> QED
    BY <1>1, <2>1, FlattenedMore
<1> HIDE DEF F
<1>3. seen \in Seq(Seq(Text)) /\ Len(seen) = regionNo - 1
  <2>1. regionNo - 1 \in Nat /\ \A r \in 1 .. regionNo - 1 : r \in 1 .. Len(d)
    BY <1>1
  <2>2. seen \in [1 .. regionNo - 1 -> Seq(Text)]
    BY <1>2, <2>1
  <2> QED
    BY <2>1, <2>2, LenProperties
<1>4. more = Append(seen, F(regionNo))
  BY <1>1, <1>3
<1>5. FlattenSeq(more) = FlattenSeq(seen) \o F(regionNo)
  BY <1>1, <1>2, <1>3, <1>4, FlattenedMore
<1>6. SeenLines = FlattenSeq(seen)
  BY DEF SeenLines, F, d
<1>7. SeenLines' = FlattenSeq(more)
  <2>1. regionNo' - 1 = regionNo
    BY <1>1
  <2>2. SeenLines' = FlattenSeq([r \in 1 .. regionNo' - 1 |-> FlattenSeq(document'.regions[r].blocks)])
    BY DEF SeenLines
  <2> QED
    BY <2>1, <2>2 DEF F, d
<1> QED
  BY <1>1, <1>2, <1>5, <1>6, <1>7 DEF F, d

LEMMA RegionHolds ==
  ASSUME SegInv, SegmentRegion
  PROVE  SegInv'
<1> DEFINE d == document.regions
           region == d[regionNo]
           text == FlattenSeq(region.blocks)
           first == out.firstPage \in {-1, region.page}
           opened == [out EXCEPT !.firstPage = IF @ = -1 THEN region.page ELSE @]
<1>1. /\ regionNo \in DOMAIN d /\ regionNo' = regionNo + 1 /\ document' = document
      /\ \/ \E reason : out' = Excluded_(out, reason, text)
         \/ out' = Emitted(opened, region, "scanned_region", out.path, text)
         \/ out' = AfterParagraphs(opened, region, first, Paragraphs(region))
  BY DEF SegmentRegion
<1>2. SeenLines' = SeenLines \o text /\ text \in Seq(Text)
  BY <1>1, SeenMore
<1>3. Holds(Text, out, SeenLines)
  BY DEF SegInv
<1>4. Holds(Text, opened, SeenLines)
  BY <1>3 DEF Holds
<1>5. Len(d) \in Nat /\ regionNo \in 1 .. Len(d) /\ region.blocks \in Seq(Seq(Text) \ {<<>>})
  BY <1>1, DocumentTyped DEF SegInv
<1> HIDE DEF opened, region, d, first
<1>6. Holds(Text, out', SeenLines \o text)
  <2>1. ASSUME NEW reason PROVE Holds(Text, Excluded_(out, reason, text), SeenLines \o text)
    BY <1>2, <1>3, ExcludedHolds
  <2>2. Holds(Text, Emitted(opened, region, "scanned_region", out.path, text), SeenLines \o text)
    BY <1>2, <1>4, EmittedHolds
  <2>3. Holds(Text, AfterParagraphs(opened, region, first, Paragraphs(region)), SeenLines \o text)
    <3>1. Paragraphs(region) \in Seq(Seq(Text) \ {<<>>}) /\ FlattenSeq(Paragraphs(region)) = text
      BY <1>5, ParagraphsWhole
    <3> QED
      BY <1>4, <3>1, AfterHolds
  <2> QED
    BY <1>1, <2>1, <2>2, <2>3
<1>7. document'.regions \in Documents_ /\ regionNo' \in 1 .. Len(document'.regions) + 1
  BY <1>1, <1>5 DEF SegInv, d
<1>8. Holds(Text, out', SeenLines')
  BY <1>2, <1>6
<1> QED
  BY <1>7, <1>8 DEF SegInv

\* What each pass makes of a segment keeps its lines.
LEMMA LinesStay ==
  ASSUME NEW seg, "lines" \in DOMAIN seg
  PROVE  /\ "lines" \in DOMAIN OcrTiered(seg) /\ OcrTiered(seg).lines = seg.lines
         /\ "lines" \in DOMAIN Retyped(seg) /\ Retyped(seg).lines = seg.lines
         /\ "lines" \in DOMAIN Promoted(seg) /\ Promoted(seg).lines = seg.lines
         /\ "lines" \in DOMAIN Scored_(seg) /\ Scored_(seg).lines = seg.lines
         /\ "lines" \in DOMAIN Suppressed(seg) /\ Suppressed(seg).lines = seg.lines
<1> DEFINE Unchanged_(x) == "lines" \in DOMAIN x /\ x.lines = seg.lines
<1>1. ASSUME NEW kind, NEW tier PROVE Unchanged_(Overridden(seg, kind, tier))
  BY DEF Overridden
<1>2. ASSUME NEW x, NEW type, Unchanged_(x) PROVE Unchanged_([x EXCEPT !.type = type])
  BY <1>2
<1>3. Unchanged_(seg)
  OBVIOUS
<1> HIDE DEF Unchanged_
<1>4. Unchanged_(OcrTiered(seg))
  BY <1>1, <1>3 DEF OcrTiered
<1>5. Unchanged_(Retyped(seg))
  BY <1>1, <1>2, <1>3 DEF Retyped
<1>6. Unchanged_(Promoted(seg))
  BY <1>1, <1>2, <1>3 DEF Promoted
<1>7. Unchanged_(Scored_(seg))
  BY DEF Scored_, Unchanged_
<1>8. Unchanged_(Suppressed(seg))
  BY <1>1, <1>3 DEF Suppressed
<1> QED
  BY <1>4, <1>5, <1>6, <1>7, <1>8 DEF Unchanged_

LEMMA SegKept ==
  ASSUME SegInv, [SegNext]_segVars
  PROVE  SegInv'
<1> DEFINE olds == out.segments
           Rewritten(news) == /\ SameLines(olds, news) /\ out' = [out EXCEPT !.segments = news]
                              /\ UNCHANGED <<document, regionNo>>
<1>1. ASSUME NEW news, Rewritten(news) PROVE SegInv'
  <2>1. Holds(Text, out', SeenLines)
    BY <1>1, PassHolds DEF SegInv
  <2>2. SeenLines' = SeenLines
    BY <1>1 DEF SeenLines
  <2> QED
    BY <1>1, <2>1, <2>2 DEF SegInv
<1> HIDE DEF Rewritten
<1>2. CASE SegmentRegion
  BY <1>2, RegionHolds
<1>3. CASE SaliencePass
  <2>1. Rewritten([i \in DOMAIN olds |-> OcrTiered(olds[i])])
    BY <1>3, LinesStay DEF SaliencePass, RunPass, Rewritten, SameLines
  <2> QED
    BY <1>1, <2>1
<1>4. CASE BoilerplatePass
  <2>1. Rewritten([i \in DOMAIN olds |-> Retyped(olds[i])])
    BY <1>4, LinesStay DEF BoilerplatePass, RunPass, Rewritten, SameLines
  <2> QED
    BY <1>1, <2>1
<1>5. CASE TaxonomyPass
  <2>1. Rewritten([i \in DOMAIN olds |-> Promoted(olds[i])])
    BY <1>5, LinesStay DEF TaxonomyPass, RunPass, Rewritten, SameLines
  <2> QED
    BY <1>1, <2>1
<1>6. CASE InjectionPass
  <2>1. Rewritten([i \in DOMAIN olds |-> Scored_(olds[i])])
    BY <1>6, LinesStay DEF InjectionPass, RunPass, Rewritten, SameLines
  <2> QED
    BY <1>1, <2>1
<1>7. CASE SupersededVersionPass
  <2>1. Rewritten([i \in DOMAIN olds |-> Suppressed(olds[i])])
    BY <1>7, LinesStay DEF SupersededVersionPass, RunPass, Rewritten, SameLines
  <2> QED
    BY <1>1, <2>1
<1>8. CASE ResolveReferences
  <2>1. \E refs : out' = [out EXCEPT !.references = refs] /\ UNCHANGED <<document, regionNo>>
    BY <1>8 DEF ResolveReferences
  <2>2. DOMAIN out' = DOMAIN out /\ (\A k \in DOMAIN out : k # "references" => out'[k] = out[k])
    BY <2>1
  <2>3. Holds(Text, out', SeenLines)
    BY <2>2 DEF SegInv, Holds
  <2>4. SeenLines' = SeenLines
    BY <2>1 DEF SeenLines
  <2> QED
    BY <2>1, <2>3, <2>4 DEF SegInv
<1>9. CASE UNCHANGED segVars
  BY <1>9 DEF segVars, SegInv, SeenLines
<1> QED
  BY <1>2, <1>3, <1>4, <1>5, <1>6, <1>7, <1>8, <1>9 DEF SegNext

LEMMA SegHoldsAll == SegSpec => []SegInv
<1>1. SegInit => SegInv
  BY SegStarts
<1>2. SegInv /\ [SegNext]_segVars => SegInv'
  BY SegKept
<1> QED
  BY <1>1, <1>2, PTL DEF SegSpec

\* No silent content loss: the lines of the segments and those of the exclusions, merged, are
\* the lines of the regions the segmentation pass has seen, for documents of any length and
\* whatever their lines look like, repeated ones included (pipeline/decompose/passes).
THEOREM LinesAreKept == SegSpec => []NothingLost
<1>1. SegInv => NothingLost
  <2>1. SUFFICES ASSUME SegInv PROVE NothingLost
    OBVIOUS
  <2>2. /\ SeenLines \in Seq(Text) /\ LinesOf(out.segments) \in Seq(Text)
        /\ LinesOf(out.exclusions) \in Seq(Text)
        /\ Merged(SeenLines, LinesOf(out.segments), LinesOf(out.exclusions))
    BY <2>1, PieceLines DEF SegInv, Holds
  <2> QED
    BY <2>2, MergedMerges DEF NothingLost
<1> QED
  BY <1>1, SegHoldsAll, PTL
=============================================================================
