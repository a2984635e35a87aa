------------------------------ MODULE ListProofs ------------------------------
(* Proofs about what is kept in lists and computed from them step by step: the journal   *)
(* of changes (ChangeJournal), and three parts of MCParts, the report of a run that was  *)
(* cut (CutRun), the images of a message (ImageSet) and what the file tools answer       *)
(* (FileAnswers).                                                                        *)
EXTENDS MCParts, ChangeJournal, FiniteSetTheorems, SequenceTheorems, WellFoundedInduction, TLAPS

-----------------------------------------------------------------------------
(* Recursion and sequences. *)

\* A set of numbers with 0 and the successor of each of its members is Nat.
LEMMA Induction ==
    ASSUME NEW S \in SUBSET Nat, 0 \in S, \A n \in S : n + 1 \in S
    PROVE  S = Nat
<1>. SUFFICES ASSUME Nat \ S # {} PROVE FALSE
  OBVIOUS
<1>. DEFINE R == OpToRel(<, Nat)
<1>1. IsWellFoundedOn(R, Nat)
  BY NatLessThanWellFounded
<1>2. PICK m \in Nat \ S : \A y \in Nat \ S : ~(<<y, m>> \in R)
  <2>. HIDE DEF R
  <2>. QED BY <1>1, WFMin
<1>3. m # 0 /\ m - 1 \in Nat /\ (m - 1) + 1 = m
  OBVIOUS
<1>4. m - 1 \notin S
  BY <1>3
<1>5. <<m - 1, m>> \in R
  BY <1>3 DEF OpToRel
<1>. QED BY <1>2, <1>3, <1>4, <1>5

\* What a recursive function on 0..n computes from its former value exists.
IsRecursion(n, T, base, h) == n \in Nat /\ base \in T /\ h \in [(1..n) \X T -> T]
Solves(g, n, base, h) == g[0] = base /\ \A i \in 1..n : g[i] = h[<<i, g[i - 1]>>]

LEMMA RecursionExists ==
    ASSUME NEW n, NEW T, NEW base, NEW h, IsRecursion(n, T, base, h)
    PROVE  \E g \in [0..n -> T] : Solves(g, n, base, h)
<1>. USE DEF IsRecursion, Solves
<1>. DEFINE S == {m \in Nat : m <= n => \E g \in [0..m -> T] : Solves(g, m, base, h)}
<1>1. 0 \in S
  <2>1. [i \in 0..0 |-> base] \in [0..0 -> T] /\ Solves([i \in 0..0 |-> base], 0, base, h)
    OBVIOUS
  <2>. QED BY <2>1
<1>2. ASSUME NEW m \in S PROVE m + 1 \in S
  <2>. SUFFICES ASSUME m + 1 <= n PROVE \E g \in [0..(m + 1) -> T] : Solves(g, m + 1, base, h)
    OBVIOUS
  <2>1. PICK g \in [0..m -> T] : Solves(g, m, base, h)
    BY DEF S
  <2>. DEFINE k == [i \in 0..(m + 1) |-> IF i = m + 1 THEN h[<<m + 1, g[m]>>] ELSE g[i]]
  <2>2. h[<<m + 1, g[m]>>] \in T
    BY <2>1
  <2>3. k \in [0..(m + 1) -> T]
    BY <2>1, <2>2
  <2>4. k[0] = base
    BY <2>1
  <2>5. ASSUME NEW i \in 1..(m + 1) PROVE k[i] = h[<<i, k[i - 1]>>]
    <3>1. CASE i = m + 1
      <4>1. k[m + 1] = h[<<m + 1, g[m]>>] /\ k[m] = g[m]
        OBVIOUS
      <4>2. (m + 1) - 1 = m
        OBVIOUS
      <4>. HIDE DEF k
      <4>. QED BY <3>1, <4>1, <4>2
    <3>2. CASE i # m + 1
      BY <2>1, <3>2
    <3>. QED BY <3>1, <3>2
  <2>. QED BY <2>3, <2>4, <2>5
<1>3. S = Nat
  <2>. HIDE DEF S
  <2>1. S \in SUBSET Nat
    BY DEF S
  <2>. QED BY <1>1, <1>2, <2>1, Induction
<1>. QED BY <1>3

\* A set of sequences with the empty one and all it makes by appending has all sequences.
LEMMA SequenceInduction ==
    ASSUME NEW T, NEW P \in SUBSET Seq(T), <<>> \in P,
           \A s \in P, e \in T : Append(s, e) \in P
    PROVE  P = Seq(T)
<1>. DEFINE S == {n \in Nat : \A s \in Seq(T) : Len(s) = n => s \in P}
<1>1. 0 \in S
  OBVIOUS
<1>2. ASSUME NEW n \in S PROVE n + 1 \in S
  <2>. SUFFICES ASSUME NEW s \in Seq(T), Len(s) = n + 1 PROVE s \in P
    OBVIOUS
  <2>1. s # <<>>
    OBVIOUS
  <2>2. PICK t \in Seq(T), e \in T : s = Append(t, e)
    BY <2>1, SequenceEmptyOrAppend
  <2>3. Len(t) = n
    BY <2>2
  <2>. QED BY <2>2, <2>3
<1>3. S = Nat
  <2>1. S \in SUBSET Nat
    OBVIOUS
  <2>. HIDE DEF S
  <2>. QED BY <1>1, <1>2, <2>1, Induction
<1>4. ASSUME NEW s \in Seq(T) PROVE s \in P
  <2>1. Len(s) \in S
    BY <1>3
  <2>. QED BY <2>1
<1>. QED BY <1>4

-----------------------------------------------------------------------------
\* The entries kept of the first i of a list.
Keeps(g, list, runs) ==
    /\ g[0] = <<>>
    /\ \A i \in 1..Len(list) :
          g[i] = IF list[i].run \in runs THEN Append(g[i - 1], list[i]) ELSE g[i - 1]

LEMMA KeepsOne ==
    ASSUME NEW list, Len(list) \in Nat, NEW runs, NEW f, NEW g,
           Keeps(f, list, runs), Keeps(g, list, runs)
    PROVE  \A i \in 0..Len(list) : f[i] = g[i]
<1>. DEFINE S == {i \in Nat : i <= Len(list) => f[i] = g[i]}
<1>1. 0 \in S
  BY DEF Keeps
<1>2. ASSUME NEW i \in S PROVE i + 1 \in S
  <2>. SUFFICES ASSUME i + 1 <= Len(list) PROVE f[i + 1] = g[i + 1]
    OBVIOUS
  <2>1. i + 1 \in 1..Len(list) /\ (i + 1) - 1 = i /\ f[i] = g[i]
    OBVIOUS
  <2>. QED BY <2>1 DEF Keeps
<1>3. S = Nat
  <2>1. S \in SUBSET Nat
    OBVIOUS
  <2>. HIDE DEF S
  <2>. QED BY <1>1, <1>2, <2>1, Induction
<1>. QED BY <1>3

LEMMA OfRunsIs ==
    ASSUME NEW list \in Seq(Entry), NEW runs
    PROVE  \E g \in [0..Len(list) -> Seq(Entry)] :
              Keeps(g, list, runs) /\ OfRuns(list, runs) = g[Len(list)]
<1>. DEFINE n == Len(list)
            h == [x \in (1..n) \X Seq(Entry) |->
                     IF list[x[1]].run \in runs THEN Append(x[2], list[x[1]]) ELSE x[2]]
            Kept(g) == [i \in 0..n |-> IF i = 0 THEN <<>>
                                       ELSE IF list[i].run \in runs THEN Append(g[i - 1], list[i])
                                       ELSE g[i - 1]]
<1>1. h \in [(1..n) \X Seq(Entry) -> Seq(Entry)] /\ n \in Nat
  OBVIOUS
<1>2. PICK g \in [0..n -> Seq(Entry)] : g[0] = <<>> /\ \A i \in 1..n : g[i] = h[<<i, g[i - 1]>>]
  <2>1. <<>> \in Seq(Entry)
    OBVIOUS
  <2>2. IsRecursion(n, Seq(Entry), <<>>, h)
    BY <1>1, <2>1 DEF IsRecursion
  <2>. HIDE DEF h, n
  <2>3. PICK g \in [0..n -> Seq(Entry)] : Solves(g, n, <<>>, h)
    BY <2>2, RecursionExists
  <2>. QED BY <2>3 DEF Solves
<1>3. \A i \in 1..n : h[<<i, g[i - 1]>>] =
          IF list[i].run \in runs THEN Append(g[i - 1], list[i]) ELSE g[i - 1]
  <2>1. \A i \in 1..n : <<i, g[i - 1]>> \in (1..n) \X Seq(Entry)
    BY <1>2
  <2>. QED BY <2>1
<1>4. Keeps(g, list, runs)
  BY <1>2, <1>3 DEF Keeps
<1>5. g = Kept(g)
  <2>1. g = [i \in 0..n |-> g[i]]
    OBVIOUS
  <2>2. \A i \in 0..n : g[i] = Kept(g)[i]
    <3>1. \A i \in 0..n : i = 0 \/ i \in 1..n
      BY <1>1
    <3>. HIDE DEF n
    <3>. QED BY <1>2, <1>3, <3>1
  <2>. HIDE DEF n
  <2>. QED BY <2>1, <2>2
<1>. DEFINE k == CHOOSE f : f = Kept(f)
<1>6. k = Kept(k)
  BY <1>5
<1>7. OfRuns(list, runs) = k[n]
  BY DEF OfRuns
<1>8. Keeps(k, list, runs)
  <2>1. \A i \in 0..n : k[i] = Kept(k)[i]
    <3>. HIDE DEF k, n
    <3>. QED BY <1>6
  <2>2. 0 \in 0..n /\ \A i \in 1..n : i \in 0..n /\ i # 0
    BY <1>1
  <2>. HIDE DEF k
  <2>. QED BY <2>1, <2>2 DEF Keeps
<1>9. k[n] = g[n]
  <2>. HIDE DEF k
  <2>. QED BY <1>1, <1>4, <1>8, KeepsOne
<1>. QED BY <1>4, <1>7, <1>9

LEMMA OfRunsEmpty ==
    ASSUME NEW runs PROVE OfRuns(<<>>, runs) = <<>>
<1>1. <<>> \in Seq(Entry) /\ Len(<<>>) = 0
  OBVIOUS
<1>2. PICK g : Keeps(g, <<>>, runs) /\ OfRuns(<<>>, runs) = g[Len(<<>>)]
  BY <1>1, OfRunsIs
<1>. QED BY <1>1, <1>2 DEF Keeps

LEMMA OfRunsType ==
    ASSUME NEW list \in Seq(Entry), NEW runs PROVE OfRuns(list, runs) \in Seq(Entry)
<1>1. PICK g \in [0..Len(list) -> Seq(Entry)] : OfRuns(list, runs) = g[Len(list)]
  BY OfRunsIs
<1>2. Len(list) \in 0..Len(list)
  OBVIOUS
<1>. QED BY <1>1, <1>2

LEMMA OfRunsAppend ==
    ASSUME NEW list \in Seq(Entry), NEW e \in Entry, NEW runs
    PROVE  OfRuns(Append(list, e), runs) =
              IF e.run \in runs THEN Append(OfRuns(list, runs), e) ELSE OfRuns(list, runs)
<1>. DEFINE n == Len(list)
            longer == Append(list, e)
<1>1. longer \in Seq(Entry) /\ Len(longer) = n + 1 /\ n \in Nat /\ longer[n + 1] = e
  OBVIOUS
<1>2. \A i \in 1..n : longer[i] = list[i] /\ i \in 1..(n + 1)
  OBVIOUS
<1>3. PICK g : Keeps(g, list, runs) /\ OfRuns(list, runs) = g[n]
  BY OfRunsIs
<1>4. PICK h : Keeps(h, longer, runs) /\ OfRuns(longer, runs) = h[n + 1]
  BY <1>1, OfRunsIs
<1>. HIDE DEF longer, n
<1>5. Keeps(h, list, runs)
  BY <1>1, <1>2, <1>4 DEF Keeps, n
<1>6. h[n] = g[n]
  BY <1>1, <1>3, <1>5, KeepsOne DEF n
<1>7. h[n + 1] = IF longer[n + 1].run \in runs THEN Append(h[n], longer[n + 1]) ELSE h[n]
  <2>1. n + 1 \in 1..Len(longer) /\ (n + 1) - 1 = n
    BY <1>1
  <2>. QED BY <1>4, <2>1 DEF Keeps
<1>. QED BY <1>1, <1>3, <1>4, <1>6, <1>7 DEF longer

\* What a list and another one it is made of have.
Has(list, e) == \E i \in DOMAIN list : list[i] = e

LEMMA HasAppend ==
    ASSUME NEW list \in Seq(Entry), NEW e \in Entry, NEW x
    PROVE  Has(Append(list, e), x) <=> Has(list, x) \/ x = e
<1>1. DOMAIN Append(list, e) = 1..(Len(list) + 1) /\ DOMAIN list = 1..Len(list)
  OBVIOUS
<1>2. \A i \in 1..Len(list) : Append(list, e)[i] = list[i]
  OBVIOUS
<1>3. Append(list, e)[Len(list) + 1] = e
  OBVIOUS
<1>4. \A i \in 1..(Len(list) + 1) : i \in 1..Len(list) \/ i = Len(list) + 1
  OBVIOUS
<1>5. \A i \in 1..Len(list) : i \in 1..(Len(list) + 1)
  OBVIOUS
<1>6. Len(list) + 1 \in 1..(Len(list) + 1)
  OBVIOUS
<1>. QED BY <1>1, <1>2, <1>3, <1>4, <1>5, <1>6 DEF Has

\* An entry is kept exactly if its run is one of these.
LEMMA OfRunsHas ==
    ASSUME NEW runs
    PROVE  \A list \in Seq(Entry) : \A x :
              Has(OfRuns(list, runs), x) <=> Has(list, x) /\ x.run \in runs
<1>. DEFINE P == {list \in Seq(Entry) : \A x :
                     Has(OfRuns(list, runs), x) <=> Has(list, x) /\ x.run \in runs}
<1>1. <<>> \in P
  BY OfRunsEmpty DEF Has
<1>2. ASSUME NEW list \in P, NEW e \in Entry PROVE Append(list, e) \in P
  <2>1. list \in Seq(Entry) /\ Append(list, e) \in Seq(Entry)
    OBVIOUS
  <2>. SUFFICES ASSUME NEW x
                PROVE  Has(OfRuns(Append(list, e), runs), x)
                          <=> Has(Append(list, e), x) /\ x.run \in runs
    BY <2>1
  <2>2. Has(OfRuns(list, runs), x) <=> Has(list, x) /\ x.run \in runs
    OBVIOUS
  <2>3. OfRuns(list, runs) \in Seq(Entry)
    BY <2>1, OfRunsType
  <2>4. Has(Append(list, e), x) <=> Has(list, x) \/ x = e
    BY <2>1, HasAppend
  <2>5. Has(Append(OfRuns(list, runs), e), x) <=> Has(OfRuns(list, runs), x) \/ x = e
    BY <2>3, HasAppend
  <2>6. OfRuns(Append(list, e), runs) =
           IF e.run \in runs THEN Append(OfRuns(list, runs), e) ELSE OfRuns(list, runs)
    BY <2>1, OfRunsAppend
  <2>. QED BY <2>2, <2>4, <2>5, <2>6
<1>3. P = Seq(Entry)
  <2>1. P \in SUBSET Seq(Entry)
    OBVIOUS
  <2>. HIDE DEF P
  <2>. QED BY <1>1, <1>2, <2>1, SequenceInduction
<1>. QED BY <1>3

LEMMA OfRunsOfRuns ==
    ASSUME NEW a, NEW b
    PROVE  \A list \in Seq(Entry) : OfRuns(OfRuns(list, a), b) = OfRuns(list, a \cap b)
<1>. DEFINE P == {list \in Seq(Entry) : OfRuns(OfRuns(list, a), b) = OfRuns(list, a \cap b)}
<1>1. <<>> \in P
  BY OfRunsEmpty
<1>2. ASSUME NEW list \in P, NEW e \in Entry PROVE Append(list, e) \in P
  <2>1. list \in Seq(Entry) /\ Append(list, e) \in Seq(Entry)
    OBVIOUS
  <2>2. OfRuns(list, a) \in Seq(Entry)
    BY <2>1, OfRunsType
  <2>3. OfRuns(Append(list, e), a) =
           IF e.run \in a THEN Append(OfRuns(list, a), e) ELSE OfRuns(list, a)
    BY <2>1, OfRunsAppend
  <2>4. OfRuns(Append(OfRuns(list, a), e), b) =
           IF e.run \in b THEN Append(OfRuns(OfRuns(list, a), b), e)
           ELSE OfRuns(OfRuns(list, a), b)
    BY <2>2, OfRunsAppend
  <2>5. OfRuns(Append(list, e), a \cap b) =
           IF e.run \in a \cap b THEN Append(OfRuns(list, a \cap b), e)
           ELSE OfRuns(list, a \cap b)
    BY <2>1, OfRunsAppend
  <2>6. OfRuns(OfRuns(list, a), b) = OfRuns(list, a \cap b)
    OBVIOUS
  <2>7. OfRuns(OfRuns(Append(list, e), a), b) = OfRuns(Append(list, e), a \cap b)
    <3>1. e.run \in a \cap b <=> e.run \in a /\ e.run \in b
      OBVIOUS
    <3>2. CASE e.run \in a
      BY <2>3, <2>4, <2>5, <2>6, <3>1, <3>2
    <3>3. CASE e.run \notin a
      BY <2>3, <2>5, <2>6, <3>1, <3>3
    <3>. QED BY <3>2, <3>3
  <2>. QED BY <2>1, <2>7
<1>3. P = Seq(Entry)
  <2>1. P \in SUBSET Seq(Entry)
    OBVIOUS
  <2>. HIDE DEF P
  <2>. QED BY <1>1, <1>2, <2>1, SequenceInduction
<1>. QED BY <1>3

InRuns(list, runs) == \A i \in DOMAIN list : list[i].run \in runs

\* A list that has these runs' entries alone is kept whole, one that has none of them not at all.
LEMMA OfRunsWhole ==
    ASSUME NEW runs
    PROVE  \A list \in Seq(Entry) : InRuns(list, runs) => OfRuns(list, runs) = list
<1>. DEFINE P == {list \in Seq(Entry) : InRuns(list, runs) => OfRuns(list, runs) = list}
<1>1. <<>> \in P
  BY OfRunsEmpty
<1>2. ASSUME NEW list \in P, NEW e \in Entry PROVE Append(list, e) \in P
  <2>1. list \in Seq(Entry) /\ Append(list, e) \in Seq(Entry)
    OBVIOUS
  <2>2. OfRuns(Append(list, e), runs) =
           IF e.run \in runs THEN Append(OfRuns(list, runs), e) ELSE OfRuns(list, runs)
    BY <2>1, OfRunsAppend
  <2>3. ASSUME InRuns(Append(list, e), runs) PROVE e.run \in runs /\ InRuns(list, runs)
    <3>1. \A i \in DOMAIN list : i \in DOMAIN Append(list, e) /\ Append(list, e)[i] = list[i]
      BY <2>1
    <3>2. Len(list) + 1 \in DOMAIN Append(list, e) /\ Append(list, e)[Len(list) + 1] = e
      BY <2>1
    <3>. QED BY <2>3, <3>1, <3>2 DEF InRuns
  <2>4. InRuns(Append(list, e), runs) => OfRuns(Append(list, e), runs) = Append(list, e)
    BY <2>2, <2>3
  <2>. QED BY <2>1, <2>4
<1>3. P = Seq(Entry)
  <2>1. P \in SUBSET Seq(Entry)
    OBVIOUS
  <2>. HIDE DEF P
  <2>. QED BY <1>1, <1>2, <2>1, SequenceInduction
<1>. QED BY <1>3

LEMMA OfRunsNone ==
    ASSUME NEW list \in Seq(Entry), NEW runs, \A i \in DOMAIN list : list[i].run \notin runs
    PROVE  OfRuns(list, runs) = <<>>
<1>1. OfRuns(list, runs) \in Seq(Entry)
  BY OfRunsType
<1>2. \A x : ~Has(OfRuns(list, runs), x)
  BY OfRunsHas DEF Has
<1>3. DOMAIN OfRuns(list, runs) = {}
  BY <1>2 DEF Has
<1>. QED BY <1>1, <1>3
-----------------------------------------------------------------------------
(* Lists of changes that tell the truth. *)

\* What the first entry of a run for a file says is sure, if nothing changed the file behind
\* a call's back.
Sure == {x \in Runs \X Files : "race" \notin kinds /\ x \notin contended}

SameFile(d, e) == d.run = e.run /\ d.file = e.file
IsFirst(list, i) == \A j \in 1..(i - 1) : ~SameFile(list[j], list[i])
TrueEntry(list, i, known, sure) ==
    /\ known[list[i].run][list[i].file] # Untouched
    /\ <<list[i].run, list[i].file>> \in sure /\ IsFirst(list, i) =>
          list[i].before = known[list[i].run][list[i].file]
IsTrue(list, known, sure) == \A i \in DOMAIN list : TrueEntry(list, i, known, sure)

\* A true entry after a true list: it is the first of its file only if the list has none.
TrueNext(list, e, known, sure) ==
    /\ known[e.run][e.file] # Untouched
    /\ <<e.run, e.file>> \in sure /\ (\A i \in DOMAIN list : ~SameFile(list[i], e)) =>
          e.before = known[e.run][e.file]

LEMMA TrueAppend ==
    ASSUME NEW list \in Seq(Entry), NEW e \in Entry, NEW known, NEW sure
    PROVE  IsTrue(Append(list, e), known, sure)
              <=> IsTrue(list, known, sure) /\ TrueNext(list, e, known, sure)
<1>. DEFINE n == Len(list)
            longer == Append(list, e)
<1>1. n \in Nat /\ DOMAIN list = 1..n /\ DOMAIN longer = 1..(n + 1) /\ longer[n + 1] = e
  OBVIOUS
<1>2. \A i \in 1..n : longer[i] = list[i]
  OBVIOUS
<1>. HIDE DEF n, longer
<1>3. \A i \in 1..n : TrueEntry(longer, i, known, sure) <=> TrueEntry(list, i, known, sure)
  <2>. SUFFICES ASSUME NEW i \in 1..n
                PROVE  TrueEntry(longer, i, known, sure) <=> TrueEntry(list, i, known, sure)
    OBVIOUS
  <2>1. \A j \in 1..(i - 1) : j \in 1..n
    BY <1>1
  <2>2. IsFirst(longer, i) <=> IsFirst(list, i)
    BY <1>2, <2>1 DEF IsFirst
  <2>. QED BY <1>2, <2>2 DEF TrueEntry
<1>4. TrueEntry(longer, n + 1, known, sure) <=> TrueNext(list, e, known, sure)
  <2>1. (n + 1) - 1 = n
    BY <1>1
  <2>2. IsFirst(longer, n + 1) <=> \A i \in DOMAIN list : ~SameFile(list[i], e)
    BY <1>1, <1>2, <2>1 DEF IsFirst
  <2>. QED BY <1>1, <2>2 DEF TrueEntry, TrueNext
<1>5. \A i : i \in 1..(n + 1) <=> i \in 1..n \/ i = n + 1
  BY <1>1
<1>. QED BY <1>1, <1>3, <1>4, <1>5 DEF IsTrue, longer

LEMMA OfRunsTrue ==
    ASSUME NEW runs, NEW known, NEW sure
    PROVE  \A list \in Seq(Entry) :
              IsTrue(list, known, sure) => IsTrue(OfRuns(list, runs), known, sure)
<1>. DEFINE P == {list \in Seq(Entry) :
                     IsTrue(list, known, sure) => IsTrue(OfRuns(list, runs), known, sure)}
<1>1. <<>> \in P
  BY OfRunsEmpty
<1>2. ASSUME NEW list \in P, NEW e \in Entry PROVE Append(list, e) \in P
  <2>1. list \in Seq(Entry) /\ Append(list, e) \in Seq(Entry)
    OBVIOUS
  <2>. SUFFICES ASSUME IsTrue(Append(list, e), known, sure)
                PROVE  IsTrue(OfRuns(Append(list, e), runs), known, sure)
    BY <2>1
  <2>2. OfRuns(Append(list, e), runs) =
           IF e.run \in runs THEN Append(OfRuns(list, runs), e) ELSE OfRuns(list, runs)
    BY <2>1, OfRunsAppend
  <2>3. IsTrue(list, known, sure) /\ TrueNext(list, e, known, sure)
    BY <2>1, TrueAppend
  <2>4. IsTrue(OfRuns(list, runs), known, sure)
    BY <2>3
  <2>5. ASSUME e.run \in runs PROVE TrueNext(OfRuns(list, runs), e, known, sure)
    <3>. SUFFICES ASSUME \A i \in DOMAIN OfRuns(list, runs) :
                             ~SameFile(OfRuns(list, runs)[i], e)
                  PROVE  \A i \in DOMAIN list : ~SameFile(list[i], e)
      BY <2>3 DEF TrueNext
    <3>. SUFFICES ASSUME NEW i \in DOMAIN list, SameFile(list[i], e) PROVE FALSE
      OBVIOUS
    <3>1. Has(list, list[i]) /\ list[i].run \in runs
      BY <2>5 DEF Has, SameFile
    <3>2. Has(OfRuns(list, runs), list[i])
      BY <2>1, <3>1, OfRunsHas
    <3>. QED BY <3>2 DEF Has
  <2>6. OfRuns(list, runs) \in Seq(Entry)
    BY <2>1, OfRunsType
  <2>7. e.run \in runs => IsTrue(Append(OfRuns(list, runs), e), known, sure)
    BY <2>4, <2>5, <2>6, TrueAppend
  <2>. QED BY <2>2, <2>4, <2>7
<1>3. P = Seq(Entry)
  <2>1. P \in SUBSET Seq(Entry)
    OBVIOUS
  <2>. HIDE DEF P
  <2>. QED BY <1>1, <1>2, <2>1, SequenceInduction
<1>. QED BY <1>3

\* A true list stays true when the runs write more files, and less is sure.
KnowsMore(known, later) ==
    \A r \in Runs, f \in Files : known[r][f] # Untouched => later[r][f] = known[r][f]

LEMMA StaysTrue ==
    ASSUME NEW list \in Seq(Entry), NEW known, NEW later, NEW sure, NEW less \in SUBSET sure,
           KnowsMore(known, later), IsTrue(list, known, sure)
    PROVE  IsTrue(list, later, less)
<1>. SUFFICES ASSUME NEW i \in DOMAIN list PROVE TrueEntry(list, i, later, less)
  BY DEF IsTrue
<1>1. list[i].run \in Runs /\ list[i].file \in Files
  <2>1. list[i] \in Entry
    OBVIOUS
  <2>. QED BY <2>1 DEF Entry
<1>2. TrueEntry(list, i, known, sure)
  BY DEF IsTrue
<1>3. later[list[i].run][list[i].file] = known[list[i].run][list[i].file]
  BY <1>1, <1>2 DEF TrueEntry, KnowsMore
<1>. QED BY <1>2, <1>3 DEF TrueEntry

LEMMA FrontAndLast ==
    ASSUME NEW T, NEW list \in Seq(T), list # <<>>
    PROVE  /\ Front(list) \in Seq(T) /\ Last(list) \in T
           /\ list = Append(Front(list), Last(list))
<1>1. PICK t \in Seq(T), e \in T : list = Append(t, e)
  BY SequenceEmptyOrAppend
<1>2. Len(list) = Len(t) + 1 /\ Len(t) \in Nat
  BY <1>1
<1>3. Last(list) = e
  BY <1>1, <1>2 DEF Last
<1>4. Front(list) = t
  <2>1. Front(list) = SubSeq(list, 1, Len(t))
    BY <1>2 DEF Front
  <2>2. SubSeq(list, 1, Len(t)) \in Seq(T) /\ Len(SubSeq(list, 1, Len(t))) = Len(t)
    BY <1>2
  <2>3. \A i \in 1..Len(t) : SubSeq(list, 1, Len(t))[i] = t[i]
    BY <1>1, <1>2
  <2>. DEFINE u == SubSeq(list, 1, Len(t))
  <2>4. u \in Seq(T) /\ Len(u) = Len(t) /\ \A i \in 1..Len(t) : u[i] = t[i]
    BY <2>2, <2>3
  <2>. HIDE DEF u
  <2>5. u = t
    BY <2>4
  <2>. QED BY <2>1, <2>5 DEF u
<1>. QED BY <1>1, <1>3, <1>4

\* The front of a true list is true.
LEMMA TrueFront ==
    ASSUME NEW list \in Seq(Entry), list # <<>>, NEW known, NEW sure,
           IsTrue(list, known, sure)
    PROVE  IsTrue(Front(list), known, sure) /\ TrueNext(Front(list), Last(list), known, sure)
<1>1. /\ Front(list) \in Seq(Entry) /\ Last(list) \in Entry
      /\ list = Append(Front(list), Last(list))
  BY FrontAndLast
<1>. QED BY <1>1, TrueAppend
-----------------------------------------------------------------------------
(* The invariant of ChangeJournal: what holds of the lists of changes - the journal, the    *)
(* checkpoints, the lists the calls are about to save, the list an undo still has before it. *)

JournalTypes ==
    /\ file \in [Files -> Contents]
    /\ call \in [Calls -> Call \cup {NoCall}]
    /\ entries \in Seq(Entry)
    /\ checkpoint \in [Runs -> Seq(Entry) \cup {NoCheckpoint}]
    /\ undo \in Undo \cup {NoUndo}
    /\ run \in 0..MaxRuns /\ running \in BOOLEAN /\ interrupted \in 0..MaxRuns
    /\ origin \in [Runs -> [Files -> Contents \cup {Untouched}]]

IsOpen(c) == call[c] # NoCall
Persisting(c) == IsOpen(c) /\ call[c].pc = "persist"
Recording(c) == IsOpen(c) /\ call[c].pc = "record"

\* Calls belong to the run that runs, and nothing of a later run is anywhere yet.
JournalRuns ==
    /\ running => undo = NoUndo /\ interrupted = 0 /\ run # 0
    /\ \A c \in Calls : IsOpen(c) => running /\ call[c].entry.run = run
    /\ interrupted <= run
    /\ \A i \in DOMAIN entries : entries[i].run <= run
    /\ \A r \in Runs : r > run => /\ checkpoint[r] = NoCheckpoint
                                  /\ \A f \in Files : origin[r][f] = Untouched
    /\ ~overlapped => \A c, d \in Calls : IsOpen(c) /\ IsOpen(d) => c = d

\* Without overlapping calls the disk has what the journal has of a run no call of which is
\* about to save it, but for the runs whose checkpoint was pruned or could not be written.
Saving(r) == \E c \in Calls : Persisting(c) /\ call[c].entry.run = r
JournalOnDisk ==
    ~overlapped =>
        /\ \A c \in Calls : Persisting(c) => call[c].snapshot = OfRun(run)
        /\ \A r \in Runs \ behind : OfRun(r) # <<>> /\ ~Saving(r) => checkpoint[r] = OfRun(r)

FilesIn(list) == {list[i].file : i \in DOMAIN list}
Covered(r) == IF checkpoint[r] = NoCheckpoint THEN {} ELSE FilesIn(checkpoint[r])
Touched(r) == {f \in Files : origin[r][f] # Untouched}

\* A file the run has written is in its journal or about to be recorded; what its checkpoint
\* lacks is what one call wrote.
JournalIsComplete ==
    /\ running => \A f \in Touched(run) :
          \/ f \in FilesIn(OfRun(run))
          \/ \E c \in Calls : Recording(c) /\ call[c].entry.file = f
    /\ ~overlapped /\ run \notin behind => \A c \in Calls : Persisting(c) =>
          FilesIn(call[c].snapshot) \subseteq Covered(run) \cup {call[c].entry.file}
    /\ interrupted \notin behind \cup {0} /\ ~overlapped =>
          \A f, g \in Touched(interrupted) \ Covered(interrupted) : f = g

TrueList(list, r) == IsTrue(list, origin, Sure) /\ InRuns(list, {r})
ListsAreTrue ==
    /\ IsTrue(entries, origin, Sure)
    /\ \A r \in Runs : checkpoint[r] # NoCheckpoint => TrueList(checkpoint[r], r)
    /\ \A c \in Calls : Persisting(c) => TrueList(call[c].snapshot, run)
    /\ undo # NoUndo => TrueList(undo.todo, undo.run)

\* A call finds the file as it read it, if that is sure.
CallsAreTrue ==
    /\ \A c, d \in Calls : /\ IsOpen(c) /\ IsOpen(d) /\ c # d
                           /\ call[c].entry.file = call[d].entry.file
                           => <<run, call[c].entry.file>> \in contended
    /\ \A c \in Calls : IsOpen(c) =>
          LET e == call[c].entry IN
          /\ call[c].pc \in {"check", "ask", "write"} /\ <<run, e.file>> \in Sure =>
                file[e.file] = e.before
          /\ call[c].pc = "record" => TrueNext(OfRun(run), e, origin, Sure)

\* So does an undo, and what it is done with is back.
UndoIsTrue ==
    undo # NoUndo =>
        /\ undo.pc \in {"ask", "write"} /\ "race" \notin kinds =>
              undo.todo # <<>> /\ file[Last(undo.todo).file] = Last(undo.todo).after
        /\ \A f \in undo.restored \ undo.skipped :
              <<undo.run, f>> \in Sure /\ f \notin FilesIn(undo.todo) =>
                  file[f] = origin[undo.run][f]

JournalInv ==
    /\ JournalTypes /\ JournalRuns /\ JournalOnDisk /\ JournalIsComplete
    /\ ListsAreTrue /\ CallsAreTrue /\ UndoIsTrue

JournalHeads == file' = file /\ entries' = entries /\ checkpoint' = checkpoint
JournalNumbers == run' = run /\ running' = running /\ interrupted' = interrupted
JournalPast == /\ origin' = origin /\ overlapped' = overlapped /\ contended' = contended
               /\ behind' = behind

LEMMA JournalParts ==
    ASSUME JournalInv
    PROVE  /\ JournalTypes /\ JournalRuns /\ JournalOnDisk /\ JournalIsComplete
           /\ ListsAreTrue /\ CallsAreTrue /\ UndoIsTrue
BY DEF JournalInv

LEMMA OfRunFacts ==
    ASSUME JournalInv, NEW r
    PROVE  /\ OfRun(r) \in Seq(Entry) /\ IsTrue(OfRun(r), origin, Sure) /\ InRuns(OfRun(r), {r})
<1>1. entries \in Seq(Entry) /\ IsTrue(entries, origin, Sure)
  BY DEF JournalInv, JournalTypes, ListsAreTrue
<1>2. OfRun(r) \in Seq(Entry)
  BY <1>1, OfRunsType DEF OfRun
<1>3. IsTrue(OfRun(r), origin, Sure)
  BY <1>1, OfRunsTrue DEF OfRun
<1>4. InRuns(OfRun(r), {r})
  <2>. SUFFICES ASSUME NEW i \in DOMAIN OfRun(r) PROVE OfRun(r)[i].run = r
    BY DEF InRuns
  <2>1. Has(OfRuns(entries, {r}), OfRun(r)[i])
    BY DEF Has, OfRun
  <2>. QED BY <1>1, <2>1, OfRunsHas
<1>. QED BY <1>2, <1>3, <1>4

\* A fault makes nothing sure.
LEMMA LessIsSure ==
    ASSUME kinds \subseteq kinds', contended \subseteq contended'
    PROVE  Sure' \subseteq Sure
BY DEF Sure, Runs

\* Steps after which the calls in progress are some of those there were, with what they are
\* about to record or to save.
CallsStay ==
    /\ call' \in [Calls -> Call \cup {NoCall}]
    /\ \A c \in Calls : IsOpen(c)' => IsOpen(c) /\ call'[c].entry = call[c].entry
    /\ \A c \in Calls : Persisting(c) \/ Persisting(c)' => call'[c] = call[c]
    /\ \A c \in Calls : Recording(c) \/ Recording(c)' => call'[c] = call[c]

LEMMA CallsStayInv ==
    ASSUME JournalInv, CallsStay, JournalHeads, JournalNumbers, JournalPast, undo' = undo,
           kinds \subseteq kinds'
    PROVE  JournalInv'
<1>. USE JournalParts DEF JournalHeads, JournalNumbers, JournalPast
<1>1. Sure' \subseteq Sure
  BY LessIsSure
<1>2. \A c \in Calls : Persisting(c)' <=> Persisting(c)
  BY DEF CallsStay, Persisting, IsOpen
<1>3. \A c \in Calls : Recording(c)' <=> Recording(c)
  BY DEF CallsStay, Recording, IsOpen
<1>4. KnowsMore(origin, origin)
  BY DEF KnowsMore
<1>5. \A r : OfRun(r)' = OfRun(r)
  BY DEF OfRun
<1>6. JournalTypes'
  BY DEF JournalTypes, CallsStay
<1>7. JournalRuns'
  BY DEF JournalRuns, CallsStay, IsOpen
<1>8. JournalOnDisk'
  <2>1. \A r : Saving(r)' <=> Saving(r)
    BY <1>2 DEF Saving, CallsStay
  <2>. QED BY <1>2, <1>5, <2>1 DEF JournalOnDisk, CallsStay
<1>9. JournalIsComplete'
  BY <1>2, <1>3, <1>5 DEF JournalIsComplete, CallsStay, Touched, Covered
<1>10. ListsAreTrue'
  <2>1. ASSUME NEW list \in Seq(Entry), IsTrue(list, origin, Sure)
        PROVE  IsTrue(list, origin, Sure')
    BY <1>1, <1>4, <2>1, StaysTrue
  <2>2. IsTrue(entries, origin, Sure)'
    BY <2>1 DEF JournalTypes, ListsAreTrue
  <2>3. ASSUME NEW r \in Runs, checkpoint[r] # NoCheckpoint PROVE TrueList(checkpoint[r], r)'
    BY <2>1, <2>3 DEF JournalTypes, ListsAreTrue, TrueList
  <2>4. ASSUME NEW c \in Calls, Persisting(c)' PROVE TrueList(call[c].snapshot, run)'
    <3>1. call'[c] = call[c] /\ Persisting(c)
      BY <1>2, <2>4 DEF CallsStay
    <3>2. call[c].snapshot \in Seq(Entry)
      BY <3>1 DEF JournalTypes, Call, Persisting, IsOpen
    <3>3. TrueList(call[c].snapshot, run)
      BY <3>1 DEF ListsAreTrue
    <3>. QED BY <2>1, <3>1, <3>2, <3>3 DEF TrueList
  <2>5. ASSUME undo # NoUndo PROVE TrueList(undo.todo, undo.run)'
    <3>1. undo.todo \in Seq(Entry)
      BY <2>5 DEF JournalTypes, Undo
    <3>. QED BY <2>1, <2>5, <3>1 DEF ListsAreTrue, TrueList
  <2>. QED BY <2>2, <2>3, <2>4, <2>5 DEF ListsAreTrue
<1>11. CallsAreTrue'
  <2>1. \A c, d \in Calls : /\ IsOpen(c)' /\ IsOpen(d)' /\ c # d
                           /\ call'[c].entry.file = call'[d].entry.file
                           => <<run', call'[c].entry.file>> \in contended'
    BY DEF CallsAreTrue, CallsStay
  <2>2. ASSUME NEW c \in Calls, IsOpen(c)'
        PROVE  /\ call'[c].pc \in {"check", "ask", "write"}
                      /\ <<run, call'[c].entry.file>> \in Sure' =>
                    file[call'[c].entry.file] = call'[c].entry.before
               /\ call'[c].pc = "record" => TrueNext(OfRun(run), call'[c].entry, origin, Sure')
    <3>1. IsOpen(c) /\ call'[c].entry = call[c].entry
      BY <2>2 DEF CallsStay
    <3>2. call'[c].pc = "record" => call[c].pc = "record"
      BY <2>2 DEF CallsStay, Recording
    <3>3. call'[c].pc \in {"check", "ask", "write"} => call[c].pc \in {"check", "ask", "write"}
      <4>1. call[c].pc \in {"check", "ask", "write", "record", "persist"}
        BY <3>1 DEF JournalTypes, Call, IsOpen
      <4>2. call[c].pc \in {"record", "persist"} => call'[c].pc = call[c].pc
        BY <3>1 DEF CallsStay, Recording, Persisting
      <4>. QED BY <4>1, <4>2
    <3>4. call[c].pc = "record" => TrueNext(OfRun(run), call[c].entry, origin, Sure)
      BY <3>1 DEF CallsAreTrue
    <3>. QED BY <1>1, <3>1, <3>2, <3>3, <3>4 DEF CallsAreTrue, TrueNext
  <2>. QED BY <1>5, <2>1, <2>2 DEF CallsAreTrue
<1>12. UndoIsTrue'
  BY <1>1 DEF UndoIsTrue
<1>. QED BY <1>6, <1>7, <1>8, <1>9, <1>10, <1>11, <1>12 DEF JournalInv
\* One call is replaced by value, the others stay.
LEMMA OneCallMoves ==
    ASSUME JournalTypes, NEW c \in Calls, NEW value, SetCall(c, value)
    PROVE  call'[c] = value /\ \A d \in Calls : d # c => call'[d] = call[d]
BY DEF JournalTypes, SetCall

LEMMA CallIs ==
    ASSUME JournalTypes, NEW c \in Calls, IsOpen(c)
    PROVE  /\ call[c] \in Call /\ call[c].entry \in Entry
           /\ call[c].entry.file \in Files /\ call[c].entry.run \in Runs
           /\ call[c].snapshot \in Seq(Entry)
BY DEF JournalTypes, IsOpen, Call, Entry

LEMMA CallMovesOn ==
    ASSUME JournalInv, NEW c \in Calls, IsOpen(c), call[c].pc \in {"check", "ask", "write"},
           NEW value, SetCall(c, value),
           \/ value = NoCall
           \/ value \in Call /\ value.pc \in {"ask", "write"} /\ value.entry = call[c].entry
    PROVE  CallsStay
<1>1. JournalTypes
  BY DEF JournalInv
<1>2. call'[c] = value /\ \A d \in Calls : d # c => call'[d] = call[d]
  BY <1>1, OneCallMoves
<1>3. call' \in [Calls -> Call \cup {NoCall}]
  BY <1>1 DEF JournalTypes, SetCall
<1>4. \A d \in Calls : IsOpen(d)' => IsOpen(d) /\ call'[d].entry = call[d].entry
  BY <1>2 DEF IsOpen
<1>5. \A d \in Calls : Persisting(d) \/ Persisting(d)' => call'[d] = call[d]
  BY <1>2 DEF IsOpen, Persisting
<1>6. \A d \in Calls : Recording(d) \/ Recording(d)' => call'[d] = call[d]
  BY <1>2 DEF IsOpen, Recording
<1>. QED BY <1>3, <1>4, <1>5, <1>6 DEF CallsStay

LEMMA Unmoved == ASSUME JournalTypes, call' = call PROVE CallsStay
BY DEF JournalTypes, CallsStay, IsOpen, Persisting, Recording

LEMMA JournalStutters == ASSUME JournalInv, UNCHANGED vars PROVE JournalInv'
<1>1. JournalTypes
  BY DEF JournalInv
<1>2. CallsStay
  BY <1>1, Unmoved DEF vars
<1>. QED BY <1>2, CallsStayInv DEF vars, past, hist, JournalHeads, JournalNumbers, JournalPast

LEMMA JournalReadFile == ASSUME JournalInv, NEW f \in Files, ReadFile(f) PROVE JournalInv'
<1>1. JournalTypes
  BY DEF JournalInv
<1>2. CallsStay
  BY <1>1, Unmoved DEF ReadFile
<1>. QED BY <1>2, CallsStayInv DEF ReadFile, past, hist, JournalHeads, JournalNumbers, JournalPast

LEMMA JournalCheckFresh == ASSUME JournalInv, NEW c \in Calls, CheckFresh(c) PROVE JournalInv'
<1>1. IsOpen(c) /\ call[c].pc = "check"
  BY DEF CheckFresh, IsOpen
<1>2. JournalTypes
  BY DEF JournalInv
<1>3. PICK value : SetCall(c, value) /\ (value = NoCall \/ value = [call[c] EXCEPT !.pc = "ask"])
  BY DEF CheckFresh
<1>4. LET moved == [call[c] EXCEPT !.pc = "ask"] IN
      moved \in Call /\ moved.pc = "ask" /\ moved.entry = call[c].entry
  BY <1>1, <1>2, CallIs DEF Call
<1>5. CallsStay
  BY <1>1, <1>3, <1>4, CallMovesOn
<1>. QED BY <1>5, CallsStayInv DEF CheckFresh, past, hist, JournalHeads, JournalNumbers,
            JournalPast

LEMMA JournalAllowed == ASSUME JournalInv, NEW c \in Calls, Allowed(c) PROVE JournalInv'
<1>1. IsOpen(c) /\ call[c].pc = "ask"
  BY DEF Allowed, IsOpen
<1>2. JournalTypes
  BY DEF JournalInv
<1>. DEFINE moved == [call[c] EXCEPT !.pc = "write"]
<1>3. SetCall(c, moved)
  BY DEF Allowed
<1>4. moved \in Call /\ moved.pc = "write" /\ moved.entry = call[c].entry
  BY <1>1, <1>2, CallIs DEF Call
<1>. HIDE DEF moved
<1>5. CallsStay
  BY <1>1, <1>3, <1>4, CallMovesOn
<1>. QED BY <1>5, CallsStayInv DEF Allowed, past, hist, JournalHeads, JournalNumbers, JournalPast

LEMMA JournalDenied == ASSUME JournalInv, NEW c \in Calls, Denied(c) PROVE JournalInv'
<1>1. IsOpen(c) /\ call[c].pc = "ask"
  BY DEF Denied, IsOpen
<1>2. SetCall(c, NoCall)
  BY DEF Denied
<1>3. CallsStay
  BY <1>1, <1>2, CallMovesOn
<1>4. kinds \subseteq kinds'
  BY DEF Denied, Fault
<1>. QED BY <1>3, <1>4, CallsStayInv DEF Denied, hist, JournalHeads, JournalNumbers, JournalPast
LEMMA ListsStayTrue ==
    ASSUME JournalInv, entries' = entries, checkpoint' = checkpoint, undo' = undo,
           KnowsMore(origin, origin'), Sure' \subseteq Sure,
           \A c \in Calls : Persisting(c)' => Persisting(c) /\ call'[c] = call[c] /\ run' = run
    PROVE  ListsAreTrue'
<1>. USE JournalParts
<1>1. ASSUME NEW list \in Seq(Entry), IsTrue(list, origin, Sure)
      PROVE  IsTrue(list, origin', Sure')
  BY <1>1, StaysTrue
<1>2. IsTrue(entries, origin, Sure)'
  BY <1>1 DEF JournalTypes, ListsAreTrue
<1>3. ASSUME NEW r \in Runs, checkpoint[r] # NoCheckpoint PROVE TrueList(checkpoint[r], r)'
  BY <1>1, <1>3 DEF JournalTypes, ListsAreTrue, TrueList
<1>4. ASSUME NEW c \in Calls, Persisting(c)' PROVE TrueList(call[c].snapshot, run)'
  <2>1. call'[c] = call[c] /\ Persisting(c) /\ run' = run
    BY <1>4
  <2>2. call[c].snapshot \in Seq(Entry)
    BY <2>1, CallIs DEF Persisting
  <2>3. TrueList(call[c].snapshot, run)
    BY <2>1 DEF ListsAreTrue
  <2>. QED BY <1>1, <2>1, <2>2, <2>3 DEF TrueList
<1>5. ASSUME undo # NoUndo PROVE TrueList(undo.todo, undo.run)'
  <2>1. undo.todo \in Seq(Entry)
    BY <1>5 DEF JournalTypes, Undo
  <2>. QED BY <1>1, <1>5, <2>1 DEF ListsAreTrue, TrueList
<1>. QED BY <1>2, <1>3, <1>4, <1>5 DEF ListsAreTrue

LEMMA FilesAppend ==
    ASSUME NEW list \in Seq(Entry), NEW e \in Entry
    PROVE  FilesIn(Append(list, e)) = FilesIn(list) \cup {e.file}
<1>1. \A x : Has(Append(list, e), x) <=> Has(list, x) \/ x = e
  BY HasAppend
<1>2. \A f : f \in FilesIn(Append(list, e)) <=> \E x : Has(Append(list, e), x) /\ f = x.file
  BY DEF FilesIn, Has
<1>3. \A f : f \in FilesIn(list) <=> \E x : Has(list, x) /\ f = x.file
  BY DEF FilesIn, Has
<1>. QED BY <1>1, <1>2, <1>3

LEMMA JournalBegin ==
    ASSUME JournalInv, NEW c \in Calls, NEW f \in Files, NEW text \in Texts, Begin(c, f, text)
    PROVE  JournalInv'
<1>. USE JournalParts
<1>. DEFINE e == [file |-> f, before |-> file[f], after |-> text, run |-> run]
            value == [pc |-> "check", snapshot |-> <<>>, entry |-> e]
<1>1. /\ running /\ ~IsOpen(c) /\ SetCall(c, value)
      /\ UNCHANGED <<file, entries, checkpoint, undo, run, running, interrupted, kinds, origin,
                     behind>>
      /\ overlapped' = (overlapped \/ ~NoCallOpen)
      /\ contended' = IF \E d \in Calls : call[d] # NoCall /\ call[d].entry.file = f
                      THEN contended \cup {<<run, f>>} ELSE contended
  BY DEF Begin, IsOpen
<1>2. e \in Entry /\ e.file = f /\ e.before = file[f] /\ e.run = run /\ run \in Runs
  BY <1>1 DEF JournalTypes, JournalRuns, Entry, Runs
<1>3. value \in Call /\ value.pc = "check" /\ value.entry = e
  BY <1>2 DEF Call
<1>. HIDE DEF e, value
<1>4. call'[c] = value /\ \A d \in Calls : d # c => call'[d] = call[d]
  BY <1>1, OneCallMoves
<1>5. \A d \in Calls : Persisting(d) \/ Persisting(d)' => d # c /\ call'[d] = call[d]
  BY <1>1, <1>3, <1>4 DEF Persisting, IsOpen
<1>6. \A d \in Calls : Recording(d) \/ Recording(d)' => d # c /\ call'[d] = call[d]
  BY <1>1, <1>3, <1>4 DEF Recording, IsOpen
<1>7. (\A d \in Calls : Persisting(d) <=> Persisting(d)')
      /\ (\A d \in Calls : Recording(d) <=> Recording(d)')
  BY <1>5, <1>6 DEF Recording, Persisting, IsOpen
<1>8. \A r : OfRun(r)' = OfRun(r)
  BY <1>1 DEF OfRun
<1>9. Sure' \subseteq Sure /\ KnowsMore(origin, origin')
  BY <1>1, LessIsSure DEF KnowsMore
<1>10. JournalTypes'
  <2>1. call' \in [Calls -> Call \cup {NoCall}]
    BY <1>1, <1>3 DEF SetCall, JournalTypes
  <2>. QED BY <1>1, <2>1 DEF JournalTypes
<1>11. JournalRuns'
  <2>1. \A d \in Calls : IsOpen(d)' => running' /\ call'[d].entry.run = run'
    BY <1>1, <1>2, <1>3, <1>4 DEF JournalRuns, IsOpen
  <2>2. ~overlapped' => \A a, b \in Calls : IsOpen(a)' /\ IsOpen(b)' => a = b
    BY <1>1, <1>4 DEF NoCallOpen, IsOpen
  <2>. QED BY <1>1, <2>1, <2>2 DEF JournalRuns
<1>12. JournalOnDisk'
  <2>1. \A r : Saving(r)' <=> Saving(r)
    BY <1>5, <1>7 DEF Saving
  <2>. QED BY <1>1, <1>5, <1>7, <1>8, <2>1 DEF JournalOnDisk
<1>13. JournalIsComplete'
  <2>1. \A d \in Calls : Recording(d) => Recording(d)' /\ call'[d].entry = call[d].entry
    BY <1>6, <1>7
  <2>2. ASSUME ~overlapped', run' \notin behind', NEW d \in Calls, Persisting(d)'
        PROVE  FilesIn(call'[d].snapshot) \subseteq Covered(run)' \cup {call'[d].entry.file}
    BY <1>1, <1>5, <1>7, <2>2 DEF JournalIsComplete, Covered
  <2>3. running' => \A g \in Touched(run)' :
           \/ g \in FilesIn(OfRun(run))'
           \/ \E d \in Calls : Recording(d)' /\ call'[d].entry.file = g
    BY <1>1, <1>8, <2>1 DEF JournalIsComplete, Touched
  <2>4. interrupted' = 0
    BY <1>1 DEF JournalRuns
  <2>. QED BY <2>2, <2>3, <2>4 DEF JournalIsComplete
<1>14. ListsAreTrue'
  BY <1>1, <1>5, <1>7, <1>9, ListsStayTrue
<1>15. CallsAreTrue'
  <2>1. ASSUME NEW a \in Calls, NEW b \in Calls, IsOpen(a)', IsOpen(b)', a # b,
               call'[a].entry.file = call'[b].entry.file
        PROVE  <<run', call'[a].entry.file>> \in contended'
    <3>1. CASE a = c
      <4>1. IsOpen(b) /\ call[b].entry.file = f
        BY <1>2, <1>3, <1>4, <2>1, <3>1 DEF IsOpen
      <4>. QED BY <1>1, <1>2, <1>3, <1>4, <3>1, <4>1 DEF IsOpen
    <3>2. CASE b = c
      <4>1. IsOpen(a) /\ call[a].entry.file = f
        BY <1>2, <1>3, <1>4, <2>1, <3>2 DEF IsOpen
      <4>. QED BY <1>1, <1>2, <1>3, <1>4, <2>1, <3>2, <4>1 DEF IsOpen
    <3>3. CASE a # c /\ b # c
      BY <1>1, <1>4, <2>1, <3>3 DEF CallsAreTrue, IsOpen
    <3>. QED BY <3>1, <3>2, <3>3
  <2>2. ASSUME NEW d \in Calls, IsOpen(d)'
        PROVE  /\ call'[d].pc \in {"check", "ask", "write"}
                      /\ <<run', call'[d].entry.file>> \in Sure' =>
                    file'[call'[d].entry.file] = call'[d].entry.before
               /\ call'[d].pc = "record" => TrueNext(OfRun(run)', call'[d].entry, origin', Sure')
    <3>1. CASE d = c
      BY <1>1, <1>2, <1>3, <1>4, <3>1
    <3>2. CASE d # c
      <4>1. IsOpen(d) /\ call'[d] = call[d]
        BY <1>4, <2>2, <3>2 DEF IsOpen
      <4>. QED BY <1>1, <1>8, <1>9, <4>1 DEF CallsAreTrue, TrueNext
    <3>. QED BY <3>1, <3>2
  <2>. QED BY <2>1, <2>2 DEF CallsAreTrue
<1>16. UndoIsTrue'
  BY <1>1 DEF JournalRuns, UndoIsTrue
<1>. QED BY <1>10, <1>11, <1>12, <1>13, <1>14, <1>15, <1>16 DEF JournalInv
LEMMA JournalWrite == ASSUME JournalInv, NEW c \in Calls, Write(c) PROVE JournalInv'
<1>. USE JournalParts
<1>. DEFINE e == call[c].entry
            value == [call[c] EXCEPT !.pc = "record"]
            f == e.file
<1>1. /\ IsOpen(c) /\ call[c].pc = "write" /\ SetCall(c, value)
      /\ UNCHANGED <<entries, checkpoint, undo, run, running, interrupted, kinds, overlapped,
                     contended, behind>>
      /\ file' = [file EXCEPT ![f] = e.after]
      /\ origin' = [origin EXCEPT ![e.run][f] = IF @ = Untouched THEN file[f] ELSE @]
  BY DEF Write, Put, past, IsOpen
<1>2. /\ running /\ interrupted = 0 /\ undo = NoUndo /\ e.run = run /\ run \in Runs
      /\ e \in Entry /\ f \in Files /\ e.after \in Texts
  <2>1. e \in Entry
    BY <1>1, CallIs
  <2>. QED BY <1>1, <2>1 DEF JournalRuns, Entry
<1>3. value \in Call /\ value.pc = "record" /\ value.entry = e
  BY <1>1, CallIs DEF Call
<1>4. \A r \in Runs, g \in Files : origin'[r][g] =
         IF r = run /\ g = f /\ origin[r][g] = Untouched THEN file[f] ELSE origin[r][g]
  BY <1>1, <1>2 DEF JournalTypes
<1>5. \A g \in Files : file'[g] = IF g = f THEN e.after ELSE file[g]
  BY <1>1, <1>2 DEF JournalTypes
<1>6. file[f] \in Contents /\ file[f] # Untouched
  BY <1>2, JournalAssumption DEF JournalTypes, Contents
<1>7. JournalTypes'
  <2>1. call' \in [Calls -> Call \cup {NoCall}]
    BY <1>1, <1>3 DEF SetCall, JournalTypes
  <2>2. file' \in [Files -> Contents]
    BY <1>1, <1>2 DEF JournalTypes, Contents
  <2>3. origin' \in [Runs -> [Files -> Contents \cup {Untouched}]]
    BY <1>1, <1>2, <1>6 DEF JournalTypes
  <2>. QED BY <1>1, <2>1, <2>2, <2>3 DEF JournalTypes
<1>8. call'[c] = value /\ \A d \in Calls : d # c => call'[d] = call[d]
  BY <1>1, OneCallMoves
<1>9. Sure' = Sure /\ KnowsMore(origin, origin')
  BY <1>1, <1>4 DEF Sure, KnowsMore
<1>10. \A r : OfRun(r)' = OfRun(r)
  BY <1>1 DEF OfRun
<1>. HIDE DEF e, value, f
<1>11. \A d \in Calls : Persisting(d) \/ Persisting(d)' => d # c /\ call'[d] = call[d]
  BY <1>1, <1>3, <1>8 DEF Persisting, IsOpen
<1>12. \A d \in Calls : Recording(d)' <=> d = c \/ Recording(d)
  BY <1>1, <1>3, <1>8, NothingAssumption DEF Recording, IsOpen
<1>13. \A d \in Calls : Persisting(d) <=> Persisting(d)'
  BY <1>11 DEF Persisting, IsOpen
<1>14. \A d \in Calls : (IsOpen(d)' <=> IsOpen(d)) /\ call'[d].entry = call[d].entry
  BY <1>1, <1>3, <1>8, NothingAssumption DEF IsOpen, e
<1>15. JournalRuns'
  <2>1. \A r \in Runs : r > run => \A g \in Files : origin'[r][g] = origin[r][g]
    BY <1>2, <1>4 DEF Runs
  <2>. QED BY <1>1, <1>14, <2>1 DEF JournalRuns
<1>16. JournalOnDisk'
  <2>1. \A r : Saving(r)' <=> Saving(r)
    BY <1>11, <1>13 DEF Saving
  <2>. QED BY <1>1, <1>10, <1>11, <1>13, <2>1 DEF JournalOnDisk
<1>17. JournalIsComplete'
  <2>1. \A g \in Touched(run)' : g = f \/ g \in Touched(run)
    BY <1>1, <1>2, <1>4 DEF Touched
  <2>2. Recording(c)' /\ call'[c].entry.file = f
    BY <1>3, <1>8, <1>12 DEF f
  <2>3. \A d \in Calls : Recording(d) => Recording(d)' /\ call'[d].entry = call[d].entry
    BY <1>12, <1>14
  <2>4. \A g \in Touched(run)' :
           \/ g \in FilesIn(OfRun(run))'
           \/ \E d \in Calls : Recording(d)' /\ call'[d].entry.file = g
    <3>1. ASSUME NEW g \in Touched(run)
          PROVE  \/ g \in FilesIn(OfRun(run))
                 \/ \E d \in Calls : Recording(d) /\ call[d].entry.file = g
      BY <1>2 DEF JournalIsComplete
    <3>. QED BY <1>1, <1>10, <2>1, <2>2, <2>3, <3>1
  <2>5. ASSUME ~overlapped', run' \notin behind', NEW d \in Calls, Persisting(d)'
        PROVE  FilesIn(call'[d].snapshot) \subseteq Covered(run)' \cup {call'[d].entry.file}
    BY <1>1, <1>11, <1>13, <2>5 DEF JournalIsComplete, Covered
  <2>. QED BY <1>1, <1>2, <2>4, <2>5 DEF JournalIsComplete
<1>18. ListsAreTrue'
  BY <1>1, <1>9, <1>11, <1>13, ListsStayTrue
<1>19. CallsAreTrue'
  <2>1. ASSUME NEW a \in Calls, NEW b \in Calls, IsOpen(a)', IsOpen(b)', a # b,
               call'[a].entry.file = call'[b].entry.file
        PROVE  <<run', call'[a].entry.file>> \in contended'
    BY <1>1, <1>14, <2>1 DEF CallsAreTrue
  <2>2. ASSUME NEW d \in Calls, d # c, IsOpen(d), <<run, call[d].entry.file>> \in Sure
        PROVE  call[d].entry.file # f
    BY <1>1, <2>2 DEF CallsAreTrue, Sure, f, e
  <2>3. TrueNext(OfRun(run), e, origin', Sure)
    <3>1. origin'[run][f] # Untouched
      BY <1>2, <1>4, <1>6
    <3>2. ASSUME <<run, f>> \in Sure, f \notin FilesIn(OfRun(run))
          PROVE  e.before = origin'[run][f]
      <4>1. file[f] = e.before
        BY <1>1, <3>2 DEF CallsAreTrue, e, f
      <4>2. ~\E d \in Calls : Recording(d) /\ call[d].entry.file = f
        <5>1. ~Recording(c)
          BY <1>1 DEF Recording
        <5>2. \A d \in Calls : Recording(d) /\ d # c => call[d].entry.file # f
          BY <2>2, <3>2 DEF Recording
        <5>. QED BY <5>1, <5>2
      <4>3. f \notin Touched(run)
        BY <1>2, <3>2, <4>2 DEF JournalIsComplete
      <4>. QED BY <1>2, <1>4, <4>1, <4>3 DEF Touched
    <3>3. ASSUME \A i \in DOMAIN OfRun(run) : ~SameFile(OfRun(run)[i], e)
          PROVE  f \notin FilesIn(OfRun(run))
      <4>1. \A i \in DOMAIN OfRun(run) : OfRun(run)[i].run = run
        BY OfRunFacts DEF InRuns
      <4>. QED BY <1>2, <3>3, <4>1 DEF FilesIn, SameFile, f
    <3>. QED BY <1>2, <3>1, <3>2, <3>3 DEF TrueNext, f
  <2>4. ASSUME NEW d \in Calls, IsOpen(d)'
        PROVE  /\ call'[d].pc \in {"check", "ask", "write"}
                      /\ <<run', call'[d].entry.file>> \in Sure' =>
                    file'[call'[d].entry.file] = call'[d].entry.before
               /\ call'[d].pc = "record" => TrueNext(OfRun(run)', call'[d].entry, origin', Sure')
    <3>1. CASE d = c
      BY <1>3, <1>8, <1>9, <1>10, <2>3, <3>1, <1>1
    <3>2. CASE d # c
      <4>1. IsOpen(d) /\ call'[d] = call[d]
        BY <1>8, <1>14, <2>4, <3>2
      <4>2. call[d].entry.file \in Files /\ call[d].entry.run = run
        BY <4>1, CallIs DEF JournalRuns
      <4>3. /\ call[d].pc \in {"check", "ask", "write"} /\ <<run, call[d].entry.file>> \in Sure =>
                    file'[call[d].entry.file] = call[d].entry.before
        BY <1>5, <2>2, <3>2, <4>1, <4>2 DEF CallsAreTrue
      <4>4. ASSUME call[d].pc = "record"
            PROVE  TrueNext(OfRun(run), call[d].entry, origin', Sure)
        <5>1. TrueNext(OfRun(run), call[d].entry, origin, Sure)
          BY <4>1, <4>4 DEF CallsAreTrue
        <5>2. origin'[run][call[d].entry.file] = origin[run][call[d].entry.file]
          BY <1>2, <1>9, <4>2, <5>1 DEF TrueNext, KnowsMore
        <5>. QED BY <4>2, <5>1, <5>2 DEF TrueNext
      <4>. QED BY <1>1, <1>9, <1>10, <4>1, <4>3, <4>4
    <3>. QED BY <3>1, <3>2
  <2>. QED BY <2>1, <2>4 DEF CallsAreTrue
<1>20. UndoIsTrue'
  BY <1>1, <1>2 DEF UndoIsTrue
<1>. QED BY <1>7, <1>15, <1>16, <1>17, <1>18, <1>19, <1>20 DEF JournalInv

LEMMA JournalRecord == ASSUME JournalInv, NEW c \in Calls, Record(c) PROVE JournalInv'
<1>. USE JournalParts
<1>. DEFINE e == call[c].entry
            pushed == Append(entries, e)
            value == [call[c] EXCEPT !.pc = "persist", !.snapshot = OfRuns(pushed, {e.run})]
<1>1. /\ IsOpen(c) /\ call[c].pc = "record" /\ SetCall(c, value) /\ entries' = pushed
      /\ UNCHANGED <<file, checkpoint, undo, run, running, interrupted, kinds, origin, overlapped,
                     contended, behind>>
  BY DEF Record, Pushed, past, hist, IsOpen
<1>2. /\ running /\ interrupted = 0 /\ undo = NoUndo /\ e.run = run /\ run \in Runs
      /\ e \in Entry /\ e.file \in Files /\ entries \in Seq(Entry) /\ pushed \in Seq(Entry)
  <2>1. e \in Entry /\ entries \in Seq(Entry)
    BY <1>1, CallIs DEF JournalTypes
  <2>. QED BY <1>1, <2>1 DEF JournalRuns, Entry
<1>3. \A r : OfRun(r)' = IF r = run THEN Append(OfRun(r), e) ELSE OfRun(r)
  BY <1>1, <1>2, OfRunsAppend DEF OfRun
<1>4. OfRun(run)' = Append(OfRun(run), e) /\ OfRun(run)' \in Seq(Entry)
      /\ OfRun(run) \in Seq(Entry)
  <2>1. OfRun(run)' = Append(OfRun(run), e)
    BY <1>1, <1>2, OfRunsAppend DEF OfRun
  <2>2. OfRun(run) \in Seq(Entry)
    BY OfRunFacts
  <2>. QED BY <1>2, <2>1, <2>2
<1>5. value \in Call /\ value.pc = "persist" /\ value.entry = e /\ value.snapshot = OfRun(run)'
  <2>1. OfRuns(pushed, {e.run}) = OfRun(run)'
    BY <1>1, <1>2 DEF OfRun
  <2>. QED BY <1>1, <1>4, <2>1, CallIs DEF Call
<1>6. call'[c] = value /\ \A d \in Calls : d # c => call'[d] = call[d]
  BY <1>1, OneCallMoves
<1>7. JournalTypes'
  <2>1. call' \in [Calls -> Call \cup {NoCall}]
    BY <1>1, <1>5 DEF SetCall, JournalTypes
  <2>. QED BY <1>1, <1>2, <2>1 DEF JournalTypes
<1>8. Sure' = Sure
  BY <1>1 DEF Sure
<1>9. \A x : Has(entries', x) <=> Has(entries, x) \/ x = e
  BY <1>1, <1>2, HasAppend
<1>10. FilesIn(OfRun(run)') = FilesIn(OfRun(run)) \cup {e.file}
  BY <1>2, <1>4, FilesAppend
<1>. HIDE DEF e, value, pushed
<1>11. \A d \in Calls : d # c => (Persisting(d)' <=> Persisting(d))
       /\ (Recording(d)' <=> Recording(d))
  BY <1>6 DEF Persisting, Recording, IsOpen
<1>12. Persisting(c)' /\ ~Recording(c)' /\ ~Persisting(c)
  BY <1>1, <1>5, <1>6, NothingAssumption DEF Persisting, Recording, IsOpen
<1>13. \A d \in Calls : (IsOpen(d)' <=> IsOpen(d)) /\ call'[d].entry = call[d].entry
  BY <1>1, <1>5, <1>6, NothingAssumption DEF IsOpen, e
<1>14. ~overlapped => \A d \in Calls : IsOpen(d) => d = c
  BY <1>1 DEF JournalRuns
<1>15. JournalRuns'
  <2>1. \A i \in DOMAIN entries' : entries'[i].run <= run
    <3>. SUFFICES ASSUME NEW i \in DOMAIN entries' PROVE entries'[i].run <= run
      OBVIOUS
    <3>1. Has(entries, entries'[i]) \/ entries'[i] = e
      BY <1>9 DEF Has
    <3>. QED BY <1>2, <3>1 DEF JournalRuns, Has, JournalTypes
  <2>. QED BY <1>1, <1>13, <2>1 DEF JournalRuns
<1>16. JournalOnDisk'
  <2>. SUFFICES ASSUME ~overlapped'
                PROVE  /\ \A d \in Calls : Persisting(d)' => call'[d].snapshot = OfRun(run)'
                       /\ \A r \in Runs \ behind : OfRun(r)' # <<>> /\ ~Saving(r)'
                             => checkpoint'[r] = OfRun(r)'
    BY <1>1 DEF JournalOnDisk
  <2>1. \A d \in Calls : Persisting(d)' => d = c
    BY <1>1, <1>13, <1>14 DEF Persisting
  <2>2. Saving(run)'
    BY <1>1, <1>2, <1>5, <1>6, <1>12 DEF Saving
  <2>3. ASSUME NEW r \in Runs \ behind, OfRun(r)' # <<>>, ~Saving(r)'
        PROVE  checkpoint'[r] = OfRun(r)'
    <3>1. r # run /\ OfRun(r)' = OfRun(r)
      BY <1>1, <1>3, <2>2, <2>3 DEF Saving
    <3>2. ~Saving(r)
      BY <1>1, <1>12, <1>14 DEF Saving, Persisting
    <3>. QED BY <1>1, <2>3, <3>1, <3>2 DEF JournalOnDisk
  <2>. QED BY <1>5, <1>6, <2>1, <2>3
<1>17. JournalIsComplete'
  <2>1. \A f \in Touched(run)' :
           \/ f \in FilesIn(OfRun(run)')
           \/ \E d \in Calls : Recording(d)' /\ call'[d].entry.file = f
    <3>. SUFFICES ASSUME NEW f \in Touched(run), f \notin FilesIn(OfRun(run)')
                  PROVE  \E d \in Calls : Recording(d)' /\ call'[d].entry.file = f
      BY <1>1 DEF Touched
    <3>1. PICK d \in Calls : Recording(d) /\ call[d].entry.file = f
      BY <1>2, <1>10 DEF JournalIsComplete
    <3>2. d # c
      BY <1>10, <3>1 DEF e
    <3>. QED BY <1>11, <1>13, <3>1, <3>2
  <2>2. ASSUME ~overlapped', run' \notin behind', NEW d \in Calls, Persisting(d)'
        PROVE  FilesIn(call'[d].snapshot) \subseteq Covered(run)' \cup {call'[d].entry.file}
    <3>1. d = c
      BY <1>1, <1>13, <1>14, <2>2 DEF Persisting
    <3>2. FilesIn(OfRun(run)) \subseteq Covered(run)
      <4>1. ~Saving(run)
        BY <1>1, <1>12, <1>14, <2>2 DEF Saving, Persisting
      <4>2. CASE OfRun(run) = <<>>
        BY <4>2 DEF FilesIn
      <4>3. CASE OfRun(run) # <<>>
        BY <1>1, <1>2, <1>4, <2>2, <4>1, <4>3, NothingAssumption DEF JournalOnDisk, Covered
      <4>. QED BY <4>2, <4>3
    <3>. QED BY <1>1, <1>5, <1>6, <1>10, <3>1, <3>2 DEF Covered
  <2>. QED BY <1>1, <1>2, <2>1, <2>2 DEF JournalIsComplete
<1>18. TrueNext(OfRun(run), e, origin, Sure)
  BY <1>1 DEF CallsAreTrue, e
<1>19. ListsAreTrue'
  <2>1. IsTrue(entries', origin, Sure)
    <3>1. TrueNext(entries, e, origin, Sure)
      <4>. SUFFICES ASSUME \A i \in DOMAIN entries : ~SameFile(entries[i], e)
                    PROVE  \A i \in DOMAIN OfRun(run) : ~SameFile(OfRun(run)[i], e)
        BY <1>18 DEF TrueNext
      <4>. SUFFICES ASSUME NEW i \in DOMAIN OfRun(run) PROVE ~SameFile(OfRun(run)[i], e)
        OBVIOUS
      <4>1. Has(OfRuns(entries, {run}), OfRun(run)[i])
        BY DEF Has, OfRun
      <4>2. Has(entries, OfRun(run)[i])
        BY <1>2, <4>1, OfRunsHas
      <4>. QED BY <4>2 DEF Has
    <3>. QED BY <1>1, <1>2, <3>1, TrueAppend DEF ListsAreTrue, pushed
  <2>2. TrueList(OfRun(run), run)' 
    <3>1. IsTrue(OfRun(run)', origin, Sure)
      <4>1. IsTrue(OfRun(run), origin, Sure)
        BY OfRunFacts
      <4>2. IsTrue(Append(OfRun(run), e), origin, Sure)
        BY <1>2, <1>4, <1>18, <4>1, TrueAppend
      <4>. QED BY <1>4, <4>2
    <3>2. InRuns(OfRun(run)', {run})
      <4>1. \A x : Has(OfRun(run)', x) <=> Has(OfRun(run), x) \/ x = e
        BY <1>2, <1>4, HasAppend
      <4>2. InRuns(OfRun(run), {run})
        BY OfRunFacts
      <4>. QED BY <1>2, <4>1, <4>2 DEF InRuns, Has
    <3>. QED BY <1>1, <1>8, <3>1, <3>2 DEF TrueList
  <2>3. ASSUME NEW d \in Calls, Persisting(d)' PROVE TrueList(call[d].snapshot, run)'
    <3>1. CASE d = c
      BY <1>5, <1>6, <2>2, <3>1 DEF TrueList
    <3>2. CASE d # c
      BY <1>1, <1>6, <1>8, <1>11, <2>3, <3>2 DEF TrueList, ListsAreTrue
    <3>. QED BY <3>1, <3>2
  <2>4. \A r \in Runs : checkpoint[r] # NoCheckpoint => TrueList(checkpoint[r], r)'
    BY <1>1, <1>8 DEF TrueList, ListsAreTrue
  <2>. QED BY <1>1, <1>2, <1>8, <2>1, <2>3, <2>4 DEF ListsAreTrue
<1>20. CallsAreTrue'
  <2>1. ASSUME NEW a \in Calls, NEW b \in Calls, IsOpen(a)', IsOpen(b)', a # b,
               call'[a].entry.file = call'[b].entry.file
        PROVE  <<run', call'[a].entry.file>> \in contended'
    BY <1>1, <1>13, <2>1 DEF CallsAreTrue
  <2>2. ASSUME NEW d \in Calls, IsOpen(d)'
        PROVE  /\ call'[d].pc \in {"check", "ask", "write"}
                      /\ <<run', call'[d].entry.file>> \in Sure' =>
                    file'[call'[d].entry.file] = call'[d].entry.before
               /\ call'[d].pc = "record" => TrueNext(OfRun(run)', call'[d].entry, origin', Sure')
    <3>1. CASE d = c
      BY <1>5, <1>6, <3>1
    <3>2. CASE d # c
      <4>1. IsOpen(d) /\ call'[d] = call[d]
        BY <1>6, <1>13, <2>2, <3>2
      <4>2. ASSUME call[d].pc = "record"
            PROVE  TrueNext(OfRun(run)', call[d].entry, origin, Sure)
        <5>1. TrueNext(OfRun(run), call[d].entry, origin, Sure)
          BY <4>1, <4>2 DEF CallsAreTrue
        <5>2. \A i \in DOMAIN OfRun(run) :
                 i \in DOMAIN OfRun(run)' /\ OfRun(run)'[i] = OfRun(run)[i]
          BY <1>2, <1>4
        <5>. QED BY <5>1, <5>2 DEF TrueNext
      <4>. QED BY <1>1, <1>8, <4>1, <4>2 DEF CallsAreTrue
    <3>. QED BY <3>1, <3>2
  <2>. QED BY <2>1, <2>2 DEF CallsAreTrue
<1>21. UndoIsTrue'
  BY <1>1, <1>2 DEF UndoIsTrue
<1>. QED BY <1>7, <1>15, <1>16, <1>17, <1>19, <1>20, <1>21 DEF JournalInv
LEMMA JournalPersist == ASSUME JournalInv, NEW c \in Calls, Persist(c) PROVE JournalInv'
<1>. USE JournalParts
<1>. DEFINE saved == call[c].snapshot
<1>1. /\ Persisting(c) /\ SetCall(c, NoCall)
      /\ checkpoint' = [checkpoint EXCEPT ![call[c].entry.run] = saved]
      /\ behind' = behind \ {call[c].entry.run}
      /\ UNCHANGED <<file, entries, undo, run, running, interrupted, kinds, origin, overlapped,
                     contended>>
  BY DEF Persist, Saved, past, hist, IsOpen, Persisting
<1>2. /\ running /\ interrupted = 0 /\ undo = NoUndo /\ call[c].entry.run = run /\ run \in Runs
      /\ saved \in Seq(Entry)
  <2>1. call[c].entry \in Entry /\ saved \in Seq(Entry)
    BY <1>1, CallIs DEF Persisting
  <2>. QED BY <1>1, <2>1 DEF JournalRuns, Entry, Persisting
<1>3. \A r \in Runs : checkpoint'[r] = IF r = run THEN saved ELSE checkpoint[r]
  BY <1>1, <1>2 DEF JournalTypes
<1>4. call'[c] = NoCall /\ \A d \in Calls : d # c => call'[d] = call[d]
  BY <1>1, OneCallMoves
<1>5. JournalTypes'
  <2>1. call' \in [Calls -> Call \cup {NoCall}]
    BY <1>1 DEF SetCall, JournalTypes
  <2>2. checkpoint' \in [Runs -> Seq(Entry) \cup {NoCheckpoint}]
    BY <1>1, <1>2 DEF JournalTypes
  <2>. QED BY <1>1, <2>1, <2>2 DEF JournalTypes
<1>6. Sure' = Sure
  BY <1>1 DEF Sure
<1>7. \A r : OfRun(r)' = OfRun(r)
  BY <1>1 DEF OfRun
<1>. HIDE DEF saved
<1>8. \A d \in Calls : IsOpen(d)' <=> IsOpen(d) /\ d # c
  BY <1>4 DEF IsOpen
<1>9. ~overlapped => \A d \in Calls : ~IsOpen(d)'
  BY <1>1, <1>8 DEF JournalRuns, Persisting
<1>10. \A d \in Calls : Recording(d)' <=> Recording(d)
  BY <1>1, <1>4, <1>8 DEF Recording, Persisting, IsOpen
<1>11. JournalRuns'
  <2>1. \A r \in Runs : r > run => checkpoint'[r] = checkpoint[r]
    BY <1>2, <1>3 DEF Runs
  <2>. QED BY <1>1, <1>4, <1>8, <2>1 DEF JournalRuns
<1>12. JournalOnDisk'
  <2>. SUFFICES ASSUME ~overlapped, NEW r \in Runs, r # run => r \notin behind, OfRun(r) # <<>>
                PROVE  checkpoint'[r] = OfRun(r)
    BY <1>1, <1>2, <1>7, <1>9 DEF JournalOnDisk, Persisting
  <2>1. CASE r = run
    BY <1>1, <1>3, <2>1 DEF JournalOnDisk, saved
  <2>2. CASE r # run
    <3>1. ~Saving(r)
      BY <1>1, <2>2 DEF Saving, JournalRuns, Persisting
    <3>. QED BY <1>3, <2>2, <3>1 DEF JournalOnDisk
  <2>. QED BY <2>1, <2>2
<1>13. JournalIsComplete'
  <2>1. \A d \in Calls : Recording(d) => call'[d].entry = call[d].entry
    BY <1>1, <1>4 DEF Recording, Persisting
  <2>2. \A f \in Touched(run)' :
           \/ f \in FilesIn(OfRun(run)')
           \/ \E d \in Calls : Recording(d)' /\ call'[d].entry.file = f
    <3>1. ASSUME NEW f \in Touched(run)
          PROVE  \/ f \in FilesIn(OfRun(run))
                 \/ \E d \in Calls : Recording(d) /\ call[d].entry.file = f
      BY <1>2 DEF JournalIsComplete
    <3>2. OfRun(run)' = OfRun(run) /\ Touched(run)' = Touched(run)
      BY <1>1, <1>7 DEF Touched, OfRun
    <3>. QED BY <1>10, <2>1, <3>1, <3>2
  <2>. QED BY <1>1, <1>2, <1>9, <2>2 DEF JournalIsComplete, Persisting
<1>14. ListsAreTrue'
  <2>1. TrueList(saved, run)
    BY <1>1 DEF ListsAreTrue, saved
  <2>2. ASSUME NEW r \in Runs, checkpoint'[r] # NoCheckpoint
        PROVE  TrueList(checkpoint'[r], r)
    BY <1>3, <2>1, <2>2 DEF ListsAreTrue
  <2>3. ASSUME NEW d \in Calls, Persisting(d)' PROVE TrueList(call'[d].snapshot, run)
    <3>1. Persisting(d) /\ call'[d] = call[d]
      BY <1>4, <1>8, <2>3 DEF Persisting
    <3>. QED BY <3>1 DEF ListsAreTrue
  <2>4. \A r \in Runs : checkpoint'[r] # NoCheckpoint => TrueList(checkpoint[r], r)'
    BY <1>1, <1>6, <2>2 DEF TrueList
  <2>5. \A d \in Calls : Persisting(d)' => TrueList(call[d].snapshot, run)'
    BY <1>1, <1>6, <2>3 DEF TrueList
  <2>6. IsTrue(entries', origin', Sure')
    BY <1>1, <1>6 DEF ListsAreTrue
  <2>. QED BY <1>1, <1>2, <2>4, <2>5, <2>6 DEF ListsAreTrue
<1>15. CallsAreTrue'
  <2>1. \A d \in Calls : IsOpen(d)' => IsOpen(d) /\ call'[d] = call[d]
    BY <1>4, <1>8
  <2>2. OfRun(run)' = OfRun(run)
    BY <1>1 DEF OfRun
  <2>. QED BY <1>1, <1>6, <2>1, <2>2 DEF CallsAreTrue
<1>16. UndoIsTrue'
  BY <1>1, <1>2 DEF UndoIsTrue
<1>. QED BY <1>5, <1>11, <1>12, <1>13, <1>14, <1>15, <1>16 DEF JournalInv

LEMMA JournalWriteFails == ASSUME JournalInv, NEW c \in Calls, WriteFails(c) PROVE JournalInv'
<1>1. IsOpen(c) /\ call[c].pc = "write"
  BY DEF WriteFails, IsOpen
<1>2. SetCall(c, NoCall)
  BY DEF WriteFails
<1>3. CallsStay
  BY <1>1, <1>2, CallMovesOn
<1>4. kinds \subseteq kinds'
  BY DEF WriteFails, Fault
<1>. QED BY <1>3, <1>4, CallsStayInv DEF WriteFails, hist, JournalHeads, JournalNumbers,
            JournalPast

LEMMA JournalPersistFails ==
    ASSUME JournalInv, NEW c \in Calls, PersistFails(c)
    PROVE  JournalInv'
<1>. USE JournalParts
<1>1. /\ Persisting(c) /\ SetCall(c, NoCall) /\ behind' = behind \cup {call[c].entry.run}
      /\ UNCHANGED <<file, entries, checkpoint, undo, run, running, interrupted, origin,
                     overlapped, contended>>
      /\ kinds \subseteq kinds'
  BY DEF PersistFails, Fault, IsOpen, Persisting
<1>2. /\ running /\ interrupted = 0 /\ undo = NoUndo /\ call[c].entry.run = run
  BY <1>1 DEF JournalRuns, Persisting
<1>3. call'[c] = NoCall /\ \A d \in Calls : d # c => call'[d] = call[d]
  BY <1>1, OneCallMoves
<1>4. Sure' \subseteq Sure /\ KnowsMore(origin, origin')
  BY <1>1, LessIsSure DEF KnowsMore
<1>5. \A r : OfRun(r)' = OfRun(r)
  BY <1>1 DEF OfRun
<1>6. \A d \in Calls : IsOpen(d)' <=> IsOpen(d) /\ d # c
  BY <1>3 DEF IsOpen
<1>7. ~overlapped => \A d \in Calls : ~IsOpen(d)'
  BY <1>1, <1>6 DEF JournalRuns, Persisting
<1>8. \A d \in Calls : Recording(d)' <=> Recording(d)
  BY <1>1, <1>3, <1>6 DEF Recording, Persisting, IsOpen
<1>9. JournalTypes'
  <2>1. call' \in [Calls -> Call \cup {NoCall}]
    BY <1>1 DEF SetCall, JournalTypes
  <2>. QED BY <1>1, <2>1 DEF JournalTypes
<1>10. JournalRuns'
  BY <1>1, <1>3, <1>6 DEF JournalRuns
<1>11. JournalOnDisk'
  <2>. SUFFICES ASSUME ~overlapped, NEW r \in Runs \ behind, r # run, OfRun(r) # <<>>
                PROVE  checkpoint'[r] = OfRun(r)
    BY <1>1, <1>2, <1>5, <1>7 DEF JournalOnDisk, Persisting
  <2>1. ~Saving(r)
    BY <1>1 DEF Saving, JournalRuns, Persisting
  <2>. QED BY <1>1, <2>1 DEF JournalOnDisk
<1>12. JournalIsComplete'
  <2>1. \A d \in Calls : Recording(d) => call'[d].entry = call[d].entry
    BY <1>1, <1>3 DEF Recording, Persisting
  <2>2. \A f \in Touched(run)' :
           \/ f \in FilesIn(OfRun(run)')
           \/ \E d \in Calls : Recording(d)' /\ call'[d].entry.file = f
    <3>1. ASSUME NEW f \in Touched(run)
          PROVE  \/ f \in FilesIn(OfRun(run))
                 \/ \E d \in Calls : Recording(d) /\ call[d].entry.file = f
      BY <1>2 DEF JournalIsComplete
    <3>2. OfRun(run)' = OfRun(run) /\ Touched(run)' = Touched(run)
      BY <1>1, <1>5 DEF Touched, OfRun
    <3>. QED BY <1>8, <2>1, <3>1, <3>2
  <2>. QED BY <1>1, <1>2, <1>7, <2>2 DEF JournalIsComplete, Persisting
<1>13. ListsAreTrue'
  <2>1. \A d \in Calls : Persisting(d)' => Persisting(d) /\ call'[d] = call[d] /\ run' = run
    BY <1>1, <1>3, <1>6 DEF Persisting
  <2>. QED BY <1>1, <1>4, <2>1, ListsStayTrue
<1>14. CallsAreTrue'
  <2>1. \A d \in Calls : IsOpen(d)' => IsOpen(d) /\ call'[d] = call[d]
    BY <1>3, <1>6
  <2>2. OfRun(run)' = OfRun(run)
    BY <1>1 DEF OfRun
  <2>. QED BY <1>1, <1>4, <2>1, <2>2 DEF CallsAreTrue, TrueNext
<1>15. UndoIsTrue'
  BY <1>1, <1>2 DEF UndoIsTrue
<1>. QED BY <1>9, <1>10, <1>11, <1>12, <1>13, <1>14, <1>15 DEF JournalInv

LEMMA JournalPrune == ASSUME JournalInv, NEW q \in Runs, Prune(q) PROVE JournalInv'
<1>. USE JournalParts
<1>1. /\ checkpoint' = [checkpoint EXCEPT ![q] = NoCheckpoint] /\ behind' = behind \cup {q}
      /\ UNCHANGED <<file, call, entries, undo, run, running, interrupted, origin, overlapped,
                     contended>>
      /\ kinds \subseteq kinds'
  BY DEF Prune, Fault
<1>2. \A r \in Runs : checkpoint'[r] = IF r = q THEN NoCheckpoint ELSE checkpoint[r]
  BY <1>1 DEF JournalTypes
<1>3. Sure' \subseteq Sure
  BY <1>1, LessIsSure
<1>4. KnowsMore(origin, origin)
  BY DEF KnowsMore
<1>5. \A c \in Calls : /\ IsOpen(c)' <=> IsOpen(c)
                       /\ Persisting(c)' <=> Persisting(c)
                       /\ Recording(c)' <=> Recording(c)
  BY <1>1 DEF Persisting, Recording, IsOpen
<1>6. \A r : OfRun(r)' = OfRun(r) /\ (Saving(r)' <=> Saving(r))
  BY <1>1, <1>5 DEF OfRun, Saving
<1>7. JournalTypes'
  <2>1. checkpoint' \in [Runs -> Seq(Entry) \cup {NoCheckpoint}]
    BY <1>1 DEF JournalTypes
  <2>. QED BY <1>1, <2>1 DEF JournalTypes
<1>8. JournalRuns'
  <2>1. \A r \in Runs : r > run => checkpoint'[r] = NoCheckpoint
    BY <1>2 DEF JournalRuns
  <2>. QED BY <1>1, <1>5, <2>1 DEF JournalRuns
<1>9. JournalOnDisk'
  BY <1>1, <1>2, <1>5, <1>6 DEF JournalOnDisk
<1>10. JournalIsComplete'
  <2>1. \A r \in Runs \ behind' : Covered(r)' = Covered(r) /\ Touched(r)' = Touched(r)
    BY <1>1, <1>2 DEF Covered, Touched
  <2>2. \A f \in Touched(run)' : f \in Touched(run)
    BY <1>1 DEF Touched
  <2>3. running' => \A f \in Touched(run)' :
           \/ f \in FilesIn(OfRun(run)')
           \/ \E d \in Calls : Recording(d)' /\ call'[d].entry.file = f
    BY <1>1, <1>5, <1>6, <2>2 DEF JournalIsComplete
  <2>4. ASSUME ~overlapped', run' \notin behind', NEW c \in Calls, Persisting(c)'
        PROVE  FilesIn(call'[c].snapshot) \subseteq Covered(run)' \cup {call'[c].entry.file}
    <3>1. running /\ run \in Runs /\ Persisting(c) /\ ~overlapped /\ run \notin behind
      BY <1>1, <1>5, <2>4, JournalAssumption
         DEF JournalTypes, JournalRuns, Persisting, Runs
    <3>2. Covered(run)' = Covered(run)
      BY <1>1, <2>1, <2>4, <3>1
    <3>. QED BY <1>1, <3>1, <3>2 DEF JournalIsComplete
  <2>5. ASSUME interrupted' \notin behind' \cup {0}, ~overlapped'
        PROVE  \A f, g \in (Touched(interrupted) \ Covered(interrupted))' : f = g
    <3>1. /\ interrupted \in Runs /\ ~overlapped
          /\ interrupted \notin behind \cup {0}
      BY <1>1, <2>5, JournalAssumption DEF JournalTypes, Runs
    <3>2. Covered(interrupted)' = Covered(interrupted)
          /\ Touched(interrupted)' = Touched(interrupted)
      BY <1>1, <2>1, <2>5, <3>1
    <3>. QED BY <3>1, <3>2 DEF JournalIsComplete
  <2>. QED BY <2>3, <2>4, <2>5 DEF JournalIsComplete
<1>11. ListsAreTrue'
  <2>1. ASSUME NEW list \in Seq(Entry), IsTrue(list, origin, Sure)
        PROVE  IsTrue(list, origin, Sure')
    BY <1>3, <1>4, <2>1, StaysTrue
  <2>2. IsTrue(entries, origin, Sure')
    BY <2>1 DEF JournalTypes, ListsAreTrue
  <2>3. ASSUME NEW r \in Runs, checkpoint'[r] # NoCheckpoint
        PROVE  IsTrue(checkpoint'[r], origin, Sure') /\ InRuns(checkpoint'[r], {r})
    BY <1>2, <2>1, <2>3 DEF JournalTypes, ListsAreTrue, TrueList
  <2>4. ASSUME NEW c \in Calls, Persisting(c)
        PROVE  IsTrue(call[c].snapshot, origin, Sure') /\ InRuns(call[c].snapshot, {run})
    <3>1. call[c].snapshot \in Seq(Entry)
      BY <2>4, CallIs DEF Persisting
    <3>. QED BY <2>1, <2>4, <3>1 DEF ListsAreTrue, TrueList
  <2>5. ASSUME undo # NoUndo
        PROVE  IsTrue(undo.todo, origin, Sure') /\ InRuns(undo.todo, {undo.run})
    <3>1. undo.todo \in Seq(Entry)
      BY <2>5 DEF JournalTypes, Undo
    <3>. QED BY <2>1, <2>5, <3>1 DEF ListsAreTrue, TrueList
  <2>6. \A c \in Calls : Persisting(c)' => TrueList(call[c].snapshot, run)'
    BY <1>1, <1>5, <2>4 DEF TrueList
  <2>. QED BY <1>1, <2>2, <2>3, <2>5, <2>6 DEF ListsAreTrue, TrueList
<1>12. CallsAreTrue'
  BY <1>1, <1>3, <1>5, <1>6 DEF CallsAreTrue, TrueNext
<1>13. UndoIsTrue'
  BY <1>1, <1>3 DEF UndoIsTrue
<1>. QED BY <1>7, <1>8, <1>9, <1>10, <1>11, <1>12, <1>13 DEF JournalInv

\* No call is in progress: what is said of calls is true.
LEMMA NoCalls ==
    ASSUME NoCallOpen
    PROVE  \A c \in Calls : ~IsOpen(c) /\ ~Persisting(c) /\ ~Recording(c)
BY DEF NoCallOpen, IsOpen, Persisting, Recording

LEMMA NotRunning == ASSUME JournalInv, ~running PROVE NoCallOpen
BY DEF JournalInv, JournalRuns, NoCallOpen, IsOpen

LEMMA JournalStartRun == ASSUME JournalInv, StartRun PROVE JournalInv'
<1>. USE JournalParts
<1>1. /\ ~running /\ undo = NoUndo /\ run < MaxRuns /\ run' = run + 1 /\ running' = TRUE
      /\ interrupted' = 0
      /\ UNCHANGED <<file, call, entries, checkpoint, undo, kinds, origin, overlapped, contended, behind>>
  BY DEF StartRun, Idle, hist
<1>2. \A c \in Calls : ~IsOpen(c) /\ ~IsOpen(c)'
  BY <1>1, NotRunning, NoCalls DEF IsOpen
<1>3. \A c \in Calls : ~Persisting(c)' /\ ~Persisting(c)
  BY <1>2 DEF Persisting
<1>4. run \in 0..MaxRuns /\ run + 1 \in Runs /\ MaxRuns \in Nat
  BY <1>1, JournalAssumption DEF JournalTypes, Runs
<1>5. Sure' = Sure /\ KnowsMore(origin, origin')
  BY <1>1 DEF Sure, KnowsMore
<1>6. JournalTypes'
  BY <1>1, <1>4 DEF JournalTypes, Runs
<1>7. JournalRuns'
  <2>1. \A i \in DOMAIN entries : entries[i].run \in Nat /\ entries[i].run <= run
    <3>1. \A i \in DOMAIN entries : entries[i] \in Entry
      BY DEF JournalTypes
    <3>. QED BY <3>1 DEF JournalRuns, Entry, Runs
  <2>2. \A i \in DOMAIN entries : entries[i].run <= run + 1
    BY <1>4, <2>1
  <2>3. \A r \in Runs : r > run + 1 => r > run
    BY <1>4 DEF Runs
  <2>. QED BY <1>1, <1>2, <1>4, <2>2, <2>3 DEF JournalRuns
<1>8. JournalOnDisk'
  <2>1. \A r : OfRun(r)' = OfRun(r) /\ ~Saving(r)
    BY <1>1, <1>3 DEF OfRun, Saving
  <2>. QED BY <1>1, <1>3, <2>1 DEF JournalOnDisk
<1>9. JournalIsComplete'
  <2>1. Touched(run)' = {}
    BY <1>1, <1>4 DEF JournalRuns, Touched
  <2>. QED BY <1>1, <1>3, <2>1 DEF JournalIsComplete
<1>10. ListsAreTrue'
  BY <1>1, <1>3, <1>5, ListsStayTrue
<1>11. CallsAreTrue'
  BY <1>2 DEF CallsAreTrue
<1>12. UndoIsTrue'
  BY <1>1 DEF UndoIsTrue
<1>. QED BY <1>6, <1>7, <1>8, <1>9, <1>10, <1>11, <1>12 DEF JournalInv

LEMMA JournalEndRun == ASSUME JournalInv, EndRun PROVE JournalInv'
<1>. USE JournalParts
<1>1. /\ running /\ running' = FALSE /\ NoCallOpen
      /\ UNCHANGED <<file, call, entries, checkpoint, undo, run, interrupted, kinds, origin,
                     overlapped, contended, behind>>
  BY DEF EndRun, hist
<1>2. \A c \in Calls : ~IsOpen(c) /\ ~IsOpen(c)'
  BY <1>1, NoCalls DEF IsOpen
<1>3. \A c \in Calls : ~Persisting(c)' /\ ~Persisting(c)
  BY <1>2 DEF Persisting
<1>4. Sure' = Sure /\ KnowsMore(origin, origin')
  BY <1>1 DEF Sure, KnowsMore
<1>5. JournalTypes' /\ JournalRuns'
  BY <1>1, <1>2 DEF JournalTypes, JournalRuns
<1>6. JournalOnDisk'
  <2>1. \A r : OfRun(r)' = OfRun(r) /\ ~Saving(r)
    BY <1>1, <1>3 DEF OfRun, Saving
  <2>. QED BY <1>1, <1>3, <2>1 DEF JournalOnDisk
<1>7. JournalIsComplete'
  BY <1>1, <1>3 DEF JournalIsComplete, JournalRuns
<1>8. ListsAreTrue'
  BY <1>1, <1>3, <1>4, ListsStayTrue
<1>9. CallsAreTrue'
  BY <1>2 DEF CallsAreTrue
<1>10. UndoIsTrue'
  BY <1>1 DEF UndoIsTrue, JournalRuns
<1>. QED BY <1>5, <1>6, <1>7, <1>8, <1>9, <1>10 DEF JournalInv
\* The steps of an undo that leave the journal and the disk alone.
LEMMA UndoStepInv ==
    ASSUME JournalInv, ~running, kinds \subseteq kinds',
           UNCHANGED <<call, entries, checkpoint, run, running, interrupted, origin, overlapped,
                       contended, behind>>,
           file' \in [Files -> Contents], undo' \in Undo \cup {NoUndo},
           undo' # NoUndo => IsTrue(undo'.todo, origin, Sure) /\ InRuns(undo'.todo, {undo'.run}),
           UndoIsTrue'
    PROVE  JournalInv'
<1>. USE JournalParts
<1>1. Sure' \subseteq Sure /\ KnowsMore(origin, origin)
  BY LessIsSure DEF KnowsMore
<1>2. \A c \in Calls : ~IsOpen(c)' /\ ~Persisting(c)' /\ ~Persisting(c)
  BY NotRunning, NoCalls DEF IsOpen, Persisting
<1>3. JournalTypes' /\ JournalRuns'
  BY <1>2 DEF JournalTypes, JournalRuns
<1>4. \A r : OfRun(r)' = OfRun(r) /\ ~Saving(r) /\ ~Saving(r)'
  BY <1>2 DEF OfRun, Saving
<1>5. JournalOnDisk'
  BY <1>2, <1>4 DEF JournalOnDisk
<1>6. JournalIsComplete'
  BY <1>2 DEF JournalIsComplete, Touched, Covered
<1>7. ListsAreTrue'
  <2>1. ASSUME NEW list \in Seq(Entry), IsTrue(list, origin, Sure)
        PROVE  IsTrue(list, origin, Sure')
    BY <1>1, <2>1, StaysTrue
  <2>2. IsTrue(entries, origin, Sure')
    BY <2>1 DEF JournalTypes, ListsAreTrue
  <2>3. ASSUME NEW r \in Runs, checkpoint[r] # NoCheckpoint
        PROVE  IsTrue(checkpoint[r], origin, Sure') /\ InRuns(checkpoint[r], {r})
    BY <2>1, <2>3 DEF JournalTypes, ListsAreTrue, TrueList
  <2>4. ASSUME undo' # NoUndo PROVE IsTrue(undo'.todo, origin, Sure')
    <3>1. undo'.todo \in Seq(Entry)
      BY <2>4 DEF Undo
    <3>. QED BY <2>1, <2>4, <3>1
  <2>. QED BY <1>2, <2>2, <2>3, <2>4 DEF ListsAreTrue, TrueList
<1>8. CallsAreTrue'
  BY <1>2 DEF CallsAreTrue
<1>. QED BY <1>3, <1>5, <1>6, <1>7, <1>8 DEF JournalInv

LEMMA UndoIs ==
    ASSUME JournalInv, undo # NoUndo
    PROVE  /\ ~running /\ undo \in Undo /\ undo.todo \in Seq(Entry) /\ undo.run \in Runs
           /\ IsTrue(undo.todo, origin, Sure) /\ InRuns(undo.todo, {undo.run})
BY DEF JournalInv, JournalTypes, JournalRuns, ListsAreTrue, TrueList, Undo

\* What comes before the last entry that is left.
LEMMA TodoIs ==
    ASSUME JournalInv, undo # NoUndo, undo.todo # <<>>
    PROVE  LET e == Last(undo.todo) IN
           /\ Front(undo.todo) \in Seq(Entry) /\ e \in Entry /\ e.run = undo.run
           /\ FilesIn(undo.todo) = FilesIn(Front(undo.todo)) \cup {e.file}
           /\ IsTrue(Front(undo.todo), origin, Sure) /\ InRuns(Front(undo.todo), {undo.run})
           /\ TrueNext(Front(undo.todo), e, origin, Sure)
<1>. DEFINE e == Last(undo.todo)
            rest == Front(undo.todo)
<1>1. /\ undo.todo \in Seq(Entry) /\ IsTrue(undo.todo, origin, Sure)
      /\ InRuns(undo.todo, {undo.run})
  BY UndoIs
<1>2. rest \in Seq(Entry) /\ e \in Entry /\ undo.todo = Append(rest, e)
  BY <1>1, FrontAndLast
<1>3. FilesIn(undo.todo) = FilesIn(rest) \cup {e.file}
  <2>. HIDE DEF rest, e
  <2>. QED BY <1>2, FilesAppend
<1>4. \A x : Has(undo.todo, x) <=> Has(rest, x) \/ x = e
  <2>. HIDE DEF rest, e
  <2>. QED BY <1>2, HasAppend
<1>5. e.run = undo.run /\ InRuns(rest, {undo.run})
  <2>. HIDE DEF rest, e
  <2>. QED BY <1>1, <1>4 DEF InRuns, Has
<1>6. IsTrue(rest, origin, Sure) /\ TrueNext(rest, e, origin, Sure)
  BY <1>1, TrueFront
<1>. QED BY <1>2, <1>3, <1>5, <1>6

LEMMA StartsUndo ==
    ASSUME NEW r \in Runs, NEW list \in Seq(Entry)
    PROVE  /\ UndoOf(r, list) \in Undo /\ UndoOf(r, list) # NoUndo
           /\ UndoOf(r, list).run = r /\ UndoOf(r, list).todo = list
           /\ UndoOf(r, list).pc = "check" /\ UndoOf(r, list).restored = {}
<1>1. UndoOf(r, list) \in Undo
  BY DEF UndoOf, Undo
<1>2. UndoOf(r, list) # NoUndo
  BY <1>1, NothingAssumption
<1>. QED BY <1>1, <1>2 DEF UndoOf

LEMMA JournalUndoLastRun == ASSUME JournalInv, UndoLastRun PROVE JournalInv'
<1>. USE JournalParts
<1>. DEFINE r == Last(entries).run
<1>1. /\ ~running /\ undo = NoUndo /\ entries # <<>> /\ undo' = UndoOf(r, OfRun(r))
      /\ UNCHANGED <<file, call, entries, checkpoint, run, running, interrupted, kinds, origin,
                     overlapped, contended, behind>>
  BY DEF UndoLastRun, Idle, past, hist
<1>2. Last(entries) \in Entry /\ r \in Runs
  <2>1. Last(entries) \in Entry
    BY <1>1, FrontAndLast DEF JournalTypes
  <2>. QED BY <2>1 DEF Entry
<1>. HIDE DEF r
<1>3. OfRun(r) \in Seq(Entry) /\ IsTrue(OfRun(r), origin, Sure) /\ InRuns(OfRun(r), {r})
  BY OfRunFacts
<1>4. /\ undo' \in Undo /\ undo' # NoUndo /\ undo'.run = r /\ undo'.todo = OfRun(r)
      /\ undo'.pc = "check" /\ undo'.restored = {}
  BY <1>1, <1>2, <1>3, StartsUndo
<1>5. UndoIsTrue'
  BY <1>4 DEF UndoIsTrue
<1>6. file' \in [Files -> Contents]
  BY <1>1 DEF JournalTypes
<1>. QED BY <1>1, <1>3, <1>4, <1>5, <1>6, UndoStepInv

LEMMA JournalUndoCheck == ASSUME JournalInv, UndoCheck PROVE JournalInv'
<1>. USE JournalParts
<1>. DEFINE e == Last(undo.todo)
            rest == Front(undo.todo)
            asks == [undo EXCEPT !.pc = "ask"]
            skips == [undo EXCEPT !.todo = rest, !.skipped = @ \cup {e.file}]
<1>1. /\ undo # NoUndo /\ undo.todo # <<>> /\ undo.pc = "check"
      /\ UNCHANGED <<file, call, entries, checkpoint, run, running, interrupted, kinds, origin,
                     overlapped, contended, behind>>
      /\ undo' = IF file[e.file] = e.after THEN asks ELSE skips
  BY DEF UndoCheck, Undoing, Unchanged, past, hist
<1>2. /\ ~running /\ undo \in Undo /\ undo.todo \in Seq(Entry)
      /\ IsTrue(undo.todo, origin, Sure) /\ InRuns(undo.todo, {undo.run})
  BY <1>1, UndoIs
<1>3. /\ rest \in Seq(Entry) /\ e \in Entry /\ IsTrue(rest, origin, Sure)
      /\ InRuns(rest, {undo.run}) /\ FilesIn(undo.todo) = FilesIn(rest) \cup {e.file}
  BY <1>1, TodoIs
<1>4. file' \in [Files -> Contents]
  BY <1>1 DEF JournalTypes
<1>5. CASE file[e.file] = e.after
  <2>1. /\ asks \in Undo /\ asks.pc = "ask" /\ asks.todo = undo.todo /\ asks.run = undo.run
        /\ asks.restored = undo.restored /\ asks.skipped = undo.skipped
    BY <1>2 DEF Undo
  <2>2. undo' = asks
    BY <1>1, <1>5
  <2>. HIDE DEF asks, e, rest
  <2>3. UndoIsTrue'
    <3>1. undo'.todo # <<>> /\ file'[Last(undo'.todo).file] = Last(undo'.todo).after
      BY <1>1, <1>5, <2>1, <2>2 DEF e
    <3>2. ASSUME NEW f \in undo'.restored \ undo'.skipped, <<undo'.run, f>> \in Sure',
                 f \notin FilesIn(undo'.todo)
          PROVE  file'[f] = origin'[undo'.run][f]
      BY <1>1, <2>1, <2>2, <3>2, ZenonT(40) DEF UndoIsTrue, Sure
    <3>. QED BY <3>1, <3>2 DEF UndoIsTrue
  <2>. QED BY <1>1, <1>2, <1>4, <2>1, <2>2, <2>3, UndoStepInv
<1>6. CASE file[e.file] # e.after
  <2>1. e.file \in Files
    BY <1>3 DEF Entry
  <2>2. /\ skips \in Undo /\ skips.pc = undo.pc /\ skips.todo = rest /\ skips.run = undo.run
        /\ skips.restored = undo.restored /\ skips.skipped = undo.skipped \cup {e.file}
    <3>. HIDE DEF e, rest
    <3>. QED BY <1>2, <1>3, <2>1 DEF Undo
  <2>3. undo' = skips
    BY <1>1, <1>6
  <2>. HIDE DEF skips, e, rest
  <2>4. UndoIsTrue'
    <3>1. undo'.pc \notin {"ask", "write"}
      BY <1>1, <2>2, <2>3
    <3>2. ASSUME NEW f \in undo'.restored \ undo'.skipped, <<undo'.run, f>> \in Sure',
                 f \notin FilesIn(undo'.todo)
          PROVE  file'[f] = origin'[undo'.run][f]
      BY <1>1, <1>3, <2>2, <2>3, <3>2 DEF UndoIsTrue, Sure
    <3>. QED BY <3>1, <3>2 DEF UndoIsTrue
  <2>. QED BY <1>1, <1>2, <1>3, <1>4, <2>2, <2>3, <2>4, UndoStepInv
<1>. QED BY <1>5, <1>6

LEMMA JournalUndoAllowed == ASSUME JournalInv, UndoAllowed PROVE JournalInv'
<1>. USE JournalParts
<1>. DEFINE writes == [undo EXCEPT !.pc = "write"]
<1>1. /\ undo # NoUndo /\ undo.todo # <<>> /\ undo.pc = "ask" /\ undo' = writes
      /\ UNCHANGED <<file, call, entries, checkpoint, run, running, interrupted, kinds, origin,
                     overlapped, contended, behind>>
  BY DEF UndoAllowed, Undoing, past, hist
<1>2. /\ ~running /\ undo \in Undo /\ IsTrue(undo.todo, origin, Sure)
      /\ InRuns(undo.todo, {undo.run})
  BY <1>1, UndoIs
<1>3. /\ writes \in Undo /\ writes.todo = undo.todo /\ writes.run = undo.run
      /\ writes.restored = undo.restored /\ writes.skipped = undo.skipped
  BY <1>2 DEF Undo
<1>. HIDE DEF writes
<1>4. UndoIsTrue'
  BY <1>1, <1>3 DEF UndoIsTrue, Sure
<1>5. file' \in [Files -> Contents]
  BY <1>1 DEF JournalTypes
<1>. QED BY <1>1, <1>2, <1>3, <1>4, <1>5, UndoStepInv

LEMMA JournalUndoDenied == ASSUME JournalInv, UndoDenied PROVE JournalInv'
<1>. USE JournalParts
<1>1. /\ undo # NoUndo /\ undo' = NoUndo /\ kinds \subseteq kinds'
      /\ UNCHANGED <<file, call, entries, checkpoint, run, running, interrupted, origin,
                     overlapped, contended, behind>>
  BY DEF UndoDenied, Undoing, Fault, hist
<1>2. ~running /\ UndoIsTrue' /\ file' \in [Files -> Contents]
  BY <1>1, UndoIs DEF UndoIsTrue, JournalTypes
<1>. QED BY <1>1, <1>2, UndoStepInv

LEMMA JournalUndoWriteFails == ASSUME JournalInv, UndoWriteFails PROVE JournalInv'
<1>. USE JournalParts
<1>1. /\ undo # NoUndo /\ undo' = NoUndo /\ kinds \subseteq kinds'
      /\ UNCHANGED <<file, call, entries, checkpoint, run, running, interrupted, origin,
                     overlapped, contended, behind>>
  BY DEF UndoWriteFails, Undoing, Fault, hist
<1>2. ~running /\ UndoIsTrue' /\ file' \in [Files -> Contents]
  BY <1>1, UndoIs DEF UndoIsTrue, JournalTypes
<1>. QED BY <1>1, <1>2, UndoStepInv

LEMMA JournalUndoWrite == ASSUME JournalInv, UndoWrite PROVE JournalInv'
<1>. USE JournalParts
<1>. DEFINE e == Last(undo.todo)
            rest == Front(undo.todo)
            goesOn == [undo EXCEPT !.pc = "check", !.todo = rest, !.restored = @ \cup {e.file}]
<1>1. /\ undo # NoUndo /\ undo.todo # <<>> /\ undo.pc = "write"
      /\ UNCHANGED <<call, entries, checkpoint, run, running, interrupted, kinds, origin,
                     overlapped, contended, behind>>
      /\ \/ undo' = NoUndo /\ file' = file
         \/ undo' = goesOn /\ file' = [file EXCEPT ![e.file] = e.before]
  BY DEF UndoWrite, Undoing, Put, past, hist
<1>2. ~running /\ undo \in Undo
  BY <1>1, UndoIs
<1>3. /\ rest \in Seq(Entry) /\ e \in Entry /\ e.run = undo.run /\ IsTrue(rest, origin, Sure)
      /\ InRuns(rest, {undo.run}) /\ FilesIn(undo.todo) = FilesIn(rest) \cup {e.file}
      /\ TrueNext(rest, e, origin, Sure)
  BY <1>1, TodoIs
<1>4. CASE undo' = NoUndo /\ file' = file
  <2>1. UndoIsTrue' /\ file' \in [Files -> Contents]
    BY <1>4 DEF UndoIsTrue, JournalTypes
  <2>. QED BY <1>1, <1>2, <1>4, <2>1, UndoStepInv
<1>5. CASE undo' = goesOn /\ file' = [file EXCEPT ![e.file] = e.before]
  <2>1. e.file \in Files /\ e.before \in Contents
    BY <1>3 DEF Entry
  <2>2. /\ goesOn \in Undo /\ goesOn.pc = "check" /\ goesOn.todo = rest /\ goesOn.run = undo.run
        /\ goesOn.restored = undo.restored \cup {e.file} /\ goesOn.skipped = undo.skipped
    <3>. HIDE DEF e, rest
    <3>. QED BY <1>2, <1>3, <2>1 DEF Undo
  <2>3. file' \in [Files -> Contents]
    BY <1>5, <2>1 DEF JournalTypes
  <2>4. \A f \in Files : file'[f] = IF f = e.file THEN e.before ELSE file[f]
    BY <1>5, <2>1 DEF JournalTypes
  <2>. HIDE DEF goesOn, e, rest
  <2>5. UndoIsTrue'
    <3>1. undo'.pc \notin {"ask", "write"}
      BY <1>5, <2>2
    <3>2. ASSUME NEW f \in undo'.restored \ undo'.skipped, <<undo'.run, f>> \in Sure',
                 f \notin FilesIn(undo'.todo)
          PROVE  file'[f] = origin'[undo'.run][f]
      <4>1. /\ <<undo.run, f>> \in Sure /\ f \notin FilesIn(rest) /\ f \in Files
            /\ f \in (undo.restored \cup {e.file}) \ undo.skipped /\ undo'.run = undo.run
        BY <1>1, <1>2, <1>5, <2>1, <2>2, <3>2 DEF Sure
      <4>2. CASE f = e.file
        <5>1. \A i \in DOMAIN rest : ~SameFile(rest[i], e)
          BY <4>1, <4>2 DEF FilesIn, SameFile
        <5>2. e.before = origin[undo.run][f]
          BY <1>3, <4>1, <4>2, <5>1 DEF TrueNext
        <5>. QED BY <1>1, <2>4, <4>1, <4>2, <5>2
      <4>3. CASE f # e.file
        BY <1>1, <1>3, <2>4, <4>1, <4>3 DEF UndoIsTrue
      <4>. QED BY <4>2, <4>3
    <3>. QED BY <3>1, <3>2 DEF UndoIsTrue
  <2>. QED BY <1>1, <1>2, <1>3, <1>5, <2>2, <2>3, <2>5, UndoStepInv
<1>. QED BY <1>1, <1>4, <1>5
\* Without a checkpoint the interrupted run counts as reviewed; otherwise its entries come back.
LEMMA JournalResumeUndo == ASSUME JournalInv, ResumeUndo PROVE JournalInv'
<1>. USE JournalParts
<1>. DEFINE r == interrupted
            list == checkpoint[r]
<1>1. /\ ~running /\ undo = NoUndo /\ r # 0 /\ entries = <<>>
      /\ UNCHANGED <<file, call, checkpoint, run, running, kinds, origin, overlapped, contended, behind>>
      /\ \/ list = NoCheckpoint /\ interrupted' = 0 /\ entries' = entries /\ undo' = undo
         \/ /\ list # NoCheckpoint /\ entries' = list /\ undo' = UndoOf(r, list)
            /\ interrupted' = r
  BY DEF ResumeUndo, Idle, hist
<1>2. r \in Runs /\ r <= run
  BY <1>1, JournalAssumption DEF JournalTypes, JournalRuns, Runs
<1>3. \A c \in Calls : ~IsOpen(c)' /\ ~Persisting(c)' /\ ~Persisting(c)
  BY <1>1, NotRunning, NoCalls DEF IsOpen, Persisting
<1>4. Sure' = Sure
  BY <1>1 DEF Sure
<1>5. CallsAreTrue'
  BY <1>3 DEF CallsAreTrue
<1>6. CASE list = NoCheckpoint /\ interrupted' = 0 /\ entries' = entries /\ undo' = undo
  <2>1. JournalTypes' /\ JournalRuns'
    BY <1>1, <1>3, <1>6, JournalAssumption DEF JournalTypes, JournalRuns
  <2>2. JournalOnDisk'
    <3>1. \A q : OfRun(q)' = OfRun(q) /\ ~Saving(q)
      BY <1>1, <1>3, <1>6 DEF OfRun, Saving
    <3>. QED BY <1>1, <1>3, <3>1 DEF JournalOnDisk
  <2>3. JournalIsComplete'
    BY <1>1, <1>3, <1>6 DEF JournalIsComplete
  <2>4. ListsAreTrue'
    BY <1>1, <1>3, <1>4, <1>6 DEF ListsAreTrue, TrueList
  <2>5. UndoIsTrue'
    BY <1>1, <1>6 DEF UndoIsTrue
  <2>. QED BY <1>5, <2>1, <2>2, <2>3, <2>4, <2>5 DEF JournalInv
<1>7. CASE /\ list # NoCheckpoint /\ entries' = list /\ undo' = UndoOf(r, list)
           /\ interrupted' = r
  <2>1. list \in Seq(Entry) /\ IsTrue(list, origin, Sure) /\ InRuns(list, {r})
    BY <1>2, <1>7 DEF JournalTypes, ListsAreTrue, TrueList
  <2>. HIDE DEF list, r
  <2>2. /\ undo' \in Undo /\ undo' # NoUndo /\ undo'.run = r /\ undo'.todo = list
        /\ undo'.pc = "check" /\ undo'.restored = {}
    BY <1>2, <1>7, <2>1, StartsUndo
  <2>3. JournalTypes'
    BY <1>1, <1>7, <2>1, <2>2 DEF JournalTypes, r
  <2>4. JournalRuns'
    <3>1. \A i \in DOMAIN entries' : entries'[i].run <= run
      BY <1>2, <1>7, <2>1 DEF InRuns
    <3>. QED BY <1>1, <1>2, <1>3, <1>7, <3>1 DEF JournalRuns
  <2>5. JournalOnDisk'
    <3>1. OfRuns(list, {r}) = list
      BY <2>1, OfRunsWhole
    <3>2. ASSUME NEW q \in Runs, q # r PROVE OfRuns(list, {q}) = <<>>
      BY <2>1, <3>2, OfRunsNone DEF InRuns
    <3>. QED BY <1>1, <1>3, <1>7, <3>1, <3>2 DEF JournalOnDisk, OfRun, list
  <2>6. JournalIsComplete'
    BY <1>1, <1>3, <1>7 DEF JournalIsComplete, Touched, Covered, r
  <2>7. ListsAreTrue'
    BY <1>1, <1>3, <1>4, <1>7, <2>1, <2>2 DEF ListsAreTrue, TrueList
  <2>8. UndoIsTrue'
    BY <2>2 DEF UndoIsTrue
  <2>. QED BY <1>5, <2>3, <2>4, <2>5, <2>6, <2>7, <2>8 DEF JournalInv
<1>. QED BY <1>1, <1>6, <1>7

LEMMA JournalUndoFinish == ASSUME JournalInv, UndoFinish PROVE JournalInv'
<1>. USE JournalParts
<1>. DEFINE r == undo.run
            left == OfRuns(entries, Runs \ {r})
<1>1. /\ undo # NoUndo /\ undo' = NoUndo /\ entries' = left
      /\ checkpoint' \in {checkpoint, [checkpoint EXCEPT ![r] = NoCheckpoint]}
      /\ interrupted' = IF interrupted = r THEN 0 ELSE interrupted
      /\ kinds \subseteq kinds'
      /\ UNCHANGED <<file, call, run, running, origin, overlapped, contended, behind>>
  BY DEF UndoFinish, Fault, hist
<1>2. ~running /\ r \in Runs /\ entries \in Seq(Entry)
  BY <1>1, UndoIs DEF JournalTypes
<1>3. left \in Seq(Entry) /\ IsTrue(left, origin, Sure)
  BY <1>2, OfRunsType, OfRunsTrue DEF ListsAreTrue
<1>4. \A x : Has(left, x) => Has(entries, x)
  BY <1>2, OfRunsHas
<1>. HIDE DEF r
<1>5. /\ \A q \in Runs : q # r => checkpoint'[q] = checkpoint[q]
      /\ \A q \in Runs : checkpoint'[q] \in {NoCheckpoint, checkpoint[q]}
  BY <1>1, <1>2 DEF JournalTypes
<1>6. ASSUME NEW q \in Runs PROVE OfRun(q)' = IF q = r THEN <<>> ELSE OfRun(q)
  <2>1. OfRun(q)' = OfRuns(entries, (Runs \ {r}) \cap {q})
    BY <1>1, <1>2, OfRunsOfRuns DEF OfRun
  <2>2. CASE q # r
    <3>1. (Runs \ {r}) \cap {q} = {q}
      BY <2>2
    <3>. QED BY <2>1, <2>2, <3>1 DEF OfRun
  <2>3. CASE q = r
    <3>1. (Runs \ {r}) \cap {q} = {}
      BY <2>3
    <3>2. OfRuns(entries, {}) = <<>>
      BY <1>2, OfRunsNone
    <3>. QED BY <2>1, <2>3, <3>1, <3>2
  <2>. QED BY <2>2, <2>3
<1>. HIDE DEF left
<1>7. \A c \in Calls : ~IsOpen(c)' /\ ~Persisting(c)' /\ ~Persisting(c)
  BY <1>1, <1>2, NotRunning, NoCalls DEF IsOpen, Persisting
<1>8. Sure' \subseteq Sure /\ KnowsMore(origin, origin)
  BY <1>1, LessIsSure DEF KnowsMore
<1>9. JournalTypes'
  BY <1>1, <1>2, <1>3, JournalAssumption DEF JournalTypes
<1>10. JournalRuns'
  <2>1. \A i \in DOMAIN entries' : entries'[i].run <= run
    BY <1>1, <1>4 DEF JournalRuns, Has
  <2>2. \A q \in Runs : q > run => checkpoint'[q] = NoCheckpoint
    BY <1>5 DEF JournalRuns
  <2>3. interrupted' <= run
    BY <1>1 DEF JournalRuns, JournalTypes
  <2>. QED BY <1>1, <1>2, <1>7, <2>1, <2>2, <2>3 DEF JournalRuns
<1>11. JournalOnDisk'
  <2>1. \A q : ~Saving(q)
    BY <1>7 DEF Saving
  <2>. QED BY <1>1, <1>5, <1>6, <1>7, <2>1 DEF JournalOnDisk
<1>12. JournalIsComplete'
  <2>1. ASSUME interrupted' # 0 PROVE interrupted' = interrupted
               /\ Covered(interrupted)' = Covered(interrupted)
    <3>1. interrupted' = interrupted /\ interrupted # r /\ interrupted \in Runs
      BY <1>1, <2>1, JournalAssumption DEF JournalTypes, Runs
    <3>. QED BY <1>5, <3>1 DEF Covered
  <2>. QED BY <1>1, <1>2, <1>7, <2>1 DEF JournalIsComplete, Touched
<1>13. ListsAreTrue'
  <2>1. ASSUME NEW list \in Seq(Entry), IsTrue(list, origin, Sure)
        PROVE  IsTrue(list, origin, Sure')
    BY <1>8, <2>1, StaysTrue
  <2>2. ASSUME NEW q \in Runs, checkpoint'[q] # NoCheckpoint
        PROVE  IsTrue(checkpoint'[q], origin, Sure') /\ InRuns(checkpoint'[q], {q})
    BY <1>5, <2>1, <2>2 DEF JournalTypes, ListsAreTrue, TrueList
  <2>3. IsTrue(entries', origin', Sure')
    BY <1>1, <1>3, <2>1
  <2>. QED BY <1>1, <1>7, <2>2, <2>3 DEF ListsAreTrue, TrueList
<1>14. CallsAreTrue'
  BY <1>7 DEF CallsAreTrue
<1>15. UndoIsTrue'
  BY <1>1 DEF UndoIsTrue
<1>. QED BY <1>9, <1>10, <1>11, <1>12, <1>13, <1>14, <1>15 DEF JournalInv

LEMMA JournalExternal ==
    ASSUME JournalInv, NEW f \in Files, NEW content \in Contents, External(f, content)
    PROVE  JournalInv'
<1>. USE JournalParts
<1>1. /\ file' = [file EXCEPT ![f] = content] /\ kinds \subseteq kinds'
      /\ UNCHANGED <<call, entries, checkpoint, undo, run, running, interrupted, origin,
                     overlapped, contended, behind>>
      /\ Quiet \/ "race" \in kinds'
  BY DEF External, Put, Fault, hist
<1>2. Sure' \subseteq Sure /\ KnowsMore(origin, origin')
  BY <1>1, LessIsSure DEF KnowsMore
<1>3. ~Quiet => Sure' = {}
  BY <1>1 DEF Sure
<1>4. \A c \in Calls : (Persisting(c)' <=> Persisting(c)) /\ (Recording(c)' <=> Recording(c))
  BY <1>1 DEF Persisting, Recording, IsOpen
<1>5. JournalTypes' /\ JournalRuns'
  <2>1. file' \in [Files -> Contents]
    BY <1>1 DEF JournalTypes
  <2>. QED BY <1>1, <2>1 DEF JournalTypes, JournalRuns, IsOpen
<1>6. \A r : OfRun(r)' = OfRun(r) /\ (Saving(r)' <=> Saving(r))
  BY <1>1, <1>4 DEF OfRun, Saving
<1>7. JournalOnDisk'
  BY <1>1, <1>4, <1>6 DEF JournalOnDisk
<1>8. JournalIsComplete'
  BY <1>1, <1>4, <1>6 DEF JournalIsComplete, Touched, Covered
<1>9. ListsAreTrue'
  BY <1>1, <1>2, <1>4, ListsStayTrue
<1>10. CallsAreTrue'
  <2>1. CASE Quiet
    <3>1. \A c \in Calls : ~IsOpen(c)'
      BY <1>1, <2>1, NoCalls DEF Quiet, IsOpen
    <3>. QED BY <3>1 DEF CallsAreTrue
  <2>2. CASE ~Quiet
    <3>1. Sure' = {}
      BY <1>3, <2>2
    <3>. QED BY <1>1, <1>6, <3>1 DEF CallsAreTrue, IsOpen, TrueNext
  <2>. QED BY <2>1, <2>2
<1>11. UndoIsTrue'
  <2>1. CASE Quiet
    BY <1>1, <2>1 DEF Quiet, UndoIsTrue
  <2>2. CASE ~Quiet
    <3>1. Sure' = {} /\ "race" \in kinds'
      BY <1>1, <1>3, <2>2
    <3>. QED BY <3>1 DEF UndoIsTrue
  <2>. QED BY <2>1, <2>2
<1>. QED BY <1>5, <1>7, <1>8, <1>9, <1>10, <1>11 DEF JournalInv

\* What the checkpoint of the run that is cut off lacks is what one call wrote.
LEMMA CutOff ==
    ASSUME JournalInv, running, ~overlapped, run \notin behind
    PROVE  \A f, g \in Touched(run) \ Covered(run) : f = g
<1>. USE JournalParts
<1>1. run \in Runs
  BY DEF JournalTypes, JournalRuns, Runs
<1>2. \A f \in Touched(run) :
         \/ f \in FilesIn(OfRun(run))
         \/ \E c \in Calls : Recording(c) /\ call[c].entry.file = f
  BY DEF JournalIsComplete
<1>3. \A c, d \in Calls : IsOpen(c) /\ IsOpen(d) => c = d
  BY DEF JournalRuns
<1>4. CASE \E c \in Calls : Persisting(c)
  <2>1. PICK c \in Calls : Persisting(c)
    BY <1>4
  <2>2. \A d \in Calls : ~Recording(d)
    BY <1>3, <2>1 DEF Recording, Persisting
  <2>3. FilesIn(OfRun(run)) \subseteq Covered(run) \cup {call[c].entry.file}
    BY <2>1 DEF JournalOnDisk, JournalIsComplete
  <2>. QED BY <1>2, <2>2, <2>3
<1>5. CASE ~\E c \in Calls : Persisting(c)
  <2>1. FilesIn(OfRun(run)) \subseteq Covered(run)
    <3>1. CASE OfRun(run) = <<>>
      BY <3>1 DEF FilesIn
    <3>2. CASE OfRun(run) # <<>>
      <4>1. checkpoint[run] = OfRun(run)
        BY <1>1, <1>5, <3>2 DEF JournalOnDisk, Saving
      <4>2. OfRun(run) \in Seq(Entry)
        BY OfRunFacts
      <4>. QED BY <4>1, <4>2, NothingAssumption DEF Covered
    <3>. QED BY <3>1, <3>2
  <2>2. \A c, d \in Calls : Recording(c) /\ Recording(d) => c = d
    BY <1>3 DEF Recording
  <2>. QED BY <1>2, <2>1, <2>2
<1>. QED BY <1>4, <1>5

LEMMA JournalCrash == ASSUME JournalInv, Crash PROVE JournalInv'
<1>. USE JournalParts
<1>1. /\ call' = [c \in Calls |-> NoCall] /\ entries' = <<>> /\ undo' = NoUndo
      /\ running' = FALSE /\ interrupted' = (IF running THEN run ELSE interrupted)
      /\ kinds \subseteq kinds'
      /\ UNCHANGED <<file, checkpoint, run, origin, overlapped, contended, behind>>
  BY DEF Crash, Fault, hist
<1>2. \A c \in Calls : ~IsOpen(c)' /\ ~Persisting(c)'
  BY <1>1 DEF IsOpen, Persisting
<1>3. Sure' \subseteq Sure /\ KnowsMore(origin, origin)
  BY <1>1, LessIsSure DEF KnowsMore
<1>4. \A r : OfRun(r)' = <<>>
  BY <1>1, OfRunsEmpty DEF OfRun
<1>5. JournalTypes'
  <2>1. entries' \in Seq(Entry)
    BY <1>1
  <2>2. call' \in [Calls -> Call \cup {NoCall}] /\ undo' \in Undo \cup {NoUndo}
    BY <1>1
  <2>3. running' \in BOOLEAN /\ interrupted' \in 0..MaxRuns
    BY <1>1 DEF JournalTypes
  <2>. QED BY <1>1, <2>1, <2>2, <2>3 DEF JournalTypes
<1>6. JournalRuns'
  BY <1>1, <1>2 DEF JournalRuns, JournalTypes
<1>7. JournalOnDisk'
  BY <1>2, <1>4 DEF JournalOnDisk
<1>8. JournalIsComplete'
  <2>1. CASE running
    BY <1>1, <1>2, <2>1, CutOff DEF JournalIsComplete, Touched, Covered
  <2>2. CASE ~running
    BY <1>1, <1>2, <2>2 DEF JournalIsComplete, Touched, Covered
  <2>. QED BY <2>1, <2>2
<1>9. ListsAreTrue'
  <2>1. ASSUME NEW r \in Runs, checkpoint[r] # NoCheckpoint
        PROVE  IsTrue(checkpoint[r], origin, Sure') /\ InRuns(checkpoint[r], {r})
    <3>1. /\ checkpoint[r] \in Seq(Entry) /\ IsTrue(checkpoint[r], origin, Sure)
          /\ InRuns(checkpoint[r], {r})
      BY <2>1 DEF JournalTypes, ListsAreTrue, TrueList
    <3>. QED BY <1>3, <3>1, StaysTrue
  <2>2. IsTrue(entries', origin', Sure')
    BY <1>1 DEF IsTrue
  <2>. QED BY <1>1, <1>2, <2>1, <2>2 DEF ListsAreTrue, TrueList
<1>10. CallsAreTrue' /\ UndoIsTrue'
  BY <1>1, <1>2 DEF CallsAreTrue, UndoIsTrue
<1>. QED BY <1>5, <1>6, <1>7, <1>8, <1>9, <1>10 DEF JournalInv

LEMMA JournalInit == ASSUME Init PROVE JournalInv
<1>1. /\ file \in [Files -> Contents] /\ call = [c \in Calls |-> NoCall] /\ entries = <<>>
      /\ checkpoint = [r \in Runs |-> NoCheckpoint] /\ undo = NoUndo
      /\ run = 0 /\ running = FALSE /\ interrupted = 0
      /\ origin = [r \in Runs |-> [f \in Files |-> Untouched]]
  BY DEF Init
<1>2. \A c \in Calls : ~IsOpen(c) /\ ~Persisting(c)
  BY <1>1 DEF IsOpen, Persisting
<1>3. \A r : OfRun(r) = <<>>
  BY <1>1, OfRunsEmpty DEF OfRun
<1>4. JournalTypes
  <2>1. entries \in Seq(Entry) /\ 0 \in 0..MaxRuns
    BY <1>1, JournalAssumption
  <2>2. call \in [Calls -> Call \cup {NoCall}] /\ undo \in Undo \cup {NoUndo}
    BY <1>1
  <2>3. checkpoint \in [Runs -> Seq(Entry) \cup {NoCheckpoint}]
    BY <1>1
  <2>4. origin \in [Runs -> [Files -> Contents \cup {Untouched}]]
    BY <1>1
  <2>. QED BY <1>1, <2>1, <2>2, <2>3, <2>4 DEF JournalTypes
<1>5. JournalRuns
  BY <1>1, <1>2 DEF JournalRuns
<1>6. JournalOnDisk /\ JournalIsComplete
  BY <1>1, <1>2, <1>3 DEF JournalOnDisk, JournalIsComplete
<1>7. ListsAreTrue
  BY <1>1, <1>2 DEF ListsAreTrue, IsTrue
<1>8. CallsAreTrue /\ UndoIsTrue
  BY <1>1, <1>2 DEF CallsAreTrue, UndoIsTrue
<1>. QED BY <1>4, <1>5, <1>6, <1>7, <1>8 DEF JournalInv

LEMMA JournalStep == ASSUME JournalInv, [Next]_vars PROVE JournalInv'
<1>1. CASE StartRun
  BY <1>1, JournalStartRun
<1>2. CASE EndRun
  BY <1>2, JournalEndRun
<1>3. ASSUME NEW f \in Files, ReadFile(f) PROVE JournalInv'
  BY <1>3, JournalReadFile
<1>4. ASSUME NEW c \in Calls, CallStep(c) PROVE JournalInv'
  <2>1. ASSUME NEW f \in Files, NEW text \in Texts, WriteFile(c, f, text) \/ ReplaceText(c, f,
               text)
        PROVE  JournalInv'
    BY <2>1, JournalBegin DEF WriteFile, ReplaceText
  <2>. QED BY <1>4, <2>1, JournalCheckFresh, JournalAllowed, JournalDenied, JournalWrite,
              JournalWriteFails, JournalRecord, JournalPersist, JournalPersistFails DEF CallStep
<1>5. CASE UndoStep
  BY <1>5, JournalUndoLastRun, JournalResumeUndo, JournalUndoCheck, JournalUndoAllowed,
     JournalUndoDenied, JournalUndoWrite, JournalUndoWriteFails, JournalUndoFinish DEF UndoStep
<1>6. ASSUME NEW f \in Files, NEW content \in Contents, External(f, content) PROVE JournalInv'
  BY <1>6, JournalExternal
<1>7. CASE Crash
  BY <1>7, JournalCrash
<1>8. CASE UNCHANGED vars
  BY <1>8, JournalStutters
<1>9. ASSUME NEW q \in Runs, Prune(q) PROVE JournalInv'
  BY <1>9, JournalPrune
<1>. QED BY <1>1, <1>2, <1>3, <1>4, <1>5, <1>6, <1>7, <1>8, <1>9 DEF Next

LEMMA JournalHolds == Spec => []JournalInv
<1>1. Init => JournalInv
  BY JournalInit
<1>2. JournalInv /\ [Next]_vars => JournalInv'
  BY JournalStep
<1>. QED BY <1>1, <1>2, PTL DEF Spec
-----------------------------------------------------------------------------
(* The preview of an undo. *)

\* An undo of list from its end: the files, and what is skipped, after i entries.
UndoState == [now : [Files -> Contents], skip : SUBSET Files]
After(s, e) == IF s.now[e.file] = e.after
               THEN [now |-> [s.now EXCEPT ![e.file] = e.before], skip |-> s.skip]
               ELSE [now |-> s.now, skip |-> s.skip \cup {e.file}]
FromEnd(list, i) == list[Len(list) + 1 - i]
Undoes(g, list) ==
    /\ g[0] = [now |-> file, skip |-> {}]
    /\ \A i \in 1..Len(list) : g[i] = After(g[i - 1], FromEnd(list, i))

LEMMA WouldSkipIs ==
    ASSUME NEW list \in Seq(Entry), file \in [Files -> Contents]
    PROVE  \E g : Undoes(g, list) /\ WouldSkip(list) = g[Len(list)].skip
<1>. DEFINE n == Len(list)
            base == [now |-> file, skip |-> {}]
            h == [x \in (1..n) \X UndoState |-> After(x[2], FromEnd(list, x[1]))]
            Undone(g) == [i \in 0..n |->
                IF i = 0 THEN base
                ELSE LET e == list[n + 1 - i]
                         s == g[i - 1]
                     IN  IF s.now[e.file] = e.after
                         THEN [now |-> [s.now EXCEPT ![e.file] = e.before], skip |-> s.skip]
                         ELSE [now |-> s.now, skip |-> s.skip \cup {e.file}]]
<1>1. n \in Nat /\ base \in UndoState
  BY DEF UndoState
<1>2. ASSUME NEW i \in 1..n PROVE FromEnd(list, i) \in Entry
  <2>1. n + 1 - i \in 1..n
    BY <1>1
  <2>. QED BY <2>1 DEF FromEnd
<1>3. ASSUME NEW s \in UndoState, NEW e \in Entry PROVE After(s, e) \in UndoState
  BY DEF After, UndoState, Entry
<1>4. h \in [(1..n) \X UndoState -> UndoState]
  BY <1>2, <1>3
<1>5. \A i \in 1..n, s \in UndoState : h[<<i, s>>] = After(s, FromEnd(list, i))
  OBVIOUS
<1>6. PICK g \in [0..n -> UndoState] : Solves(g, n, base, h)
  <2>1. IsRecursion(n, UndoState, base, h)
    BY <1>1, <1>4 DEF IsRecursion
  <2>. HIDE DEF n, base, h
  <2>. QED BY <2>1, RecursionExists
<1>7. \A i \in 0..n : g[i] = Undone(g)[i]
  <2>. SUFFICES ASSUME NEW i \in 0..n PROVE g[i] = Undone(g)[i]
    OBVIOUS
  <2>1. CASE i = 0
    BY <1>6, <2>1 DEF Solves
  <2>2. CASE i # 0
    <3>1. i \in 1..n /\ i - 1 \in 0..n
      BY <1>1, <2>2
    <3>2. g[i] = After(g[i - 1], FromEnd(list, i))
      <4>. HIDE DEF h
      <4>. QED BY <1>5, <1>6, <3>1 DEF Solves
    <3>. QED BY <2>2, <3>1, <3>2 DEF After, FromEnd
  <2>. QED BY <2>1, <2>2
<1>8. g = Undone(g)
  <2>1. g = [i \in 0..n |-> g[i]] /\ DOMAIN Undone(g) = 0..n
    BY <1>6
  <2>. HIDE DEF n
  <2>. QED BY <1>7, <2>1
<1>. DEFINE k == CHOOSE f : f = Undone(f)
<1>9. k = Undone(k)
  BY <1>8
<1>10. WouldSkip(list) = k[n].skip
  BY DEF WouldSkip
<1>11. Undoes(k, list)
  <2>1. \A i \in 0..n : k[i] = Undone(k)[i]
    <3>. HIDE DEF k, n
    <3>. QED BY <1>9
  <2>2. 0 \in 0..n /\ \A i \in 1..n : i \in 0..n /\ i # 0
    BY <1>1
  <2>. HIDE DEF k
  <2>. QED BY <2>1, <2>2 DEF Undoes, After, FromEnd
<1>. QED BY <1>10, <1>11
\* When a list names no file twice, an entry from its end finds the file as it is now.
LEMMA PreviewIsHonest ==
    ASSUME NEW list \in Seq(Entry), file \in [Files -> Contents], WrittenOnce(list)
    PROVE  DryRunSkipped(list) = WouldSkip(list)
<1>. DEFINE n == Len(list)
            Skips(i) == {list[j].file : j \in {k \in (n + 1 - i)..n : ~Unchanged(list[k])}}
<1>1. PICK g : Undoes(g, list) /\ WouldSkip(list) = g[n].skip
  BY WouldSkipIs
<1>. DEFINE D(i) == /\ g[i].now \in [Files -> Contents] /\ g[i].skip = Skips(i)
                    /\ \A j \in 1..(n - i) : g[i].now[list[j].file] = file[list[j].file]
            S == {i \in Nat : i <= n => D(i)}
<1>2. n \in Nat /\ \A j \in 1..n : list[j] \in Entry
  OBVIOUS
<1>3. 0 \in S
  <2>1. g[0] = [now |-> file, skip |-> {}]
    BY <1>1 DEF Undoes
  <2>2. Skips(0) = {}
    BY <1>2
  <2>3. D(0)
    <3>. HIDE DEF n, Skips
    <3>. QED BY <2>1, <2>2
  <2>. QED BY <2>3
<1>4. ASSUME NEW i \in S PROVE i + 1 \in S
  <2>. HIDE DEF D
  <2>. SUFFICES ASSUME i + 1 <= n PROVE D(i + 1)
    OBVIOUS
  <2>. USE DEF D
  <2>1. i \in Nat /\ D(i) /\ i + 1 \in 1..n /\ n - i \in 1..n /\ (i + 1) - 1 = i
        /\ n + 1 - (i + 1) = n - i
    BY <1>2
  <2>. DEFINE e == list[n - i]
  <2>2. g[i + 1] = After(g[i], e)
    BY <1>1, <2>1 DEF Undoes, FromEnd
  <2>3. e \in Entry /\ e.file \in Files /\ e.before \in Contents
    BY <1>2, <2>1 DEF Entry
  <2>4. g[i].now[e.file] = file[e.file]
    BY <2>1
  <2>5. \A j \in 1..(n - (i + 1)) : j \in 1..(n - i) /\ j \in 1..n /\ j # n - i
    BY <1>2, <2>1
  <2>6. \A j \in 1..(n - (i + 1)) : list[j].file # e.file
    BY <2>1, <2>5 DEF WrittenOnce
  <2>7. Skips(i + 1) = IF Unchanged(e) THEN Skips(i) ELSE Skips(i) \cup {e.file}
    <3>1. \A k : k \in (n - i)..n <=> k \in (n + 1 - i)..n \/ k = n - i
      BY <1>2, <2>1
    <3>2. Skips(i + 1) = {list[j].file : j \in {k \in (n - i)..n : ~Unchanged(list[k])}}
      BY <2>1
    <3>. HIDE DEF n
    <3>. QED BY <3>1, <3>2
  <2>. HIDE DEF n, e, Skips
  <2>8. CASE Unchanged(e)
    <3>1. g[i + 1] = [now |-> [g[i].now EXCEPT ![e.file] = e.before], skip |-> g[i].skip]
      BY <2>2, <2>4, <2>8 DEF After, Unchanged
    <3>2. \A f \in Files : f # e.file => g[i + 1].now[f] = g[i].now[f]
      BY <2>1, <3>1
    <3>3. g[i + 1].now \in [Files -> Contents] /\ g[i + 1].skip = Skips(i + 1)
      BY <2>1, <2>3, <2>7, <2>8, <3>1
    <3>4. \A j \in 1..(n - (i + 1)) : list[j].file \in Files
      BY <1>2, <2>5 DEF Entry
    <3>. QED BY <2>1, <2>5, <2>6, <3>2, <3>3, <3>4
  <2>9. CASE ~Unchanged(e)
    <3>1. g[i + 1] = [now |-> g[i].now, skip |-> g[i].skip \cup {e.file}]
      BY <2>2, <2>4, <2>9 DEF After, Unchanged
    <3>. QED BY <2>1, <2>5, <2>7, <2>9, <3>1
  <2>. QED BY <2>8, <2>9
<1>5. S = Nat
  <2>1. S \in SUBSET Nat
    OBVIOUS
  <2>. HIDE DEF S
  <2>. QED BY <1>3, <1>4, <2>1, Induction
<1>6. g[n].skip = Skips(n)
  <2>1. n \in S
    BY <1>2, <1>5
  <2>. HIDE DEF n, Skips
  <2>. QED BY <1>2, <2>1
<1>7. Skips(n) = DryRunSkipped(list)
  <2>1. (n + 1 - n)..n = DOMAIN list
    BY <1>2
  <2>. HIDE DEF n
  <2>. QED BY <2>1 DEF DryRunSkipped
<1>. QED BY <1>1, <1>6, <1>7

LEMMA JournalInvImplies == ASSUME JournalInv PROVE JournalIsHonest
<1>. USE JournalParts
<1>1. CheckpointKeepsUp
  <2>. SUFFICES ASSUME NoCallOpen, ~overlapped, NEW r \in Runs \ behind, OfRun(r) # <<>>
                PROVE  checkpoint[r] = OfRun(r)
    BY DEF CheckpointKeepsUp
  <2>1. ~Saving(r)
    BY NoCalls DEF Saving
  <2>. QED BY <2>1 DEF JournalOnDisk
<1>2. AtMostOneUnrecorded
  <2>. SUFFICES ASSUME interrupted \notin behind \cup {0}, ~overlapped, NEW f \in Files, NEW g \in Files,
                       {f, g} \cap Covered(interrupted) = {},
                       origin[interrupted][f] # Untouched, origin[interrupted][g] # Untouched
                PROVE  f = g
    BY DEF AtMostOneUnrecorded, Covered, FilesIn
  <2>. QED BY DEF JournalIsComplete, Touched
<1>3. DryRunHonestForSingleWrites
  <2>1. NextUndo \in Seq(Entry)
    <3>1. \A r : OfRun(r) \in Seq(Entry)
      BY OfRunFacts
    <3>. QED BY <3>1 DEF NextUndo
  <2>2. file \in [Files -> Contents]
    BY DEF JournalTypes
  <2>. QED BY <2>1, <2>2, PreviewIsHonest DEF DryRunHonestForSingleWrites
<1>. QED BY <1>1, <1>2, <1>3 DEF JournalIsHonest

\* The journal tells the truth to whoever reads it next: while no calls overlap, the checkpoint
\* on disk has what the journal has once the calls have ended, and a crash leaves at most one
\* written file unrecorded, both unless the checkpoint was pruned or the last write of it
\* failed; the preview of an undo is the undo for files written once.
THEOREM JournalStaysHonest == Spec => []JournalIsHonest
BY JournalHolds, JournalInvImplies, PTL

LEMMA UndoEnds ==
    ASSUME JournalInv
    PROVE  [\A f \in Files :
               /\ undo # NoUndo /\ undo.todo = <<>> /\ undo' = NoUndo
               /\ f \in undo.restored \ undo.skipped
               /\ "race" \notin kinds /\ <<undo.run, f>> \notin contended
               => file[f] = origin[undo.run][f]]_vars
<1>. SUFFICES ASSUME NEW f \in Files, undo # NoUndo, undo.todo = <<>>,
                     f \in undo.restored \ undo.skipped,
                     "race" \notin kinds, <<undo.run, f>> \notin contended
              PROVE  file[f] = origin[undo.run][f]
  OBVIOUS
<1>1. <<undo.run, f>> \in Sure
  BY UndoIs DEF Sure
<1>2. f \notin FilesIn(undo.todo)
  BY DEF FilesIn
<1>. QED BY <1>1, <1>2 DEF JournalInv, UndoIsTrue

LEMMA UndoSpares ==
    ASSUME JournalInv
    PROVE  [undo # NoUndo /\ undo.pc = "write" /\ file' # file /\ undo' # undo /\ undo' # NoUndo
               /\ "race" \notin kinds
               => file[Last(undo.todo).file] = Last(undo.todo).after]_vars
BY DEF JournalInv, UndoIsTrue

\* What an undo leaves in the files is what the run found there, however its calls, refusals,
\* earlier undos and restarts interleave, unless a file changes during a call or an undo or two
\* calls write it at once; and an undo spares what was changed before it began.
THEOREM UndoStaysRight == Spec => UndoIsRight
<1>1. JournalInv =>
         [\A f \in Files :
             /\ undo # NoUndo /\ undo.todo = <<>> /\ undo' = NoUndo
             /\ f \in undo.restored \ undo.skipped
             /\ "race" \notin kinds /\ <<undo.run, f>> \notin contended
             => file[f] = origin[undo.run][f]]_vars
  BY UndoEnds
<1>2. JournalInv =>
         [undo # NoUndo /\ undo.pc = "write" /\ file' # file /\ undo' # undo /\ undo' # NoUndo
             /\ "race" \notin kinds
             => file[Last(undo.todo).file] = Last(undo.todo).after]_vars
  BY UndoSpares
<1>3. Spec => UndoReturnsToStart
  BY JournalHolds, <1>1, PTL DEF UndoReturnsToStart
<1>4. Spec => UndoSparesEarlierChanges
  BY JournalHolds, <1>2, PTL DEF UndoSparesEarlierChanges
<1>. QED BY <1>3, <1>4 DEF UndoIsRight

-----------------------------------------------------------------------------
\* Which part runs is chosen at the start.
LEMMA PartStays == [PartsNext]_partsVars => part' = part
BY DEF PartsNext, partsVars

-----------------------------------------------------------------------------
(* CutRun: s1 is calls, s2 lines, s3 journal, s4 files, s5 report, s6 mishaps.  What is   *)
(* said of a run that was cut is what it wrote and recorded.                              *)

Stages == {"started", "read", "wrote", "pushed", "recorded", "failed", "ended", "error"}
CutText == 0..(CutCalls + 2)
CutEntry == [file : CutFiles, before : CutText, after : 1..CutCalls]
CutCall == [file : CutFiles, before : CutText, list : Seq(CutEntry), stage : Stages]
CutLine == [is : {"start", "end", "error"}, call : Nat]
CutKinds == {"unwritable", "pruned", "edited", "older"}
CutTypes ==
    /\ s1 \in Seq(CutCall)
    /\ s2 \in [inFile : Seq(CutLine), queued : Seq(CutLine)]
    /\ s3 \in [entries : Seq(CutEntry), checkpoint : Seq(CutEntry)]
    /\ s4 \in [CutFiles -> CutText]
    /\ s5 \in [is : {"running", "down", "reported", "undone"}, changed : SUBSET CutFiles,
               unfinished : SUBSET Nat, restored : SUBSET CutFiles,
               drift : SUBSET [file : CutFiles, status : {"matches", "missing", "modified-since"}]]
    /\ s6 \in [count : Nat, since : BOOLEAN, kinds : SUBSET CutKinds]

\* A line says that a call ended only if it did.
EndsAreTrue(list, tools) ==
    \A i \in DOMAIN list : list[i].is = "end" =>
        list[i].call \in DOMAIN tools /\ tools[list[i].call].stage = "ended"
\* An entry is that of a call which has written its file, and a call has one.
Recorded == {"pushed", "recorded", "failed", "ended", "error"}
EntriesAreTrue(list, tools) ==
    /\ \A i \in DOMAIN list : /\ list[i].after \in DOMAIN tools
                              /\ tools[list[i].after].file = list[i].file
                              /\ tools[list[i].after].stage \in Recorded
    /\ \A i, j \in DOMAIN list : list[i].after = list[j].after => i = j
\* What was recorded has an entry.
IsCovered(tools, list) ==
    \A c \in DOMAIN tools : tools[c].stage \in {"recorded", "ended"} =>
        \E i \in DOMAIN list : list[i].after = c

\* The file of every entry is in the drift.
IsNamed(list, drift) == \A i \in DOMAIN list : \E d \in drift : d.file = list[i].file

CutLog == EndsAreTrue(s2.inFile, s1) /\ EndsAreTrue(s2.queued, s1)
CutJournal == EntriesAreTrue(s3.entries, s1) /\ EntriesAreTrue(s3.checkpoint, s1)
Unharmed == s6.kinds \cap {"pruned", "older"} = {}
CutSaved == Unharmed /\ s5.is # "undone" => IsCovered(s1, s3.checkpoint)
\* What a call saves, and what was saved, is how the entries began; and the call is in it.
Begins(list, all) == Len(list) <= Len(all) /\ \A i \in DOMAIN list : list[i] = all[i]
IsIn(c, list) == \E i \in DOMAIN list : list[i].after = c
CutLists ==
    s5.is = "running" =>
        /\ Begins(s3.checkpoint, s3.entries)
        /\ \A c \in DOMAIN s1 : /\ Begins(s1[c].list, s3.entries)
                                /\ s1[c].stage = "pushed" => IsIn(c, s1[c].list)
CutReported ==
    s5.is = "reported" =>
        /\ s5.changed = Cut!FilesChanged /\ s5.unfinished = Cut!Unfinished
        /\ Unharmed => IsNamed(s3.checkpoint, s5.drift)
        /\ ~s6.since => s5.drift = Cut!Drift
CutInv ==
    /\ CutTypes /\ CutLog /\ CutJournal /\ CutLists /\ CutSaved /\ CutReported
    /\ Cut!DriftTellsWhatUndoSkips

LEMMA CutSizes == CutCalls \in Nat
BY PartsAssumption

LEMMA CutInitInv == Cut!CutInit => CutInv
<1>. SUFFICES ASSUME Cut!CutInit PROVE CutInv
  OBVIOUS
<1>. USE DEF Cut!CutInit
<1>1. \A T : <<>> \in Seq(T)
  OBVIOUS
<1>2. CutTypes
  BY <1>1, CutSizes DEF CutTypes, CutText, Cut!NoReport, Cut!Original
<1>3. DOMAIN s1 = {} /\ DOMAIN s2.inFile = {} /\ DOMAIN s2.queued = {}
      /\ DOMAIN s3.entries = {} /\ DOMAIN s3.checkpoint = {}
  OBVIOUS
<1>4. CutLog /\ CutJournal /\ CutSaved /\ CutLists
  BY <1>3 DEF CutLog, CutJournal, CutSaved, CutLists, Begins, EndsAreTrue, EntriesAreTrue, IsCovered
<1>. QED BY <1>2, <1>4 DEF CutInv, CutReported, Cut!DriftTellsWhatUndoSkips, Cut!NoReport

-----------------------------------------------------------------------------
(* The run.  While it goes, nothing has been reported. *)

\* What is said of a list of calls stays true when one gets on.
Goes(tools, next, c) ==
    /\ tools \in Seq(CutCall) /\ next \in Seq(CutCall) /\ c \in DOMAIN next
    /\ DOMAIN tools \subseteq DOMAIN next
    /\ \A d \in DOMAIN tools : next[d].file = tools[d].file /\ (d # c => next[d] = tools[d])
    /\ c \in DOMAIN tools => /\ tools[c].stage # "ended"
                             /\ tools[c].stage \in Recorded => next[c].stage \in Recorded

LEMMA StillTrue ==
    ASSUME NEW tools, NEW next, NEW c, Goes(tools, next, c)
    PROVE  /\ \A list : EndsAreTrue(list, tools) => EndsAreTrue(list, next)
           /\ \A list : EntriesAreTrue(list, tools) => EntriesAreTrue(list, next)
BY DEF Goes, EndsAreTrue, EntriesAreTrue

LEMMA CallGoes ==
    ASSUME CutTypes, NEW c \in DOMAIN s1, NEW tool \in CutCall, tool.file = s1[c].file,
           s1[c].stage # "ended", s1[c].stage \in Recorded => tool.stage \in Recorded,
           s1' = [s1 EXCEPT ![c] = tool]
    PROVE  /\ Goes(s1, s1', c) /\ DOMAIN s1' = DOMAIN s1 /\ s1'[c] = tool
           /\ \A d \in DOMAIN s1 : d # c => s1'[d] = s1[d]
<1>1. s1 \in Seq(CutCall) /\ s1' \in Seq(CutCall) /\ DOMAIN s1' = DOMAIN s1
  BY DEF CutTypes
<1>2. s1'[c] = tool /\ \A d \in DOMAIN s1 : d # c => s1'[d] = s1[d]
  BY <1>1
<1>. QED BY <1>1, <1>2 DEF Goes

\* A list with one more.
LEMMA OneMore ==
    ASSUME NEW T, NEW list \in Seq(T), NEW e \in T
    PROVE  /\ Append(list, e) \in Seq(T) /\ Len(list) + 1 \in DOMAIN Append(list, e)
           /\ DOMAIN Append(list, e) = DOMAIN list \cup {Len(list) + 1}
           /\ Append(list, e)[Len(list) + 1] = e /\ Len(list) + 1 \notin DOMAIN list
           /\ \A i \in DOMAIN list : Append(list, e)[i] = list[i]
OBVIOUS

LEMMA LineWaits ==
    ASSUME CutTypes, NEW k \in {"start", "end", "error"}, NEW c \in Nat, NEW tools,
           EndsAreTrue(s2.queued, tools), EndsAreTrue(s2.inFile, tools),
           k = "end" => c \in DOMAIN tools /\ tools[c].stage = "ended",
           s2' = [s2 EXCEPT !.queued = Append(@, [is |-> k, call |-> c])]
    PROVE  /\ s2' \in [inFile : Seq(CutLine), queued : Seq(CutLine)]
           /\ EndsAreTrue(s2'.queued, tools) /\ EndsAreTrue(s2'.inFile, tools)
<1>. DEFINE l == [is |-> k, call |-> c]
<1>1. l \in CutLine /\ l.is = k /\ l.call = c
  BY DEF CutLine
<1>2. s2.queued \in Seq(CutLine) /\ s2.inFile \in Seq(CutLine)
  BY DEF CutTypes
<1>3. s2'.queued = Append(s2.queued, l) /\ s2'.inFile = s2.inFile
  BY DEF CutTypes
<1>4. s2' = [inFile |-> s2'.inFile, queued |-> s2'.queued]
  BY DEF CutTypes
<1>. HIDE DEF l
<1>5. EndsAreTrue(s2'.queued, tools)
  BY <1>1, <1>2, <1>3, OneMore DEF EndsAreTrue
<1>6. s2'.queued \in Seq(CutLine) /\ s2'.inFile \in Seq(CutLine)
  BY <1>1, <1>2, <1>3
<1>. QED BY <1>3, <1>4, <1>5, <1>6

LEMMA LiveHolds ==
    ASSUME CutTypes', CutLog', CutJournal', CutLists', CutSaved', s5'.is = "running"
    PROVE  CutInv'
BY DEF CutInv, CutReported, Cut!DriftTellsWhatUndoSkips


LEMMA CutToolStart == ASSUME CutInv, NEW f \in CutFiles, Cut!ToolStart(f) PROVE CutInv'
<1>. USE DEF CutInv
<1>. DEFINE new == [file |-> f, before |-> Cut!Original, list |-> <<>>, stage |-> "started"]
            c == Len(s1) + 1
<1>1. /\ s5.is = "running" /\ s5' = s5 /\ s1' = Append(s1, new)
      /\ s2' = [s2 EXCEPT !.queued = Append(@, [is |-> "start", call |-> Len(s1')])]
      /\ UNCHANGED <<s3, s4, s6>>
  BY DEF Cut!ToolStart, Cut!Live, Cut!Says
<1>2. s1 \in Seq(CutCall) /\ new \in CutCall /\ new.stage = "started" /\ new.list = <<>>
  BY CutSizes DEF CutTypes, CutCall, CutText, Stages, Cut!Original
<1>. HIDE DEF new
<1>3. /\ s1' \in Seq(CutCall) /\ DOMAIN s1' = DOMAIN s1 \cup {c} /\ s1'[c] = new
      /\ c \notin DOMAIN s1
      /\ \A d \in DOMAIN s1 : s1'[d] = s1[d]
  BY <1>1, <1>2, OneMore
<1>4. Len(s1') = c /\ c \in Nat
  BY <1>1, <1>2
<1>5. Goes(s1, s1', c)
  BY <1>2, <1>3 DEF Goes
<1>6. CutJournal' /\ EndsAreTrue(s2.inFile, s1') /\ EndsAreTrue(s2.queued, s1')
  BY <1>1, <1>5, StillTrue DEF CutJournal, CutLog
<1>7. /\ s2' \in [inFile : Seq(CutLine), queued : Seq(CutLine)]
      /\ EndsAreTrue(s2'.queued, s1') /\ EndsAreTrue(s2'.inFile, s1')
  BY <1>1, <1>4, <1>6, LineWaits
<1>8. CutTypes'
  BY <1>1, <1>3, <1>7 DEF CutTypes
<1>9. CutSaved'
  BY <1>1, <1>2, <1>3 DEF CutSaved, Unharmed, IsCovered
<1>10. CutLists'
  <2>1. Begins(<<>>, s3.entries)
    BY DEF Begins, CutTypes
  <2>. QED BY <1>1, <1>2, <1>3, <2>1 DEF CutLists
<1>. QED BY <1>1, <1>6, <1>7, <1>8, <1>9, <1>10, LiveHolds DEF CutLog

\* A call gets on, and the journal stays.
LEMMA CallGoesOn ==
    ASSUME CutInv, NEW c \in DOMAIN s1, NEW tool \in CutCall, s5.is = "running", s5' = s5, s3' = s3,
           tool.file = s1[c].file, s1[c].stage # "ended",
           s1[c].stage \in Recorded => tool.stage \in Recorded,
           tool.stage = "ended" => s1[c].stage = "recorded",
           tool.stage \notin {"pushed", "recorded"}, tool.list = s1[c].list,
           s1' = [s1 EXCEPT ![c] = tool], s4' \in [CutFiles -> CutText],
           s6' \in [count : Nat, since : BOOLEAN, kinds : SUBSET CutKinds], s6.kinds \subseteq s6'.kinds,
           \/ s2' = s2
           \/ \E k \in {"end", "error"} :
                 /\ k = "end" => tool.stage = "ended"
                 /\ s2' = [s2 EXCEPT !.queued = Append(@, [is |-> k, call |-> c])]
    PROVE  CutInv'
<1>. USE DEF CutInv
<1>1. /\ Goes(s1, s1', c) /\ DOMAIN s1' = DOMAIN s1 /\ s1'[c] = tool
      /\ \A d \in DOMAIN s1 : d # c => s1'[d] = s1[d]
  BY CallGoes
<1>2. CutJournal' /\ EndsAreTrue(s2.inFile, s1') /\ EndsAreTrue(s2.queued, s1')
  BY <1>1, StillTrue DEF CutJournal, CutLog
<1>3. c \in Nat
  BY DEF CutTypes
<1>4. /\ s2' \in [inFile : Seq(CutLine), queued : Seq(CutLine)]
      /\ EndsAreTrue(s2'.queued, s1') /\ EndsAreTrue(s2'.inFile, s1')
  <2>1. CASE s2' = s2
    BY <1>2, <2>1 DEF CutTypes
  <2>2. ASSUME NEW k \in {"end", "error"}, k = "end" => tool.stage = "ended",
               s2' = [s2 EXCEPT !.queued = Append(@, [is |-> k, call |-> c])]
        PROVE  /\ s2' \in [inFile : Seq(CutLine), queued : Seq(CutLine)]
               /\ EndsAreTrue(s2'.queued, s1') /\ EndsAreTrue(s2'.inFile, s1')
    BY <1>1, <1>2, <1>3, <2>2, LineWaits
  <2>. QED BY <2>1, <2>2
<1>5. CutTypes'
  BY <1>1, <1>4 DEF CutTypes, Goes
<1>6. CutSaved'
  BY <1>1 DEF CutSaved, Unharmed, IsCovered
<1>7. CutLists'
  BY <1>1 DEF CutLists
<1>. QED BY <1>2, <1>4, <1>5, <1>6, <1>7, LiveHolds DEF CutLog

LEMMA CallAt ==
    ASSUME CutTypes, NEW c, NEW stage, Cut!CallAt(c, stage)
    PROVE  /\ s5.is = "running" /\ c \in DOMAIN s1 /\ s1[c] \in CutCall /\ s1[c].stage = stage
           /\ s1[c].file \in CutFiles /\ s1[c].before \in CutText /\ s1[c].list \in Seq(CutEntry)
           /\ \A to \in Stages :
                 /\ [s1 EXCEPT ![c].stage = to] = [s1 EXCEPT ![c] = [@ EXCEPT !.stage = to]]
                 /\ [s1[c] EXCEPT !.stage = to] \in CutCall
                 /\ [s1[c] EXCEPT !.stage = to].stage = to
                 /\ [s1[c] EXCEPT !.stage = to].file = s1[c].file
                 /\ [s1[c] EXCEPT !.stage = to].list = s1[c].list
<1>1. s5.is = "running" /\ c \in DOMAIN s1 /\ s1[c].stage = stage
  BY DEF Cut!CallAt, Cut!Live
<1>2. s1[c] \in CutCall
  BY <1>1 DEF CutTypes
<1>3. s1[c].file \in CutFiles /\ s1[c].before \in CutText /\ s1[c].list \in Seq(CutEntry)
  BY <1>2 DEF CutCall
<1>4. ASSUME NEW to \in Stages
      PROVE  /\ [s1 EXCEPT ![c].stage = to] = [s1 EXCEPT ![c] = [@ EXCEPT !.stage = to]]
             /\ [s1[c] EXCEPT !.stage = to] \in CutCall
             /\ [s1[c] EXCEPT !.stage = to].stage = to
             /\ [s1[c] EXCEPT !.stage = to].file = s1[c].file
             /\ [s1[c] EXCEPT !.stage = to].list = s1[c].list
  BY <1>2 DEF CutCall
<1>. QED BY <1>1, <1>2, <1>3, <1>4

LEMMA CutReads == ASSUME CutInv, NEW c \in 1..CutCalls, Cut!Reads(c) PROVE CutInv'
<1>. DEFINE tool == [s1[c] EXCEPT !.stage = "read", !.before = s4[s1[c].file]]
<1>1. CutTypes /\ Cut!CallAt(c, "started")
  BY DEF CutInv, Cut!Reads
<1>2. /\ s5.is = "running" /\ c \in DOMAIN s1 /\ s1[c] \in CutCall /\ s1[c].stage = "started"
      /\ s4[s1[c].file] \in CutText
  BY <1>1, CallAt DEF CutTypes
<1>3. tool \in CutCall /\ tool.stage = "read" /\ tool.file = s1[c].file
      /\ tool.list = s1[c].list
  BY <1>2 DEF CutCall, Stages
<1>4. s1' = [s1 EXCEPT ![c] = tool] /\ UNCHANGED <<s2, s3, s4, s5, s6>>
  BY <1>2 DEF Cut!Reads
<1>5. s4' \in [CutFiles -> CutText]
  BY <1>1, <1>4 DEF CutTypes
<1>. HIDE DEF tool
<1>6. s6' \in [count : Nat, since : BOOLEAN, kinds : SUBSET CutKinds] /\ s6.kinds \subseteq s6'.kinds
  BY <1>1, <1>4 DEF CutTypes
<1>. QED BY <1>2, <1>3, <1>4, <1>5, <1>6, CallGoesOn DEF Recorded

LEMMA CutWrites == ASSUME CutInv, NEW c \in 1..CutCalls, Cut!Writes(c) PROVE CutInv'
<1>. DEFINE tool == [s1[c] EXCEPT !.stage = "wrote"]
<1>1. CutTypes /\ Cut!CallAt(c, "read") /\ "wrote" \in Stages
  BY DEF CutInv, Cut!Writes, Stages
<1>2. s5.is = "running" /\ c \in DOMAIN s1 /\ s1[c].stage = "read"
  BY <1>1, CallAt
<1>3. tool \in CutCall /\ tool.stage = "wrote" /\ tool.file = s1[c].file
      /\ tool.list = s1[c].list
  BY <1>1, CallAt
<1>4. s1' = [s1 EXCEPT ![c] = tool] /\ UNCHANGED <<s2, s3, s5, s6>>
  BY <1>1, CallAt DEF Cut!Writes, Cut!Reaches
<1>5. s4' \in [CutFiles -> CutText]
  <2>1. c \in CutText
    BY CutSizes DEF CutText
  <2>. QED BY <1>1, <2>1 DEF CutTypes, Cut!Writes
<1>. HIDE DEF tool
<1>6. s6' \in [count : Nat, since : BOOLEAN, kinds : SUBSET CutKinds] /\ s6.kinds \subseteq s6'.kinds
  BY <1>1, <1>4 DEF CutTypes
<1>. QED BY <1>2, <1>3, <1>4, <1>5, <1>6, CallGoesOn DEF Recorded

LEMMA CutToolEnd == ASSUME CutInv, NEW c \in 1..CutCalls, Cut!ToolEnd(c) PROVE CutInv'
<1>. DEFINE tool == [s1[c] EXCEPT !.stage = "ended"]
<1>1. CutTypes /\ Cut!CallAt(c, "recorded") /\ "ended" \in Stages
  BY DEF CutInv, Cut!ToolEnd, Stages
<1>2. s5.is = "running" /\ c \in DOMAIN s1 /\ s1[c].stage = "recorded"
  BY <1>1, CallAt
<1>3. tool \in CutCall /\ tool.stage = "ended" /\ tool.file = s1[c].file
      /\ tool.list = s1[c].list
  BY <1>1, CallAt
<1>4. /\ s1' = [s1 EXCEPT ![c] = tool] /\ UNCHANGED <<s3, s4, s5, s6>>
      /\ s2' = [s2 EXCEPT !.queued = Append(@, [is |-> "end", call |-> c])]
  BY <1>1, CallAt DEF Cut!ToolEnd, Cut!Reaches, Cut!Says
<1>5. s4' \in [CutFiles -> CutText]
  BY <1>1, <1>4 DEF CutTypes
<1>. HIDE DEF tool
<1>6. s6' \in [count : Nat, since : BOOLEAN, kinds : SUBSET CutKinds] /\ s6.kinds \subseteq s6'.kinds
  BY <1>1, <1>4 DEF CutTypes
<1>. QED BY <1>2, <1>3, <1>4, <1>5, <1>6, CallGoesOn DEF Recorded

LEMMA CutToolError == ASSUME CutInv, NEW c \in 1..CutCalls, Cut!ToolError(c) PROVE CutInv'
<1>. DEFINE tool == [s1[c] EXCEPT !.stage = "error"]
<1>1. CutTypes /\ (Cut!CallAt(c, "failed") \/ Cut!CallAt(c, "read")) /\ "error" \in Stages
  BY DEF CutInv, Cut!ToolError, Stages
<1>2. s5.is = "running" /\ c \in DOMAIN s1 /\ s1[c].stage \in {"failed", "read"}
  BY <1>1, CallAt
<1>3. tool \in CutCall /\ tool.stage = "error" /\ tool.file = s1[c].file
      /\ tool.list = s1[c].list
  BY <1>1, CallAt
<1>4. /\ s1' = [s1 EXCEPT ![c] = tool] /\ UNCHANGED <<s3, s4, s5, s6>>
      /\ s2' = [s2 EXCEPT !.queued = Append(@, [is |-> "error", call |-> c])]
  BY <1>1, CallAt DEF Cut!ToolError, Cut!Reaches, Cut!Says
<1>5. s4' \in [CutFiles -> CutText]
  BY <1>1, <1>4 DEF CutTypes
<1>. HIDE DEF tool
<1>6. s6' \in [count : Nat, since : BOOLEAN, kinds : SUBSET CutKinds] /\ s6.kinds \subseteq s6'.kinds
  BY <1>1, <1>4 DEF CutTypes
<1>. QED BY <1>2, <1>3, <1>4, <1>5, <1>6, CallGoesOn DEF Recorded

\* The entry is pushed when its call has written, and no entry of it is there.
LEMMA CutPush == ASSUME CutInv, NEW c \in 1..CutCalls, Cut!Push(c) PROVE CutInv'
<1>. USE DEF CutInv
<1>. DEFINE e == [file |-> s1[c].file, before |-> s1[c].before, after |-> c]
            list == Cut!Pushed(c)
            tool == [s1[c] EXCEPT !.stage = "pushed", !.list = list]
            n == Len(s3.entries) + 1
<1>1. /\ Cut!CallAt(c, "wrote") /\ s1' = [s1 EXCEPT ![c].stage = "pushed", ![c].list = list]
      /\ s3' = [s3 EXCEPT !.entries = list] /\ UNCHANGED <<s2, s4, s5, s6>>
  BY DEF Cut!Push, Cut!Pushes
<1>2. /\ s5.is = "running" /\ c \in DOMAIN s1 /\ s1[c] \in CutCall /\ s1[c].stage = "wrote"
      /\ s1[c].file \in CutFiles /\ s1[c].before \in CutText
  BY <1>1, CallAt
<1>3. e \in CutEntry /\ e.after = c /\ e.file = s1[c].file /\ list = Append(s3.entries, e)
  BY <1>2 DEF CutEntry, Cut!Pushed
<1>4. s3.entries \in Seq(CutEntry)
  BY DEF CutTypes
<1>. HIDE DEF e, list
<1>5. /\ list \in Seq(CutEntry) /\ n \in DOMAIN list /\ DOMAIN list = DOMAIN s3.entries \cup {n}
      /\ list[n] = e /\ \A i \in DOMAIN s3.entries : list[i] = s3.entries[i]
  BY <1>3, <1>4, OneMore
<1>6. Len(list) = Len(s3.entries) + 1 /\ Len(s3.entries) \in Nat
  BY <1>3, <1>4
<1>7. tool \in CutCall /\ tool.stage = "pushed" /\ tool.file = s1[c].file /\ tool.list = list
  BY <1>2, <1>5 DEF CutCall, Stages
<1>8. s1' = [s1 EXCEPT ![c] = tool]
  BY <1>1, <1>2 DEF CutTypes
<1>9. s3'.entries = list /\ s3'.checkpoint = s3.checkpoint
      /\ s3' = [entries |-> list, checkpoint |-> s3.checkpoint] /\ s3.checkpoint \in Seq(CutEntry)
  BY <1>1 DEF CutTypes
<1>. HIDE DEF tool, n
<1>10. /\ Goes(s1, s1', c) /\ DOMAIN s1' = DOMAIN s1 /\ s1'[c] = tool
       /\ \A d \in DOMAIN s1 : d # c => s1'[d] = s1[d]
  BY <1>2, <1>7, <1>8, CallGoes DEF Recorded
<1>11. /\ EntriesAreTrue(s3.entries, s1') /\ EntriesAreTrue(s3.checkpoint, s1')
       /\ EndsAreTrue(s2.inFile, s1') /\ EndsAreTrue(s2.queued, s1') /\ s1' \in Seq(CutCall)
  BY <1>10, StillTrue DEF CutJournal, CutLog, Goes
<1>12. \A i \in DOMAIN s3.entries : s3.entries[i].after # c
  BY <1>2 DEF CutJournal, EntriesAreTrue, Recorded
<1>13. EntriesAreTrue(list, s1')
  BY <1>2, <1>3, <1>5, <1>7, <1>10, <1>11, <1>12 DEF EntriesAreTrue, Recorded
<1>14. CutTypes'
  BY <1>1, <1>5, <1>9, <1>11 DEF CutTypes
<1>15. CutLog' /\ CutJournal'
  BY <1>1, <1>9, <1>11, <1>13 DEF CutLog, CutJournal
<1>16. CutSaved'
  BY <1>1, <1>2, <1>7, <1>9, <1>10 DEF CutSaved, Unharmed, IsCovered
<1>17. CutLists'
  <2>1. ASSUME NEW T, NEW old \in Seq(T), Begins(old, s3.entries) PROVE Begins(old, list)
    <3>1. Len(old) \in Nat /\ DOMAIN old = 1..Len(old) /\ DOMAIN s3.entries = 1..Len(s3.entries)
      BY <1>4
    <3>. QED BY <1>5, <1>6, <2>1, <3>1 DEF Begins
  <2>2. \A d \in DOMAIN s1 : s1[d].list \in Seq(CutEntry)
    <3>1. \A d \in DOMAIN s1 : s1[d] \in CutCall
      BY DEF CutTypes
    <3>. QED BY <3>1 DEF CutCall
  <2>3. Begins(list, list) /\ IsIn(c, list)
    BY <1>3, <1>5, <1>6 DEF Begins, IsIn
  <2>4. Begins(s3.checkpoint, list)
    BY <1>2, <1>9, <2>1 DEF CutLists
  <2>5. \A d \in DOMAIN s1 : Begins(s1[d].list, list)
    BY <1>2, <2>1, <2>2 DEF CutLists
  <2>. QED BY <1>2, <1>7, <1>9, <1>10, <2>3, <2>4, <2>5 DEF CutLists
<1>. QED BY <1>1, <1>2, <1>14, <1>15, <1>16, <1>17, LiveHolds

\* The list that is saved holds all that was saved, unless a newer one was there.
LEMMA CutPersist == ASSUME CutInv, NEW c \in 1..CutCalls, Cut!Persist(c) PROVE CutInv'
<1>. USE DEF CutInv
<1>. DEFINE list == s1[c].list
            tool == [s1[c] EXCEPT !.stage = "recorded"]
            harms == IF Cut!Older(c) THEN s6.kinds \cup {"older"} ELSE s6.kinds
<1>1. /\ Cut!CallAt(c, "pushed") /\ s1' = [s1 EXCEPT ![c].stage = "recorded"]
      /\ s3' = [s3 EXCEPT !.checkpoint = list] /\ s6' = [s6 EXCEPT !.kinds = harms]
      /\ UNCHANGED <<s2, s4, s5>> /\ "recorded" \in Stages
  BY DEF Cut!Persist, Cut!Reaches, Stages
<1>2. /\ s5.is = "running" /\ c \in DOMAIN s1 /\ s1[c] \in CutCall /\ s1[c].stage = "pushed"
      /\ list \in Seq(CutEntry)
  BY <1>1, CallAt
<1>3. tool \in CutCall /\ tool.stage = "recorded" /\ tool.file = s1[c].file
      /\ tool.list = list /\ s1' = [s1 EXCEPT ![c] = tool]
  BY <1>1, CallAt
<1>4. s3'.checkpoint = list /\ s3'.entries = s3.entries /\ s3.entries \in Seq(CutEntry)
      /\ s3' = [entries |-> s3.entries, checkpoint |-> list] /\ s3.checkpoint \in Seq(CutEntry)
  BY <1>1 DEF CutTypes
<1>5. /\ s6' \in [count : Nat, since : BOOLEAN, kinds : SUBSET CutKinds] /\ s6.kinds \subseteq s6'.kinds
      /\ Unharmed' => Len(list) >= Len(s3.checkpoint)
  <2>1. harms \in SUBSET CutKinds /\ s6.kinds \subseteq harms /\ (Cut!Older(c) => "older" \in harms)
    BY DEF CutTypes, CutKinds
  <2>2. s6'.kinds = harms /\ s6' = [count |-> s6.count, since |-> s6.since, kinds |-> harms]
    BY <1>1 DEF CutTypes
  <2>. HIDE DEF harms
  <2>3. Unharmed' => ~Cut!Older(c)
    BY <2>1, <2>2 DEF Unharmed
  <2>4. Len(list) \in Nat /\ Len(s3.checkpoint) \in Nat
    BY <1>2, <1>4
  <2>5. ~Cut!Older(c) => Len(list) >= Len(s3.checkpoint)
    BY <2>4 DEF Cut!Older
  <2>6. s6' \in [count : Nat, since : BOOLEAN, kinds : SUBSET CutKinds]
    BY <2>1, <2>2 DEF CutTypes
  <2>. QED BY <2>1, <2>2, <2>3, <2>5, <2>6
<1>6. Begins(list, s3.entries) /\ IsIn(c, list) /\ Begins(s3.checkpoint, s3.entries)
  BY <1>2 DEF CutLists
<1>. HIDE DEF list, tool, harms
<1>7. /\ Goes(s1, s1', c) /\ DOMAIN s1' = DOMAIN s1 /\ s1'[c] = tool
      /\ \A d \in DOMAIN s1 : d # c => s1'[d] = s1[d]
  BY <1>2, <1>3, CallGoes DEF Recorded
<1>8. /\ EntriesAreTrue(s3.entries, s1') /\ EndsAreTrue(s2.inFile, s1')
      /\ EndsAreTrue(s2.queued, s1') /\ s1' \in Seq(CutCall)
  BY <1>7, StillTrue DEF CutJournal, CutLog, Goes
<1>9. DOMAIN list = 1..Len(list) /\ DOMAIN s3.entries = 1..Len(s3.entries) /\ Len(list) \in Nat
      /\ Len(s3.entries) \in Nat
      /\ DOMAIN s3.checkpoint = 1..Len(s3.checkpoint) /\ Len(s3.checkpoint) \in Nat
  BY <1>2, <1>4
<1>10. \A i \in DOMAIN list : i \in DOMAIN s3.entries /\ list[i] = s3.entries[i]
  BY <1>6, <1>9 DEF Begins
<1>11. EntriesAreTrue(list, s1')
  BY <1>8, <1>10 DEF EntriesAreTrue
<1>12. CutTypes'
  BY <1>1, <1>2, <1>4, <1>5, <1>8 DEF CutTypes
<1>13. CutLog' /\ CutJournal'
  BY <1>1, <1>4, <1>8, <1>11 DEF CutLog, CutJournal
<1>14. CutSaved'
  <2>. SUFFICES ASSUME Unharmed', NEW d \in DOMAIN s1', s1'[d].stage \in {"recorded", "ended"}
                PROVE  \E i \in DOMAIN list : list[i].after = d
    BY <1>4 DEF CutSaved, IsCovered
  <2>1. CASE d = c
    BY <1>6, <2>1 DEF IsIn
  <2>2. CASE d # c
    <3>1. Unharmed /\ s1[d].stage \in {"recorded", "ended"} /\ d \in DOMAIN s1
      BY <1>5, <1>7, <2>2 DEF Unharmed
    <3>2. PICK i \in DOMAIN s3.checkpoint : s3.checkpoint[i].after = d
      BY <1>2, <3>1 DEF CutSaved, IsCovered
    <3>3. i \in DOMAIN list
      BY <1>5, <1>9
    <3>4. list[i] = s3.checkpoint[i]
      BY <1>6, <3>3 DEF Begins
    <3>. QED BY <3>2, <3>3, <3>4
  <2>. QED BY <2>1, <2>2
<1>15. CutLists'
  BY <1>1, <1>2, <1>3, <1>4, <1>6, <1>7 DEF CutLists
<1>. QED BY <1>1, <1>2, <1>12, <1>13, <1>14, <1>15, LiveHolds

LEMMA MishapIs ==
    ASSUME CutTypes, NEW k \in CutKinds, Cut!Mishap(k)
    PROVE  /\ s6' \in [count : Nat, since : BOOLEAN, kinds : SUBSET CutKinds]
           /\ k \in s6'.kinds /\ s6.kinds \subseteq s6'.kinds
           /\ s5.is = "reported" => s6'.since = TRUE
<1>. DEFINE b == s6.since \/ s5.is = "reported"
<1>1. s6' = [s6 EXCEPT !.count = @ + 1, !.kinds = @ \cup {k}, !.since = b]
  BY DEF Cut!Mishap
<1>2. b \in BOOLEAN /\ (s5.is = "reported" => b = TRUE)
  OBVIOUS
<1>. DEFINE n == s6.count + 1  ks == s6.kinds \cup {k}
<1>3. n \in Nat /\ ks \in SUBSET CutKinds /\ k \in ks /\ s6.kinds \subseteq ks
  BY DEF CutTypes
<1>4. s6' = [count |-> n, since |-> b, kinds |-> ks]
  <2>. HIDE DEF b
  <2>. QED BY <1>1 DEF CutTypes
<1>. HIDE DEF b, n, ks
<1>. QED BY <1>2, <1>3, <1>4

LEMMA CutPersistFails == ASSUME CutInv, NEW c \in 1..CutCalls, Cut!PersistFails(c) PROVE CutInv'
<1>. DEFINE tool == [s1[c] EXCEPT !.stage = "failed"]
<1>1. /\ CutTypes /\ Cut!CallAt(c, "pushed") /\ "failed" \in Stages
      /\ Cut!Mishap("unwritable") /\ "unwritable" \in CutKinds
  BY DEF CutInv, Cut!PersistFails, Stages, CutKinds
<1>2. s5.is = "running" /\ c \in DOMAIN s1 /\ s1[c].stage = "pushed"
  BY <1>1, CallAt
<1>3. tool \in CutCall /\ tool.stage = "failed" /\ tool.file = s1[c].file
      /\ tool.list = s1[c].list
  BY <1>1, CallAt
<1>4. s1' = [s1 EXCEPT ![c] = tool] /\ UNCHANGED <<s2, s3, s4, s5>>
  BY <1>1, CallAt DEF Cut!PersistFails, Cut!Reaches
<1>5. s4' \in [CutFiles -> CutText]
  BY <1>1, <1>4 DEF CutTypes
<1>6. s6' \in [count : Nat, since : BOOLEAN, kinds : SUBSET CutKinds] /\ s6.kinds \subseteq s6'.kinds
  BY <1>1, MishapIs
<1>. HIDE DEF tool
<1>. QED BY <1>2, <1>3, <1>4, <1>5, <1>6, CallGoesOn DEF Recorded

LEMMA CutAppendLine == ASSUME CutInv, Cut!AppendLine PROVE CutInv'
<1>. USE DEF CutInv
<1>. DEFINE l == Head(s2.queued)
<1>1. /\ s5.is = "running" /\ s2.queued # <<>> /\ UNCHANGED <<s1, s3, s4, s5, s6>>
      /\ s2' = [inFile |-> Append(s2.inFile, l), queued |-> Tail(s2.queued)]
  BY DEF Cut!AppendLine, Cut!Live
<1>2. s2.queued \in Seq(CutLine) /\ s2.inFile \in Seq(CutLine)
  BY DEF CutTypes
<1>3. /\ l \in CutLine /\ l = s2.queued[1] /\ 1 \in DOMAIN s2.queued
      /\ Tail(s2.queued) \in Seq(CutLine)
      /\ \A i \in DOMAIN Tail(s2.queued) :
            i + 1 \in DOMAIN s2.queued /\ Tail(s2.queued)[i] = s2.queued[i + 1]
  BY <1>1, <1>2
<1>. HIDE DEF l
<1>4. s2'.inFile = Append(s2.inFile, l) /\ s2'.queued = Tail(s2.queued)
  BY <1>1
<1>5. EndsAreTrue(s2'.queued, s1')
  BY <1>1, <1>3, <1>4 DEF CutLog, EndsAreTrue
<1>6. EndsAreTrue(s2'.inFile, s1')
  BY <1>1, <1>2, <1>3, <1>4, OneMore DEF CutLog, EndsAreTrue
<1>7. s2'.inFile \in Seq(CutLine)
  BY <1>2, <1>3, <1>4
<1>8. CutTypes'
  BY <1>1, <1>3, <1>4, <1>7 DEF CutTypes
<1>9. CutJournal' /\ CutSaved' /\ CutLists'
  BY <1>1 DEF CutJournal, CutSaved, CutLists, Unharmed
<1>. QED BY <1>1, <1>5, <1>6, <1>8, <1>9, LiveHolds DEF CutLog

-----------------------------------------------------------------------------
(* After the run *)

LEMMA CutDies == ASSUME CutInv, Cut!Dies PROVE CutInv'
<1>. USE DEF CutInv
<1>1. /\ s5.is = "running" /\ s2' = [s2 EXCEPT !.queued = <<>>]
      /\ s3' = [s3 EXCEPT !.entries = <<>>]
      /\ s5' = [s5 EXCEPT !.is = "down"] /\ UNCHANGED <<s1, s4, s6>>
  BY DEF Cut!Dies, Cut!Live
<1>2. /\ s2'.queued = <<>> /\ s2'.inFile = s2.inFile /\ s3'.entries = <<>>
      /\ s3'.checkpoint = s3.checkpoint /\ s5'.is = "down"
  BY <1>1 DEF CutTypes
<1>3. \A T : <<>> \in Seq(T)
  OBVIOUS
<1>4. CutTypes'
  BY <1>1, <1>3 DEF CutTypes
<1>5. DOMAIN s2'.queued = {} /\ DOMAIN s3'.entries = {}
  BY <1>2
<1>6. CutLog' /\ CutJournal'
  BY <1>1, <1>2, <1>5 DEF CutLog, CutJournal, EndsAreTrue, EntriesAreTrue
<1>7. CutSaved' /\ CutLists'
  BY <1>1, <1>2 DEF CutSaved, CutLists, Unharmed
<1>. QED BY <1>2, <1>4, <1>6, <1>7 DEF CutReported, Cut!DriftTellsWhatUndoSkips


\* While the log and the calls stay, the report says the same.
LEMMA SaysTheSame ==
    ASSUME UNCHANGED <<s1, s2>>
    PROVE  Cut!FilesChanged' = Cut!FilesChanged /\ Cut!Unfinished' = Cut!Unfinished
BY DEF Cut!FilesChanged, Cut!Unfinished, Cut!Said

LEMMA CutPrune == ASSUME CutInv, Cut!Prune PROVE CutInv'
<1>. USE DEF CutInv
<1>1. /\ s5.is # "undone" /\ s3' = [s3 EXCEPT !.checkpoint = <<>>] /\ Cut!Mishap("pruned")
      /\ UNCHANGED <<s1, s2, s4, s5>>
  BY DEF Cut!Prune
<1>2. s3'.entries = s3.entries /\ s3'.checkpoint = <<>>
  BY <1>1 DEF CutTypes
<1>3. /\ s6' \in [count : Nat, since : BOOLEAN, kinds : SUBSET CutKinds]
      /\ "pruned" \in s6'.kinds /\ (s5.is = "reported" => s6'.since = TRUE)
  BY <1>1, MishapIs DEF CutKinds
<1>4. <<>> \in Seq(CutEntry)
  OBVIOUS
<1>5. CutTypes'
  BY <1>1, <1>3, <1>4 DEF CutTypes
<1>6. CutLog' /\ CutJournal'
  BY <1>1, <1>2 DEF CutLog, CutJournal, EntriesAreTrue
<1>7. CutSaved'
  BY <1>3 DEF CutSaved, Unharmed
<1>8. CutReported'
  BY <1>1, <1>2, <1>3, SaysTheSame DEF CutReported, Unharmed
<1>9. CutLists'
  <2>1. Begins(<<>>, s3.entries)
    BY DEF Begins, CutTypes
  <2>. QED BY <1>1, <1>2, <2>1 DEF CutLists
<1>. QED BY <1>1, <1>5, <1>6, <1>7, <1>8, <1>9 DEF Cut!DriftTellsWhatUndoSkips

LEMMA CutEdit ==
    ASSUME CutInv, NEW f \in CutFiles, NEW how \in {Cut!Edited, Cut!Gone}, Cut!Edit(f, how)
    PROVE  CutInv'
<1>. USE DEF CutInv
<1>1. /\ s5.is # "undone" /\ s4' = [s4 EXCEPT ![f] = how] /\ Cut!Mishap("edited")
      /\ UNCHANGED <<s1, s2, s3, s5>>
  BY DEF Cut!Edit
<1>2. how \in CutText
  BY CutSizes DEF CutText, Cut!Edited, Cut!Gone
<1>3. /\ s6' \in [count : Nat, since : BOOLEAN, kinds : SUBSET CutKinds]
      /\ s6.kinds \subseteq s6'.kinds /\ (s5.is = "reported" => s6'.since = TRUE)
  BY <1>1, MishapIs DEF CutKinds
<1>4. CutTypes'
  BY <1>1, <1>2, <1>3 DEF CutTypes
<1>5. CutLog' /\ CutJournal' /\ CutLists'
  BY <1>1 DEF CutLog, CutJournal, CutLists
<1>6. Unharmed' => Unharmed
  BY <1>3 DEF Unharmed
<1>7. CutSaved'
  BY <1>1, <1>6 DEF CutSaved
<1>8. CutReported'
  <2>. SUFFICES ASSUME s5'.is = "reported" PROVE CutReported'
    BY DEF CutReported
  <2>1. s5.is = "reported" /\ s6'.since = TRUE
    BY <1>1, <1>3
  <2>2. Unharmed' => IsNamed(s3'.checkpoint, s5'.drift)
    BY <1>1, <1>6, <2>1 DEF CutReported
  <2>. QED BY <1>1, <2>1, <2>2, SaysTheSame DEF CutReported
<1>. QED BY <1>1, <1>4, <1>5, <1>7, <1>8 DEF Cut!DriftTellsWhatUndoSkips

LEMMA StatusIs ==
    ASSUME NEW e \in CutEntry
    PROVE  /\ Cut!Status(e) \in {"matches", "missing", "modified-since"}
           /\ Cut!Status(e) = "matches" <=> s4[e.file] = e.after
<1>1. CASE s4[e.file] = e.after
  <2>1. e.after # Cut!Gone
    BY CutSizes DEF CutEntry, Cut!Gone
  <2>. QED BY <1>1, <2>1 DEF Cut!Status
<1>2. CASE s4[e.file] # e.after /\ s4[e.file] = Cut!Gone
  BY <1>2 DEF Cut!Status
<1>3. CASE s4[e.file] # e.after /\ s4[e.file] # Cut!Gone
  BY <1>3 DEF Cut!Status
<1>. QED BY <1>1, <1>2, <1>3

\* What is in the drift, by the place in the checkpoint.
LEMMA DriftIs ==
    ASSUME CutTypes
    PROVE  /\ Cut!Drift = {[file |-> s3.checkpoint[i].file, status |-> Cut!Status(s3.checkpoint[i])] :
                              i \in DOMAIN s3.checkpoint}
           /\ \A i \in DOMAIN s3.checkpoint :
                 /\ s3.checkpoint[i] \in CutEntry /\ s3.checkpoint[i].file \in CutFiles
                 /\ Cut!Status(s3.checkpoint[i]) \in {"matches", "missing", "modified-since"}
<1>1. Cut!ToSet(s3.checkpoint) = {s3.checkpoint[i] : i \in DOMAIN s3.checkpoint}
  BY DEF Cut!ToSet
<1>2. ASSUME NEW i \in DOMAIN s3.checkpoint PROVE s3.checkpoint[i] \in CutEntry
  BY DEF CutTypes
<1>3. ASSUME NEW i \in DOMAIN s3.checkpoint
      PROVE  /\ s3.checkpoint[i].file \in CutFiles
             /\ Cut!Status(s3.checkpoint[i]) \in {"matches", "missing", "modified-since"}
  BY <1>2, StatusIs DEF CutEntry
<1>. QED BY <1>1, <1>2, <1>3 DEF Cut!Drift

LEMMA CutReport == ASSUME CutInv, Cut!Report PROVE CutInv'
<1>. USE DEF CutInv
<1>1. /\ s5.is = "down"
      /\ s5' = [s5 EXCEPT !.is = "reported", !.changed = Cut!FilesChanged,
                          !.unfinished = Cut!Unfinished, !.drift = Cut!Drift]
      /\ UNCHANGED <<s1, s2, s3, s4, s6>>
  BY DEF Cut!Report
<1>. DEFINE changed == Cut!FilesChanged  open == Cut!Unfinished  drift == Cut!Drift
<1>2. changed \in SUBSET CutFiles
  <2>1. ASSUME NEW i \in DOMAIN s2.inFile, s2.inFile[i].is = "end"
        PROVE  s2.inFile[i].call \in DOMAIN s1
    BY <2>1 DEF CutLog, EndsAreTrue
  <2>2. Cut!Said("end") \subseteq DOMAIN s1
    BY <2>1 DEF Cut!Said, Cut!ToSet
  <2>3. \A c \in DOMAIN s1 : s1[c] \in CutCall
    BY DEF CutTypes
  <2>. QED BY <2>2, <2>3 DEF Cut!FilesChanged, CutCall
<1>3. open \in SUBSET Nat
  <2>1. \A i \in DOMAIN s2.inFile : s2.inFile[i] \in CutLine
    BY DEF CutTypes
  <2>2. \A k : Cut!Said(k) \subseteq Nat
    BY <2>1 DEF Cut!Said, Cut!ToSet, CutLine
  <2>. QED BY <2>2 DEF Cut!Unfinished
<1>4. drift \in SUBSET [file : CutFiles, status : {"matches", "missing", "modified-since"}]
  BY DriftIs
<1>5. s5'.is = "reported" /\ s5'.changed = changed /\ s5'.unfinished = open /\ s5'.drift = drift
  BY <1>1 DEF CutTypes
<1>6. Cut!FilesChanged' = changed /\ Cut!Unfinished' = open
  BY <1>1, SaysTheSame
<1>7. Cut!Drift' = drift
  BY <1>1 DEF Cut!Drift, Cut!Status
<1>8. IsNamed(s3.checkpoint, drift)
  <2>. SUFFICES ASSUME NEW i \in DOMAIN s3.checkpoint
                PROVE  \E d \in drift : d.file = s3.checkpoint[i].file
    BY DEF IsNamed
  <2>. DEFINE d == [file |-> s3.checkpoint[i].file, status |-> Cut!Status(s3.checkpoint[i])]
  <2>1. d \in drift
    BY DriftIs
  <2>2. d.file = s3.checkpoint[i].file
    OBVIOUS
  <2>. QED BY <2>1, <2>2
<1>. HIDE DEF changed, open, drift
<1>9. CutTypes'
  <2>1. s5' = [is |-> "reported", changed |-> changed, unfinished |-> open, drift |-> drift,
               restored |-> s5.restored] /\ s5.restored \in SUBSET CutFiles
    BY <1>1 DEF CutTypes, changed, open, drift
  <2>. QED BY <1>1, <1>2, <1>3, <1>4, <2>1 DEF CutTypes
<1>10. CutLog' /\ CutJournal' /\ CutSaved' /\ CutLists'
  BY <1>1, <1>5 DEF CutLog, CutJournal, CutSaved, CutLists, Unharmed
<1>11. CutReported'
  BY <1>1, <1>5, <1>6, <1>7, <1>8 DEF CutReported
<1>. QED BY <1>5, <1>9, <1>10, <1>11 DEF Cut!DriftTellsWhatUndoSkips

-----------------------------------------------------------------------------
(* The undo *)

CutState == [files : [CutFiles -> CutText], restored : SUBSET CutFiles]
\* The state after the last i entries.
TakesBack(g, list) ==
    /\ g[0] = [files |-> s4, restored |-> {}]
    /\ \A i \in 1..Len(list) : g[i] = Cut!Back(g[i - 1], list[Len(list) + 1 - i])

LEMMA UndoneIs ==
    ASSUME CutTypes
    PROVE  \E g : /\ g \in [0..Len(s3.checkpoint) -> CutState] /\ TakesBack(g, s3.checkpoint)
                  /\ Cut!Undone = g[Len(s3.checkpoint)]
<1>. DEFINE list == s3.checkpoint
            n == Len(list)
            base == [files |-> s4, restored |-> {}]
            h == [x \in (1..n) \X CutState |-> Cut!Back(x[2], list[n + 1 - x[1]])]
            Steps(g) == [i \in 0..n |-> IF i = 0 THEN base ELSE Cut!Back(g[i - 1], list[n + 1 - i])]
<1>1. n \in Nat /\ base \in CutState /\ list \in Seq(CutEntry)
  BY DEF CutState, CutTypes
<1>2. ASSUME NEW i \in 1..n PROVE list[n + 1 - i] \in CutEntry
  <2>1. n + 1 - i \in 1..n
    BY <1>1
  <2>. HIDE DEF list
  <2>. QED BY <1>1, <2>1
<1>3. ASSUME NEW s \in CutState, NEW e \in CutEntry PROVE Cut!Back(s, e) \in CutState
  BY DEF Cut!Back, CutState, CutEntry
<1>4. h \in [(1..n) \X CutState -> CutState]
  BY <1>2, <1>3
<1>5. \A i \in 1..n, s \in CutState : h[<<i, s>>] = Cut!Back(s, list[n + 1 - i])
  OBVIOUS
<1>6. PICK g \in [0..n -> CutState] : Solves(g, n, base, h)
  <2>1. IsRecursion(n, CutState, base, h)
    BY <1>1, <1>4 DEF IsRecursion
  <2>. HIDE DEF n, base, h
  <2>. QED BY <2>1, RecursionExists
<1>7. g = Steps(g)
  <2>1. \A i \in 0..n : g[i] = Steps(g)[i]
    <3>. SUFFICES ASSUME NEW i \in 0..n PROVE g[i] = Steps(g)[i]
      OBVIOUS
    <3>. HIDE DEF h, base
    <3>1. CASE i = 0
      BY <1>6, <3>1 DEF Solves
    <3>2. CASE i # 0
      <4>1. i \in 1..n /\ i - 1 \in 0..n
        BY <1>1, <3>2
      <4>2. g[i] = Cut!Back(g[i - 1], list[n + 1 - i])
        <5>. HIDE DEF n, list
        <5>. QED BY <1>5, <1>6, <4>1 DEF Solves
      <4>. QED BY <3>2, <4>2
    <3>. QED BY <3>1, <3>2
  <2>2. g = [i \in 0..n |-> g[i]] /\ DOMAIN Steps(g) = 0..n
    BY <1>6
  <2>. HIDE DEF n
  <2>. QED BY <2>1, <2>2
<1>. DEFINE k == CHOOSE f : f = Steps(f)
<1>8. k = Steps(k)
  BY <1>7
<1>9. Cut!Undone = k[n]
  BY DEF Cut!Undone
<1>10. \A i \in 0..n : k[i] = IF i = 0 THEN base ELSE Cut!Back(k[i - 1], list[n + 1 - i])
  <2>. HIDE DEF k, n, base, list
  <2>. QED BY <1>8
<1>11. TakesBack(k, list)
  <2>. HIDE DEF k
  <2>1. 0 \in 0..n /\ \A i \in 1..n : i \in 0..n /\ i # 0
    BY <1>1
  <2>. QED BY <1>10, <2>1 DEF TakesBack
<1>12. k \in [0..n -> CutState]
  <2>. DEFINE S == {i \in Nat : i \in 0..n => k[i] \in CutState}
  <2>. HIDE DEF k, base, list, n
  <2>1. 0 \in S
    BY <1>1, <1>10
  <2>2. ASSUME NEW i \in S PROVE i + 1 \in S
    <3>. SUFFICES ASSUME i + 1 \in 0..n PROVE k[i + 1] \in CutState
      OBVIOUS
    <3>1. i \in 0..n /\ i + 1 \in 1..n /\ (i + 1) - 1 = i /\ i + 1 # 0
      BY <1>1
    <3>2. k[i + 1] = Cut!Back(k[i], list[n + 1 - (i + 1)])
      BY <1>10, <3>1
    <3>. QED BY <1>2, <1>3, <3>1, <3>2
  <2>3. S = Nat
    <3>1. S \in SUBSET Nat
      OBVIOUS
    <3>. HIDE DEF S
    <3>. QED BY <2>1, <2>2, <3>1, Induction
  <2>4. DOMAIN k = 0..n /\ k = [i \in 0..n |-> k[i]]
    BY <1>8
  <2>5. \A i \in 0..n : k[i] \in CutState
    BY <1>1, <2>3
  <2>. QED BY <2>4, <2>5
<1>. QED BY <1>9, <1>11, <1>12

\* A file with one entry is restored if it holds what the entry wrote, and not otherwise.
LEMMA OneEntryDecides ==
    ASSUME CutTypes, NEW g \in [0..Len(s3.checkpoint) -> CutState], TakesBack(g, s3.checkpoint),
           NEW at \in DOMAIN s3.checkpoint,
           \A i \in DOMAIN s3.checkpoint : s3.checkpoint[i].file = s3.checkpoint[at].file => i = at
    PROVE  s3.checkpoint[at].file \in g[Len(s3.checkpoint)].restored
               <=> s4[s3.checkpoint[at].file] = s3.checkpoint[at].after
<1>. DEFINE list == s3.checkpoint
            n == Len(list)
            e == list[at]
            k == n + 1 - at
            Fits(i) == IF i < k THEN g[i].files[e.file] = s4[e.file] /\ e.file \notin g[i].restored
                       ELSE e.file \in g[i].restored <=> s4[e.file] = e.after
            S == {i \in Nat : i \in 0..n => Fits(i)}
<1>1. /\ list \in Seq(CutEntry) /\ n \in Nat /\ at \in 1..n /\ k \in 1..n /\ e \in CutEntry
      /\ e.file \in CutFiles
  <2>1. list \in Seq(CutEntry)
    BY DEF CutTypes
  <2>a. at \in DOMAIN list
    OBVIOUS
  <2>. HIDE DEF list
  <2>2. n \in Nat /\ at \in 1..n /\ e \in CutEntry
    BY <2>a, <2>1
  <2>3. k \in 1..n
    BY <2>2
  <2>. QED BY <2>1, <2>2, <2>3 DEF CutEntry
<1>2. 0 \in S
  <2>1. g[0].files = s4 /\ g[0].restored = {}
    BY DEF TakesBack
  <2>2. 0 < k
    BY <1>1
  <2>. HIDE DEF k, n, e
  <2>. QED BY <2>1, <2>2
<1>3. ASSUME NEW i \in S PROVE i + 1 \in S
  <2>. SUFFICES ASSUME i + 1 \in 0..n PROVE Fits(i + 1)
    OBVIOUS
  <2>. DEFINE d == list[n + 1 - (i + 1)]
  <2>1. i \in 0..n /\ i + 1 \in 1..n /\ (i + 1) - 1 = i /\ n + 1 - (i + 1) \in 1..n
    BY <1>1
  <2>2. g[i + 1] = Cut!Back(g[i], d) /\ g[i] \in CutState /\ Fits(i)
    BY <2>1 DEF TakesBack
  <2>3. d \in CutEntry /\ (d.file = e.file <=> i + 1 = k)
    <3>1. n + 1 - (i + 1) = at <=> i + 1 = k
      <4>. HIDE DEF n, list
      <4>. QED BY <1>1, <2>1
    <3>2. n + 1 - (i + 1) \in DOMAIN list
      <4>. HIDE DEF list
      <4>. QED BY <1>1, <2>1
    <3>3. d \in CutEntry
      BY <1>1, <3>2
    <3>. QED BY <3>1, <3>2, <3>3
  <2>4. d.file \in CutFiles /\ d.before \in CutText
    BY <2>3 DEF CutEntry
  <2>5. CASE i + 1 = k
    <3>1. d = e /\ i < k /\ ~(i + 1 < k)
      BY <1>1, <2>1, <2>5
    <3>. HIDE DEF e, d, k, n, list
    <3>. QED BY <1>1, <2>2, <3>1 DEF Cut!Back, CutState
  <2>6. CASE i + 1 # k
    <3>1. (i + 1 < k <=> i < k) /\ d.file # e.file
      BY <1>1, <2>1, <2>3, <2>6
    <3>. HIDE DEF e, d, k, n, list
    <3>. QED BY <1>1, <2>2, <2>4, <3>1 DEF Cut!Back, CutState
  <2>. QED BY <2>5, <2>6
<1>4. S = Nat
  <2>1. S \in SUBSET Nat
    OBVIOUS
  <2>. HIDE DEF S
  <2>. QED BY <1>2, <1>3, <2>1, Induction
<1>5. Fits(n)
  BY <1>1, <1>4
<1>6. ~(n < k)
  BY <1>1
<1>. QED BY <1>5, <1>6

LEMMA CutUndo == ASSUME CutInv, Cut!Undo PROVE CutInv'
<1>. USE DEF CutInv
<1>. DEFINE list == s3.checkpoint  restored == Cut!Undone.restored
<1>1. /\ s5.is = "reported" /\ s4' = Cut!Undone.files
      /\ s5' = [s5 EXCEPT !.is = "undone", !.restored = restored]
      /\ s3' = [entries |-> <<>>, checkpoint |-> <<>>] /\ UNCHANGED <<s1, s2, s6>>
  BY DEF Cut!Undo
<1>2. PICK g : /\ g \in [0..Len(list) -> CutState] /\ TakesBack(g, list)
               /\ Cut!Undone = g[Len(list)]
  BY UndoneIs
<1>3. Cut!Undone \in CutState
  <2>1. Len(list) \in 0..Len(list)
    BY DEF CutTypes
  <2>. QED BY <1>2, <2>1
<1>4. Cut!Undone.files \in [CutFiles -> CutText] /\ restored \in SUBSET CutFiles
  BY <1>3 DEF CutState
<1>5. s5'.is = "undone" /\ s5'.restored = restored /\ s5'.drift = s5.drift
  BY <1>1 DEF CutTypes
<1>6. s3'.entries = <<>> /\ s3'.checkpoint = <<>> /\ <<>> \in Seq(CutEntry)
  BY <1>1
<1>7. ASSUME ~s6.since, NEW d \in s5.drift, Cut!WrittenOnce(d.file)
      PROVE  d.file \in restored <=> d.status = "matches"
  <2>1. PICK at \in DOMAIN list : d = [file |-> list[at].file, status |-> Cut!Status(list[at])]
    BY <1>1, <1>7, DriftIs DEF CutReported
  <2>2. d.file = list[at].file /\ d.status = Cut!Status(list[at])
    BY <2>1
  <2>3. d.status = "matches" <=> s4[list[at].file] = list[at].after
    BY <2>2, StatusIs DEF CutTypes
  <2>4. PICK c : {b \in DOMAIN s1 : s1[b].file = d.file} = {c}
    BY <1>7 DEF Cut!WrittenOnce
  <2>5. ASSUME NEW i \in DOMAIN list, list[i].file = list[at].file PROVE i = at
    <3>1. /\ list[i].after \in DOMAIN s1 /\ s1[list[i].after].file = list[i].file
          /\ list[at].after \in DOMAIN s1 /\ s1[list[at].after].file = list[at].file
      BY DEF CutJournal, EntriesAreTrue
    <3>2. list[i].after = list[at].after
      BY <2>2, <2>4, <2>5, <3>1
    <3>. QED BY <3>2 DEF CutJournal, EntriesAreTrue
  <2>6. list[at].file \in restored <=> s4[list[at].file] = list[at].after
    BY <1>2, <2>5, OneEntryDecides
  <2>. QED BY <2>2, <2>3, <2>6
<1>. HIDE DEF restored
<1>8. CutTypes'
  <2>1. s5' \in [is : {"running", "down", "reported", "undone"}, changed : SUBSET CutFiles,
               unfinished : SUBSET Nat, restored : SUBSET CutFiles,
               drift : SUBSET [file : CutFiles, status : {"matches", "missing", "modified-since"}]]
    BY <1>1, <1>4 DEF CutTypes
  <2>. QED BY <1>1, <1>4, <1>6, <2>1 DEF CutTypes
<1>9. CutLog' /\ CutJournal' /\ CutLists' /\ CutSaved' /\ CutReported'
  BY <1>1, <1>5, <1>6 DEF CutLog, CutJournal, EntriesAreTrue, CutLists, CutSaved, CutReported
<1>10. Cut!DriftTellsWhatUndoSkips'
  BY <1>1, <1>5, <1>7 DEF Cut!DriftTellsWhatUndoSkips, Cut!WrittenOnce
<1>. QED BY <1>8, <1>9, <1>10

LEMMA CutStep == ASSUME CutInv, Cut!CutNext PROVE CutInv'
BY CutToolStart, CutReads, CutWrites, CutPush, CutPersist, CutPersistFails, CutToolEnd, CutToolError,
   CutAppendLine, CutDies, CutPrune, CutEdit, CutReport, CutUndo DEF Cut!CutNext

LEMMA CutStutters == ASSUME CutInv, UNCHANGED <<s1, s2, s3, s4, s5, s6>> PROVE CutInv'
<1>1. CutTypes' /\ CutLog' /\ CutJournal' /\ CutLists' /\ CutSaved'
  BY DEF CutInv, CutTypes, CutLog, CutJournal, CutLists, CutSaved, Unharmed
<1>2. CutReported'
  BY SaysTheSame DEF CutInv, CutReported, Unharmed, Cut!Drift, Cut!Status
<1>3. Cut!DriftTellsWhatUndoSkips'
  BY DEF CutInv, Cut!DriftTellsWhatUndoSkips, Cut!WrittenOnce
<1>. QED BY <1>1, <1>2, <1>3 DEF CutInv

LEMMA CutInvImplies == ASSUME CutInv PROVE Cut!CutRunIsToldRight
<1>. USE DEF CutInv
<1>. SUFFICES ASSUME s5.is = "reported"
     PROVE  /\ s5.changed \subseteq {s1[c].file : c \in {d \in DOMAIN s1 : Cut!Kept(d)}}
            /\ \A c \in DOMAIN s1 : Cut!Kept(c) =>
                  /\ c \in Cut!Said("start") => s1[c].file \in s5.changed \/ c \in s5.unfinished
                  /\ s6.kinds \cap {"pruned", "older"} = {} => Cut!InDrift(s1[c].file)
  BY DEF Cut!CutRunIsToldRight
<1>1. s5.changed = {s1[c].file : c \in Cut!Said("end")}
      /\ s5.unfinished = (Cut!Said("start") \cup Cut!Said("error")) \ Cut!Said("end")
  BY DEF CutReported, Cut!FilesChanged, Cut!Unfinished
<1>2. \A c \in Cut!Said("end") : c \in DOMAIN s1 /\ Cut!Kept(c)
  BY DEF Cut!Said, Cut!ToSet, Cut!Kept, CutLog, EndsAreTrue
<1>3. s5.changed \subseteq {s1[c].file : c \in {d \in DOMAIN s1 : Cut!Kept(d)}}
  BY <1>1, <1>2
<1>4. ASSUME NEW c \in DOMAIN s1, c \in Cut!Said("start")
      PROVE  s1[c].file \in s5.changed \/ c \in s5.unfinished
  BY <1>1, <1>4
<1>5. ASSUME NEW c \in DOMAIN s1, Cut!Kept(c), Unharmed PROVE Cut!InDrift(s1[c].file)
  <2>1. PICK i \in DOMAIN s3.checkpoint : s3.checkpoint[i].after = c
    BY <1>5 DEF CutSaved, IsCovered, Cut!Kept
  <2>2. s3.checkpoint[i].file = s1[c].file
    BY <2>1 DEF CutJournal, EntriesAreTrue
  <2>3. \E d \in s5.drift : d.file = s3.checkpoint[i].file
    BY <1>5, <2>1 DEF CutReported, IsNamed
  <2>. QED BY <2>2, <2>3 DEF Cut!InDrift
<1>. QED BY <1>3, <1>4, <1>5 DEF Unharmed

\* The report of a run that was cut names nothing the run did not write and record, and all it
\* did, wherever the run was cut and whatever became of its lines; the drift says what an undo
\* will restore; for any files and any number of calls and mishaps.  (summarizeRun,
\* checkRunFileDrift, undoInterruptedRun)
THEOREM CutRunsAreToldRight == PartsSpec => []CutRunIsToldRight
<1>. DEFINE Inv == part = "cut" => CutInv
<1>1. PartsInit => Inv
  BY CutInitInv DEF PartsInit
<1>2. Inv /\ [PartsNext]_partsVars => Inv'
  <2>. SUFFICES ASSUME Inv, [PartsNext]_partsVars, part' = "cut" PROVE CutInv'
    OBVIOUS
  <2>1. part = "cut" /\ CutInv
    BY PartStays
  <2>2. CASE Cut!CutNext
    BY <2>1, <2>2, CutStep
  <2>3. CASE UNCHANGED partsVars
    BY <2>1, <2>3, CutStutters DEF partsVars
  <2>4. Cut!CutNext \/ UNCHANGED partsVars
    BY <2>1 DEF PartsNext
  <2>. QED BY <2>2, <2>3, <2>4
<1>3. Inv => CutRunIsToldRight
  BY CutInvImplies DEF CutRunIsToldRight, CutInv
<1>. QED BY <1>1, <1>2, <1>3, PTL DEF PartsSpec


-----------------------------------------------------------------------------
(* ImageSet: s1 is disk, s2 pending, s3 gate, s4 sent.  A message has no more than is     *)
(* allowed, and every image is of the type it was attached as.                            *)

Types == {"png", "gif", "none"}
ImageFile == ImageFiles \X {1, 2}
Attached == [path : ImageFiles, type : Types, size : Nat]
Opened == [file : ImageFile, size : Nat]
Url == [type : Types, size : Nat, is : Types, file : ImageFile]
DiskRec == [at : [ImageFiles -> {0, 1, 2}], content : [ImageFile -> [type : Types, size : Nat]],
            changes : Nat, touched : SUBSET ImageFile]
GateRec == [pc : {"idle", "detecting", "opening", "verifying", "typing"}, path : ImageFiles \cup {"none"},
            size : Nat, submitted : Seq(Attached), opened : Seq(Opened), read : Seq(Url)]
SentRec == [n : Nat, urls : Seq(Url)]

LEMMA ImageSizes ==
    MaxImages \in Nat /\ MaxBytes \in Nat /\ MaxBytes > 0 /\ MaxTotal \in Nat /\ MaxSends \in Nat
BY ImagesAssumption

-----------------------------------------------------------------------------
(* The sum of the sizes *)

HasSizes(list) == \A i \in DOMAIN list : list[i].size \in Nat
Sums(g, list) == g[0] = 0 /\ \A i \in 1..Len(list) : g[i] = g[i - 1] + list[i].size

LEMMA TotalIs ==
    ASSUME NEW T, NEW list \in Seq(T), HasSizes(list)
    PROVE  \E g : /\ g[0] = 0 /\ \A i \in 1..Len(list) : g[i] = g[i - 1] + list[i].size
                  /\ Images!Total(list) = g[Len(list)]
<1>. DEFINE n == Len(list)
            h == [x \in (1..n) \X Nat |-> x[2] + list[x[1]].size]
            Steps(g) == [i \in 0..n |-> IF i = 0 THEN 0 ELSE g[i - 1] + list[i].size]
<1>1. n \in Nat
  OBVIOUS
<1>2. ASSUME NEW i \in 1..n PROVE list[i].size \in Nat
  BY DEF HasSizes
<1>3. h \in [(1..n) \X Nat -> Nat]
  <2>1. \A i \in 1..n, s \in Nat : s + list[i].size \in Nat
    BY <1>2
  <2>. QED BY <2>1
<1>4. \A i \in 1..n, s \in Nat : h[<<i, s>>] = s + list[i].size
  OBVIOUS
<1>5. PICK g \in [0..n -> Nat] : Solves(g, n, 0, h)
  <2>1. IsRecursion(n, Nat, 0, h)
    BY <1>1, <1>3 DEF IsRecursion
  <2>. HIDE DEF n, h
  <2>. QED BY <2>1, RecursionExists
<1>6. g = Steps(g)
  <2>1. \A i \in 0..n : g[i] = Steps(g)[i]
    <3>. SUFFICES ASSUME NEW i \in 0..n PROVE g[i] = Steps(g)[i]
      OBVIOUS
    <3>. HIDE DEF h
    <3>1. CASE i = 0
      BY <1>5, <3>1 DEF Solves
    <3>2. CASE i # 0
      <4>1. i \in 1..n /\ i - 1 \in 0..n
        BY <1>1, <3>2
      <4>2. g[i] = g[i - 1] + list[i].size
        <5>. HIDE DEF n
        <5>. QED BY <1>4, <1>5, <4>1 DEF Solves
      <4>. QED BY <3>2, <4>2
    <3>. QED BY <3>1, <3>2
  <2>2. g = [i \in 0..n |-> g[i]] /\ DOMAIN Steps(g) = 0..n
    BY <1>5
  <2>. HIDE DEF n
  <2>. QED BY <2>1, <2>2
<1>. DEFINE k == CHOOSE f : f = Steps(f)
<1>7. k = Steps(k)
  BY <1>6
<1>8. Images!Total(list) = k[n]
  BY DEF Images!Total
<1>9. \A i \in 0..n : k[i] = IF i = 0 THEN 0 ELSE k[i - 1] + list[i].size
  <2>. HIDE DEF k, n
  <2>. QED BY <1>7
<1>10. k[0] = 0 /\ \A i \in 1..n : k[i] = k[i - 1] + list[i].size
  <2>. HIDE DEF k
  <2>1. 0 \in 0..n /\ \A i \in 1..n : i \in 0..n /\ i # 0
    BY <1>1
  <2>. QED BY <1>9, <2>1
<1>. HIDE DEF k
<1>. QED BY <1>8, <1>10

\* Lists of the same sizes have the same sum.
LEMMA TotalsAgree ==
    ASSUME NEW T, NEW U, NEW list \in Seq(T), NEW other \in Seq(U),
           HasSizes(list), HasSizes(other),
           Len(list) = Len(other), \A i \in DOMAIN list : list[i].size = other[i].size
    PROVE  Images!Total(list) = Images!Total(other)
<1>1. PICK g : /\ g[0] = 0 /\ \A i \in 1..Len(list) : g[i] = g[i - 1] + list[i].size
               /\ Images!Total(list) = g[Len(list)]
  BY TotalIs
<1>2. PICK k : /\ k[0] = 0 /\ \A i \in 1..Len(other) : k[i] = k[i - 1] + other[i].size
               /\ Images!Total(other) = k[Len(other)]
  BY TotalIs
<1>. DEFINE n == Len(list)
            S == {i \in Nat : i \in 0..n => g[i] = k[i]}
<1>3. n \in Nat /\ DOMAIN list = 1..n
  OBVIOUS
<1>4. 0 \in S
  BY <1>1, <1>2
<1>5. ASSUME NEW i \in S PROVE i + 1 \in S
  <2>. SUFFICES ASSUME i + 1 \in 0..n PROVE g[i + 1] = k[i + 1]
    OBVIOUS
  <2>1. i \in 0..n /\ i + 1 \in 1..n /\ (i + 1) - 1 = i
    BY <1>3
  <2>2. g[i] = k[i]
    BY <2>1
  <2>. HIDE DEF S
  <2>. QED BY <1>1, <1>2, <1>3, <2>1, <2>2
<1>6. S = Nat
  <2>1. S \in SUBSET Nat
    OBVIOUS
  <2>. HIDE DEF S
  <2>. QED BY <1>4, <1>5, <2>1, Induction
<1>7. n \in 0..n
  BY <1>3
<1>. QED BY <1>1, <1>2, <1>3, <1>6, <1>7

LEMMA TotalOfNothing == Images!Total(<<>>) = 0
<1>1. <<>> \in Seq(Nat) /\ HasSizes(<<>>) /\ Len(<<>>) = 0
  BY DEF HasSizes
<1>. QED BY <1>1, TotalIs

-----------------------------------------------------------------------------
(* The images without that of a path *)

ArePaths(list) == \A i, j \in DOMAIN list : list[i].path = list[j].path => i = j
Leaves(g, list, p) ==
    /\ g[0] = <<>>
    /\ \A i \in 1..Len(list) :
          g[i] = IF list[i].path = p THEN g[i - 1] ELSE Append(g[i - 1], list[i])

LEMMA WithoutIs ==
    ASSUME NEW list \in Seq(Attached), NEW p
    PROVE  \E g : Leaves(g, list, p) /\ Images!Without(list, p) = g[Len(list)]
<1>. DEFINE n == Len(list)
            One(s, i) == IF list[i].path = p THEN s ELSE Append(s, list[i])
            h == [x \in (1..n) \X Seq(Attached) |-> One(x[2], x[1])]
            Steps(g) == [i \in 0..n |-> IF i = 0 THEN <<>>
                                        ELSE IF list[i].path = p THEN g[i - 1]
                                        ELSE Append(g[i - 1], list[i])]
<1>1. n \in Nat /\ <<>> \in Seq(Attached)
  OBVIOUS
<1>2. \A i \in 1..n, s \in Seq(Attached) : One(s, i) \in Seq(Attached)
  <2>1. \A i \in 1..n : list[i] \in Attached
    OBVIOUS
  <2>. QED BY <2>1
<1>3. h \in [(1..n) \X Seq(Attached) -> Seq(Attached)]
  <2>. HIDE DEF One, n
  <2>. QED BY <1>2
<1>4. \A i \in 1..n, s \in Seq(Attached) : h[<<i, s>>] = One(s, i)
  <2>. HIDE DEF One, n
  <2>. QED OBVIOUS
<1>5. PICK g \in [0..n -> Seq(Attached)] : Solves(g, n, <<>>, h)
  <2>1. IsRecursion(n, Seq(Attached), <<>>, h)
    BY <1>1, <1>3 DEF IsRecursion
  <2>. HIDE DEF n, h
  <2>. QED BY <2>1, RecursionExists
<1>6. g = Steps(g)
  <2>1. \A i \in 0..n : g[i] = Steps(g)[i]
    <3>. SUFFICES ASSUME NEW i \in 0..n PROVE g[i] = Steps(g)[i]
      OBVIOUS
    <3>. HIDE DEF h
    <3>1. CASE i = 0
      BY <1>5, <3>1 DEF Solves
    <3>2. CASE i # 0
      <4>1. i \in 1..n /\ i - 1 \in 0..n
        BY <1>1, <3>2
      <4>2. g[i] = One(g[i - 1], i)
        <5>. HIDE DEF n, One
        <5>. QED BY <1>4, <1>5, <4>1 DEF Solves
      <4>. QED BY <3>2, <4>2
    <3>. QED BY <3>1, <3>2
  <2>2. g = [i \in 0..n |-> g[i]] /\ DOMAIN Steps(g) = 0..n
    BY <1>5
  <2>. HIDE DEF n
  <2>. QED BY <2>1, <2>2
<1>. DEFINE k == CHOOSE f : f = Steps(f)
<1>7. k = Steps(k)
  BY <1>6
<1>8. Images!Without(list, p) = k[n]
  BY DEF Images!Without
<1>9. \A i \in 0..n : k[i] = Steps(k)[i]
  <2>. HIDE DEF k, n
  <2>. QED BY <1>7
<1>10. Leaves(k, list, p)
  <2>. HIDE DEF k
  <2>1. 0 \in 0..n /\ \A i \in 1..n : i \in 0..n /\ i # 0
    BY <1>1
  <2>. QED BY <1>9, <2>1 DEF Leaves
<1>. QED BY <1>8, <1>10

LEMMA WithoutPath ==
    ASSUME NEW list \in Seq(Attached), NEW p, ArePaths(list)
    PROVE  /\ Images!Without(list, p) \in Seq(Attached) /\ ArePaths(Images!Without(list, p))
           /\ \A i \in DOMAIN Images!Without(list, p) : Images!Without(list, p)[i].path # p
<1>1. PICK g : Leaves(g, list, p) /\ Images!Without(list, p) = g[Len(list)]
  BY WithoutIs
<1>. DEFINE n == Len(list)
            Good(s, i) == /\ s \in Seq(Attached) /\ ArePaths(s) /\ (\A m \in DOMAIN s : s[m].path # p)
                          /\ \A m \in DOMAIN s : \E j \in 1..i : s[m] = list[j]
            S == {i \in Nat : i \in 0..n => Good(g[i], i)}
<1>2. n \in Nat /\ DOMAIN list = 1..n
  OBVIOUS
<1>3. 0 \in S
  <2>1. g[0] = <<>> /\ <<>> \in Seq(Attached) /\ DOMAIN <<>> = {}
    BY <1>1 DEF Leaves
  <2>. QED BY <2>1 DEF ArePaths
<1>4. ASSUME NEW i \in S PROVE i + 1 \in S
  <2>. SUFFICES ASSUME i + 1 \in 0..n PROVE Good(g[i + 1], i + 1)
    OBVIOUS
  <2>1. i \in 0..n /\ i + 1 \in 1..n /\ (i + 1) - 1 = i /\ i \in Nat
    BY <1>2
  <2>2. Good(g[i], i)
    BY <2>1
  <2>3. g[i + 1] = IF list[i + 1].path = p THEN g[i] ELSE Append(g[i], list[i + 1])
    BY <1>1, <2>1 DEF Leaves
  <2>. DEFINE s == g[i]  e == list[i + 1]  t == Append(s, e)
  <2>4. CASE e.path = p
    <3>1. \A j \in 1..i : j \in 1..(i + 1)
      BY <2>1
    <3>. QED BY <2>2, <2>3, <2>4, <3>1
  <2>5. CASE e.path # p
    <3>1. e \in Attached /\ s \in Seq(Attached) /\ g[i + 1] = t
      BY <2>1, <2>2, <2>3, <2>5
    <3>2. ASSUME NEW m \in DOMAIN s PROVE s[m].path # e.path
      <4>1. PICK j \in 1..i : s[m] = list[j]
        BY <2>2
      <4>2. j \in DOMAIN list /\ i + 1 \in DOMAIN list /\ j # i + 1
        BY <1>2, <2>1
      <4>. QED BY <4>1, <4>2 DEF ArePaths
    <3>3. \A m \in DOMAIN s : (\E j \in 1..i : s[m] = list[j]) /\ s[m].path # p
      BY <2>2
    <3>. HIDE DEF s, e
    <3>4. /\ t \in Seq(Attached) /\ DOMAIN t = DOMAIN s \cup {Len(s) + 1} /\ t[Len(s) + 1] = e
          /\ Len(s) + 1 \notin DOMAIN s /\ \A m \in DOMAIN s : t[m] = s[m]
      BY <3>1, OneMore
    <3>5. ArePaths(s)
      BY <2>2 DEF s
    <3>. HIDE DEF t
    <3>6. ArePaths(t)
      BY <3>2, <3>4, <3>5 DEF ArePaths
    <3>7. \A m \in DOMAIN t : t[m].path # p
      BY <2>5, <3>3, <3>4
    <3>8. \A j \in 1..i : j \in 1..(i + 1)
      BY <2>1
    <3>9. \A m \in DOMAIN t : \E j \in 1..(i + 1) : t[m] = list[j]
      BY <2>1, <3>3, <3>4, <3>8 DEF e
    <3>. QED BY <3>1, <3>4, <3>6, <3>7, <3>9
  <2>. QED BY <2>4, <2>5
<1>5. S = Nat
  <2>1. S \in SUBSET Nat
    OBVIOUS
  <2>. HIDE DEF S
  <2>. QED BY <1>3, <1>4, <2>1, Induction
<1>6. n \in 0..n
  BY <1>2
<1>7. Good(g[n], n)
  <2>1. n \in S
    BY <1>2, <1>5
  <2>. QED BY <1>6, <2>1
<1>. QED BY <1>1, <1>7


-----------------------------------------------------------------------------
(* The invariant of ImageSet *)

ImageTypes ==
    /\ s1 \in DiskRec /\ s2 \in Seq(Attached) /\ s3 \in GateRec /\ s4 \in SentRec
    /\ s3.pc = "detecting" => s3.path \in ImageFiles
IsSet(list) == ArePaths(list) /\ Len(list) <= MaxImages
ImagesAreSets == IsSet(s2) /\ IsSet(s3.submitted)
\* What a handle was verified to be it is until somebody writes into the file.
IsVerified(disk, image, handle) ==
    /\ handle.size \in 1..MaxBytes
    /\ disk.content[handle.file].type = image.type \/ handle.file \in disk.touched
\* A handle is of the file its path named; the second file of a path comes after the first.
IsHandle(disk, image, handle) ==
    handle.file[1] = image.path /\ (disk.at[image.path] = 1 => handle.file[2] = 1)
IsOpened(disk, gate) ==
    /\ Len(gate.opened) <= Len(gate.submitted)
    /\ \A i \in DOMAIN gate.opened :
          /\ IsHandle(disk, gate.submitted[i], gate.opened[i])
          /\ \/ gate.pc = "verifying" /\ i = Len(gate.opened)
             \/ /\ gate.pc = "typing" /\ i = Len(gate.opened)
                /\ gate.opened[i].size \in 1..MaxBytes
             \/ IsVerified(disk, gate.submitted[i], gate.opened[i])
    /\ gate.pc = "opening" => Images!Total(gate.opened) <= MaxTotal
    /\ gate.pc \in {"verifying", "typing"} => gate.opened # <<>> /\ gate.read = <<>>
    /\ gate.pc \in {"idle", "detecting"} => gate.opened = <<>> /\ gate.read = <<>>
IsUrl(disk, url) == url.is = url.type \/ url.file \in disk.touched
IsRead(disk, gate) ==
    /\ Len(gate.read) <= Len(gate.opened)
    /\ gate.read # <<>> => Len(gate.opened) = Len(gate.submitted)
    /\ \A i \in DOMAIN gate.read :
          gate.read[i].size = gate.opened[i].size /\ IsUrl(disk, gate.read[i])
IsSent(disk, urls) ==
    /\ Len(urls) <= MaxImages /\ Images!Total(urls) <= MaxTotal
    /\ \A i \in DOMAIN urls : urls[i].size \in 1..MaxBytes /\ IsUrl(disk, urls[i])
ImagesInv ==
    /\ ImageTypes /\ ImagesAreSets /\ IsOpened(s1, s3) /\ IsRead(s1, s3) /\ IsSent(s1, s4.urls)
    /\ s3.pc \in {"opening", "verifying", "typing"} => s4.urls = <<>>

LEMMA NothingIsFine ==
    /\ \A T : <<>> \in Seq(T)
    /\ IsSet(<<>>) /\ \A disk : IsSent(disk, <<>>)
<1>1. DOMAIN <<>> = {} /\ Len(<<>>) = 0
  OBVIOUS
<1>. QED BY <1>1, TotalOfNothing, ImageSizes DEF IsSet, ArePaths, IsSent

\* The gate is idle.
LEMMA IdleGate ==
    /\ Images!Idle \in GateRec /\ Images!Idle.pc = "idle" /\ Images!Idle.submitted = <<>>
    /\ \A disk : IsOpened(disk, Images!Idle) /\ IsRead(disk, Images!Idle)
<1>1. DOMAIN <<>> = {} /\ Len(<<>>) = 0 /\ \A T : <<>> \in Seq(T)
  OBVIOUS
<1>2. /\ Images!Idle.pc = "idle" /\ Images!Idle.submitted = <<>> /\ Images!Idle.opened = <<>>
      /\ Images!Idle.read = <<>>
  BY DEF Images!Idle
<1>3. Images!Idle \in GateRec
  BY <1>1 DEF Images!Idle, GateRec
<1>. QED BY <1>1, <1>2, <1>3 DEF IsOpened, IsRead

LEMMA ImagesInitInv == Images!ImagesInit => ImagesInv
<1>. SUFFICES ASSUME Images!ImagesInit PROVE ImagesInv
  OBVIOUS
<1>1. PICK first \in [ImageFiles -> {Images!Image("png", 1), Images!Image("gif", MaxBytes)}] :
          s1 = [at |-> [p \in ImageFiles |-> 1], changes |-> 0, touched |-> {},
                content |-> [f \in ImageFiles \X {1, 2} |-> first[f[1]]]]
  BY DEF Images!ImagesInit
<1>2. s2 = <<>> /\ s3 = Images!Idle /\ s4 = [n |-> 0, urls |-> <<>>]
  BY DEF Images!ImagesInit
<1>3. s1 \in DiskRec
  <2>1. \A p \in ImageFiles : first[p] \in [type : Types, size : Nat]
    BY ImageSizes DEF Types, Images!Image
  <2>2. [f \in ImageFiles \X {1, 2} |-> first[f[1]]] \in [ImageFile -> [type : Types, size : Nat]]
    BY <2>1 DEF ImageFile
  <2>. QED BY <1>1, <2>2 DEF DiskRec
<1>4. s4 \in SentRec /\ s4.urls = <<>>
  BY <1>2, NothingIsFine DEF SentRec
<1>5. ImageTypes
  BY <1>2, <1>3, <1>4, NothingIsFine, IdleGate DEF ImageTypes
<1>. QED BY <1>2, <1>4, <1>5, NothingIsFine, IdleGate DEF ImagesInv, ImagesAreSets

-----------------------------------------------------------------------------
(* Files change *)

\* What a change of files from outside may do.
DiskMoves(disk, next) ==
    /\ disk \in DiskRec /\ next \in DiskRec
    /\ disk.touched \subseteq next.touched
    /\ \A p \in ImageFiles : next.at[p] = 1 => disk.at[p] = 1
    /\ \A f \in ImageFile : \/ next.content[f] = disk.content[f] \/ f \in next.touched
                            \/ f[2] = 2 /\ disk.at[f[1]] = 1

LEMMA FilesChange ==
    ASSUME ImagesInv, DiskMoves(s1, s1'), UNCHANGED <<s2, s3, s4>>
    PROVE  ImagesInv'
<1>. USE DEF ImagesInv
<1>1. ImageTypes' /\ ImagesAreSets'
  BY DEF ImageTypes, ImagesAreSets, DiskMoves
<1>2. s3 \in GateRec /\ s3.submitted \in Seq(Attached) /\ s3.opened \in Seq(Opened)
  BY DEF ImageTypes, GateRec
<1>3. ASSUME NEW i \in DOMAIN s3.opened
      PROVE  /\ i \in DOMAIN s3.submitted /\ s3.submitted[i].path \in ImageFiles
             /\ s3.opened[i].file \in ImageFile
  <2>1. i \in DOMAIN s3.submitted
    BY <1>2 DEF IsOpened
  <2>2. s3.submitted[i] \in Attached /\ s3.opened[i] \in Opened
    BY <1>2, <2>1
  <2>. QED BY <2>1, <2>2 DEF Attached, Opened
<1>4. IsOpened(s1', s3)
  <2>1. ASSUME NEW i \in DOMAIN s3.opened
        PROVE  IsHandle(s1', s3.submitted[i], s3.opened[i])
    BY <1>3 DEF IsOpened, IsHandle, DiskMoves
  <2>2. ASSUME NEW i \in DOMAIN s3.opened, IsVerified(s1, s3.submitted[i], s3.opened[i])
        PROVE  IsVerified(s1', s3.submitted[i], s3.opened[i])
    <3>. DEFINE f == s3.opened[i].file
    <3>1. f \in ImageFile /\ IsHandle(s1, s3.submitted[i], s3.opened[i])
      BY <1>3 DEF IsOpened
    <3>2. ~(f[2] = 2 /\ s1.at[f[1]] = 1)
      BY <3>1 DEF IsHandle
    <3>3. s1'.content[f] = s1.content[f] \/ f \in s1'.touched
      BY <3>1, <3>2 DEF DiskMoves
    <3>. QED BY <2>2, <3>3 DEF IsVerified, DiskMoves
  <2>. QED BY <2>1, <2>2 DEF IsOpened
<1>5. \A url : IsUrl(s1, url) => IsUrl(s1', url)
  BY DEF IsUrl, DiskMoves
<1>6. IsRead(s1', s3) /\ IsSent(s1', s4.urls)
  BY <1>5 DEF IsRead, IsSent
<1>. QED BY <1>1, <1>4, <1>6

LEMMA DiskIs ==
    ASSUME ImagesInv
    PROVE  /\ s1 = [at |-> s1.at, content |-> s1.content, changes |-> s1.changes,
                 touched |-> s1.touched]
           /\ s1.at \in [ImageFiles -> {0, 1, 2}] /\ s1.changes \in Nat
           /\ s1.touched \in SUBSET ImageFile
           /\ s1.content \in [ImageFile -> [type : Types, size : Nat]]
           /\ \A p \in ImageFiles : Images!Exists(p) => Images!File(p) \in ImageFile
<1>1. s1 \in DiskRec
  BY DEF ImagesInv, ImageTypes
<1>2. s1.at \in [ImageFiles -> {0, 1, 2}]
  BY <1>1 DEF DiskRec
<1>3. \A p \in ImageFiles : Images!Exists(p) => Images!File(p) \in ImageFile
  BY <1>2 DEF Images!Exists, Images!File, ImageFile
<1>. QED BY <1>1, <1>3 DEF DiskRec

LEMMA ContentsAre == Images!Contents \subseteq [type : Types, size : Nat]
BY ImageSizes DEF Images!Contents, Types

LEMMA ImageRewrite ==
    ASSUME ImagesInv, NEW p \in ImageFiles, NEW c \in Images!Contents, Images!Rewrite(p, c)
    PROVE  ImagesInv'
<1>. DEFINE f == Images!File(p)
            content == [s1.content EXCEPT ![f] = c]
            touched == s1.touched \cup {f}
<1>1. f \in ImageFile /\ c \in [type : Types, size : Nat]
  BY DiskIs, ContentsAre DEF Images!Rewrite
<1>. HIDE DEF f
<1>2. content \in [ImageFile -> [type : Types, size : Nat]] /\ touched \in SUBSET ImageFile
      /\ \A d \in ImageFile : d # f => content[d] = s1.content[d]
  BY <1>1, DiskIs
<1>3. s1' = [at |-> s1.at, content |-> content, changes |-> s1.changes + 1, touched |-> touched]
      /\ UNCHANGED <<s2, s3, s4>>
  BY DiskIs DEF Images!Rewrite, Images!Change, f
<1>. HIDE DEF content
<1>4. s1' \in DiskRec
  BY <1>2, <1>3, DiskIs DEF DiskRec
<1>5. DiskMoves(s1, s1')
  BY <1>1, <1>2, <1>3, <1>4 DEF DiskMoves, ImagesInv, ImageTypes
<1>. QED BY <1>3, <1>5, FilesChange

LEMMA ImageReplace ==
    ASSUME ImagesInv, NEW p \in ImageFiles, NEW c \in Images!Contents, Images!Replace(p, c)
    PROVE  ImagesInv'
<1>. DEFINE f == <<p, 2>>
            content == [s1.content EXCEPT ![f] = c]
            at == [s1.at EXCEPT ![p] = 2]
<1>1. f \in ImageFile /\ c \in [type : Types, size : Nat] /\ s1.at[p] = 1 /\ f[1] = p /\ f[2] = 2
  BY ContentsAre DEF Images!Replace, ImageFile
<1>2. s1' = [at |-> at, content |-> content, changes |-> s1.changes + 1, touched |-> s1.touched]
      /\ UNCHANGED <<s2, s3, s4>>
  BY DiskIs DEF Images!Replace, Images!Change
<1>. HIDE DEF f
<1>3. content \in [ImageFile -> [type : Types, size : Nat]]
      /\ \A d \in ImageFile : d # f => content[d] = s1.content[d]
  BY <1>1, DiskIs
<1>4. at \in [ImageFiles -> {0, 1, 2}] /\ \A q \in ImageFiles : at[q] = 1 => s1.at[q] = 1
  BY DiskIs
<1>. HIDE DEF content, at
<1>5. s1' \in DiskRec
  BY <1>2, <1>3, <1>4, DiskIs DEF DiskRec
<1>6. DiskMoves(s1, s1')
  BY <1>1, <1>2, <1>3, <1>4, <1>5 DEF DiskMoves, ImagesInv, ImageTypes
<1>. QED BY <1>2, <1>6, FilesChange

LEMMA ImageUnlink == ASSUME ImagesInv, NEW p \in ImageFiles, Images!Unlink(p) PROVE ImagesInv'
<1>. DEFINE at == [s1.at EXCEPT ![p] = 0]
<1>1. s1' = [at |-> at, content |-> s1.content, changes |-> s1.changes + 1, touched |-> s1.touched]
      /\ UNCHANGED <<s2, s3, s4>>
  BY DiskIs DEF Images!Unlink, Images!Change
<1>2. at \in [ImageFiles -> {0, 1, 2}] /\ \A q \in ImageFiles : at[q] = 1 => s1.at[q] = 1
  BY DiskIs
<1>. HIDE DEF at
<1>3. s1' \in DiskRec
  BY <1>1, <1>2, DiskIs DEF DiskRec
<1>4. DiskMoves(s1, s1')
  BY <1>1, <1>2, <1>3 DEF DiskMoves, ImagesInv, ImageTypes
<1>. QED BY <1>1, <1>4, FilesChange


-----------------------------------------------------------------------------
(* The line and the message *)

LEMMA GateIs ==
    ASSUME ImagesInv
    PROVE  /\ s3 = [pc |-> s3.pc, path |-> s3.path, size |-> s3.size, submitted |-> s3.submitted,
                    opened |-> s3.opened, read |-> s3.read]
           /\ s3.submitted \in Seq(Attached) /\ s3.opened \in Seq(Opened) /\ s3.read \in Seq(Url)
           /\ s3.path \in ImageFiles \cup {"none"} /\ s3.size \in Nat
           /\ s2 \in Seq(Attached) /\ s4 \in SentRec /\ s4.urls \in Seq(Url)
BY DEF ImagesInv, ImageTypes, GateRec, SentRec

\* The message is given up: its images go back to the line.
LEMMA ImagesFail ==
    ASSUME ImagesInv, Images!Fail, s1' = s1, s3.pc \in {"opening", "verifying", "typing"}
    PROVE  ImagesInv'
<1>1. s3' = Images!Idle /\ s2' = s3.submitted /\ s4' = s4
  BY DEF Images!Fail
<1>2. ImageTypes'
  BY <1>1, GateIs, IdleGate DEF ImagesInv, ImageTypes
<1>. QED BY <1>1, <1>2, IdleGate, NothingIsFine DEF ImagesInv, ImagesAreSets

LEMMA ImageInspect ==
    ASSUME ImagesInv, NEW p \in ImageFiles, Images!InspectImage(p)
    PROVE ImagesInv'
<1>. DEFINE size == s1.content[Images!File(p)].size
<1>1. /\ s3.pc = "idle" /\ s3' = [Images!Idle EXCEPT !.pc = "detecting", !.path = p, !.size = size]
      /\ UNCHANGED <<s1, s2, s4>> /\ size \in 1..MaxBytes
  BY DEF Images!InspectImage, Images!Now
<1>2. size \in Nat
  BY <1>1, ImageSizes
<1>. HIDE DEF size
<1>3. /\ s3'.pc = "detecting" /\ s3'.path = p /\ s3'.submitted = <<>> /\ s3'.opened = <<>>
      /\ s3'.read = <<>>
  BY <1>1 DEF Images!Idle
<1>4. s3' \in GateRec
  BY <1>1, <1>2, NothingIsFine DEF GateRec, Images!Idle
<1>5. ImageTypes'
  BY <1>1, <1>3, <1>4 DEF ImagesInv, ImageTypes
<1>6. DOMAIN <<>> = {} /\ Len(<<>>) = 0
  OBVIOUS
<1>7. IsOpened(s1', s3') /\ IsRead(s1', s3')
  BY <1>3, <1>6 DEF IsOpened, IsRead
<1>. QED BY <1>1, <1>3, <1>5, <1>7, NothingIsFine DEF ImagesInv, ImagesAreSets

LEMMA ImageDetect == ASSUME ImagesInv, Images!DetectImage PROVE ImagesInv'
<1>. DEFINE p == s3.path
            list == Images!Without(s2, p)
            e == [path |-> p, type |-> Images!Now(p).type, size |-> s3.size]
            next == Append(list, e)
<1>1. /\ s3.pc = "detecting" /\ s3' = Images!Idle /\ UNCHANGED <<s1, s4>>
      /\ s2' = IF Images!Exists(p) /\ Images!Now(p).type # "none" /\ Images!ValidSet(next)
               THEN next ELSE s2
  BY DEF Images!DetectImage
<1>2. p \in ImageFiles /\ s3.size \in Nat /\ ArePaths(s2) /\ s2 \in Seq(Attached)
  BY <1>1, GateIs DEF ImagesInv, ImageTypes, ImagesAreSets, IsSet
<1>3. list \in Seq(Attached) /\ ArePaths(list) /\ \A i \in DOMAIN list : list[i].path # p
  BY <1>2, WithoutPath
<1>4. s2' \in Seq(Attached) /\ IsSet(s2')
  <2>1. CASE s2' = s2
    BY <1>2, <2>1 DEF ImagesInv, ImagesAreSets
  <2>2. CASE Images!Exists(p) /\ Images!ValidSet(next) /\ s2' = next
    <3>1. Images!Now(p) \in [type : Types, size : Nat]
      BY <1>2, <2>2, DiskIs DEF Images!Now
    <3>2. e \in Attached /\ e.path = p
      BY <1>2, <3>1 DEF Attached
    <3>3. Len(next) <= MaxImages
      BY <2>2 DEF Images!ValidSet
    <3>. HIDE DEF list, e
    <3>4. /\ next \in Seq(Attached) /\ DOMAIN next = DOMAIN list \cup {Len(list) + 1}
          /\ next[Len(list) + 1] = e /\ \A i \in DOMAIN list : next[i] = list[i]
      BY <1>3, <3>2, OneMore
    <3>. HIDE DEF next
    <3>5. ArePaths(next)
      BY <1>3, <3>2, <3>4 DEF ArePaths
    <3>. QED BY <2>2, <3>3, <3>4, <3>5 DEF IsSet
  <2>. QED BY <1>1, <2>1, <2>2
<1>5. ImageTypes'
  BY <1>1, <1>4, IdleGate DEF ImagesInv, ImageTypes
<1>. QED BY <1>1, <1>4, <1>5, IdleGate, NothingIsFine DEF ImagesInv, ImagesAreSets

LEMMA ImageClear == ASSUME ImagesInv, Images!ClearImages PROVE ImagesInv'
<1>1. s2' = <<>> /\ UNCHANGED <<s1, s3, s4>>
  BY DEF Images!ClearImages
<1>2. ImageTypes'
  BY <1>1, NothingIsFine DEF ImagesInv, ImageTypes
<1>. QED BY <1>1, <1>2, NothingIsFine DEF ImagesInv, ImagesAreSets

LEMMA ImageSubmit == ASSUME ImagesInv, Images!Submit PROVE ImagesInv'
<1>1. /\ s3' = [Images!Idle EXCEPT !.pc = "opening", !.submitted = s2]
      /\ s2' = <<>> /\ s4' = [n |-> s4.n + 1, urls |-> <<>>] /\ s1' = s1
  BY DEF Images!Submit
<1>2. /\ s3'.pc = "opening" /\ s3'.submitted = s2 /\ s3'.opened = <<>> /\ s3'.read = <<>>
      /\ s4'.urls = <<>>
  BY <1>1 DEF Images!Idle
<1>3. s3' \in GateRec
  BY <1>1, GateIs, NothingIsFine DEF GateRec, Images!Idle
<1>4. s4' \in SentRec
  BY <1>1, GateIs, NothingIsFine DEF SentRec
<1>5. ImageTypes'
  BY <1>1, <1>2, <1>3, <1>4, NothingIsFine DEF ImagesInv, ImageTypes
<1>6. DOMAIN <<>> = {} /\ Len(<<>>) = 0 /\ Len(s2) \in Nat
  BY GateIs
<1>7. IsOpened(s1', s3') /\ IsRead(s1', s3')
  BY <1>2, <1>6, TotalOfNothing, ImageSizes DEF IsOpened, IsRead
<1>. QED BY <1>1, <1>2, <1>5, <1>7, NothingIsFine DEF ImagesInv, ImagesAreSets

LEMMA NothingHasNoPlaces == DOMAIN <<>> = {}
OBVIOUS

LEMMA ImageOpen == ASSUME ImagesInv, Images!Open PROVE ImagesInv'
<1>. USE DEF ImagesInv
<1>. DEFINE n == Len(s3.opened) + 1
            image == s3.submitted[n]
            f == Images!File(image.path)
            handle == [file |-> f, size |-> 0]
<1>1. s3.pc = "opening" /\ Len(s3.opened) < Len(s3.submitted)
  BY DEF Images!Open
<1>2. CASE Images!Fail /\ s1' = s1
  BY <1>1, <1>2, ImagesFail
<1>3. CASE /\ Images!Exists(image.path)
           /\ s3' = [s3 EXCEPT !.pc = "verifying", !.opened = Append(@, handle)]
           /\ s1' = [s1 EXCEPT !.touched = @ \ {f}] /\ UNCHANGED <<s2, s4>>
  <2>1. s3.submitted \in Seq(Attached) /\ s3.opened \in Seq(Opened) /\ n \in DOMAIN s3.submitted
        /\ image \in Attached /\ image.path \in ImageFiles
    <3>1. s3.submitted \in Seq(Attached) /\ s3.opened \in Seq(Opened)
      BY GateIs
    <3>2. n \in DOMAIN s3.submitted
      BY <1>1, <3>1
    <3>. HIDE DEF n
    <3>3. image \in Attached
      BY <3>1, <3>2
    <3>. QED BY <3>1, <3>2, <3>3 DEF Attached
  <2>. HIDE DEF image
  <2>2. f \in ImageFile /\ f[1] = image.path /\ (s1.at[image.path] = 1 => f[2] = 1)
    BY <1>3, <2>1, DiskIs DEF Images!File
  <2>3. handle \in Opened /\ handle.file = f
    BY <2>2 DEF Opened
  <2>. HIDE DEF f
  <2>4. s1' = [at |-> s1.at, content |-> s1.content, changes |-> s1.changes,
              touched |-> s1.touched \ {f}]
    BY <1>3, DiskIs
  <2>5. s1' \in DiskRec
    BY <2>4, DiskIs DEF DiskRec
  <2>. DEFINE opened == Append(s3.opened, handle)
  <2>6. /\ s3' = [pc |-> "verifying", path |-> s3.path, size |-> s3.size, submitted |-> s3.submitted,
                  opened |-> opened, read |-> s3.read]
    BY <1>3, GateIs
  <2>. HIDE DEF handle
  <2>7. /\ opened \in Seq(Opened) /\ DOMAIN opened = DOMAIN s3.opened \cup {n} /\ opened[n] = handle
        /\ n \notin DOMAIN s3.opened /\ \A i \in DOMAIN s3.opened : opened[i] = s3.opened[i]
    BY <2>1, <2>3, OneMore
  <2>8. Len(opened) = n /\ n <= Len(s3.submitted) /\ opened # <<>>
    <3>1. Len(s3.opened) \in Nat /\ Len(s3.submitted) \in Nat
      BY <2>1
    <3>2. Len(opened) = n /\ n <= Len(s3.submitted)
      BY <1>1, <2>1, <2>3, <3>1
    <3>. HIDE DEF opened, n
    <3>3. opened # <<>>
      BY <2>7, NothingHasNoPlaces
    <3>. QED BY <3>2, <3>3
  <2>. HIDE DEF opened, n
  <2>9. s3' \in GateRec
    BY <2>6, <2>7, GateIs DEF GateRec
  <2>10. ImageTypes'
    BY <1>3, <2>5, <2>6, <2>9, GateIs DEF ImageTypes
  <2>11. s3.read = <<>>
    <3>1. Len(s3.opened) # Len(s3.submitted)
      BY <1>1, <2>1
    <3>. QED BY <3>1 DEF IsRead
  <2>12. ASSUME NEW i \in DOMAIN s3.opened
         PROVE  /\ IsHandle(s1', s3.submitted[i], opened[i])
                /\ IsVerified(s1', s3.submitted[i], opened[i])
    <3>1. /\ IsHandle(s1, s3.submitted[i], s3.opened[i])
          /\ IsVerified(s1, s3.submitted[i], s3.opened[i])
      BY <1>1 DEF IsOpened
    <3>2. i \in DOMAIN s3.submitted /\ i # n
      BY <2>1, <2>7 DEF IsOpened
    <3>3. s3.opened[i].file # f
      BY <2>1, <2>2, <3>1, <3>2 DEF ImagesAreSets, IsSet, ArePaths, IsHandle, image
    <3>. QED BY <2>4, <2>7, <3>1, <3>3 DEF IsHandle, IsVerified
  <2>13. IsHandle(s1', s3.submitted[n], opened[n])
    BY <2>2, <2>3, <2>4, <2>7 DEF IsHandle, image
  <2>14. IsOpened(s1', s3')
    BY <2>6, <2>7, <2>8, <2>11, <2>12, <2>13 DEF IsOpened
  <2>15. IsRead(s1', s3')
    <3>1. DOMAIN <<>> = {} /\ Len(<<>>) = 0 /\ Len(opened) \in Nat
      BY <2>7
    <3>. QED BY <2>6, <2>11, <3>1 DEF IsRead
  <2>16. s4.urls = <<>>
    BY <1>1
  <2>. QED BY <1>3, <2>6, <2>10, <2>14, <2>15, <2>16, NothingIsFine DEF ImagesAreSets
<1>. QED BY <1>2, <1>3 DEF Images!Open, Images!NextImage

LEMMA ImageVerify == ASSUME ImagesInv, Images!Verify PROVE ImagesInv'
<1>. USE DEF ImagesInv
<1>. DEFINE n == Len(s3.opened)
            size == s1.content[s3.opened[n].file].size
            opened == [s3.opened EXCEPT ![n].size = size]
<1>1. s3.pc = "verifying" /\ s1' = s1
  BY DEF Images!Verify
<1>2. CASE Images!Fail
  BY <1>1, <1>2, ImagesFail
<1>3. CASE /\ size \in 1..MaxBytes
           /\ s3' = [s3 EXCEPT !.pc = "typing", !.opened = opened] /\ UNCHANGED <<s2, s4>>
  <2>1. /\ s3.submitted \in Seq(Attached) /\ s3.opened \in Seq(Opened)
        /\ s3.opened # <<>> /\ s3.read = <<>>
    BY <1>1, GateIs DEF IsOpened
  <2>2. n \in DOMAIN s3.opened /\ s3.opened[n] \in Opened
    <3>1. n \in DOMAIN s3.opened
      BY <2>1
    <3>. HIDE DEF n
    <3>. QED BY <2>1, <3>1
  <2>3. size \in 1..MaxBytes /\ size \in Nat
    BY <1>3, ImageSizes
  <2>. HIDE DEF size
  <2>. DEFINE handle == [s3.opened[n] EXCEPT !.size = size]
  <2>4. handle \in Opened /\ handle.file = s3.opened[n].file /\ handle.size = size
    BY <2>2, <2>3 DEF Opened
  <2>5. opened = [s3.opened EXCEPT ![n] = handle]
    OBVIOUS
  <2>. HIDE DEF handle, n
  <2>6. /\ opened \in Seq(Opened) /\ DOMAIN opened = DOMAIN s3.opened /\ opened[n] = handle
        /\ Len(opened) = Len(s3.opened) /\ \A i \in DOMAIN s3.opened : i # n => opened[i] = s3.opened[i]
    BY <2>1, <2>2, <2>4, <2>5
  <2>7. s3' = [pc |-> "typing", path |-> s3.path, size |-> s3.size, submitted |-> s3.submitted,
               opened |-> opened, read |-> s3.read]
    BY <1>3, GateIs
  <2>. HIDE DEF opened
  <2>8. ImageTypes'
    <3>1. s3' \in GateRec
      BY <2>6, <2>7, GateIs DEF GateRec
    <3>. QED BY <1>1, <1>3, <2>7, <3>1, GateIs DEF ImageTypes
  <2>9. ASSUME NEW i \in DOMAIN s3.opened
        PROVE  /\ IsHandle(s1, s3.submitted[i], opened[i])
               /\ \/ i = n /\ opened[i].size \in 1..MaxBytes
                  \/ IsVerified(s1, s3.submitted[i], opened[i])
    <3>1. IsHandle(s1, s3.submitted[i], s3.opened[i])
      BY DEF IsOpened
    <3>2. CASE i = n
      BY <2>3, <2>4, <2>6, <3>1, <3>2 DEF IsHandle
    <3>3. CASE i # n
      <4>1. IsVerified(s1, s3.submitted[i], s3.opened[i])
        BY <1>1, <3>3 DEF IsOpened, n
      <4>. QED BY <2>6, <3>1, <3>3, <4>1
    <3>. QED BY <3>2, <3>3
  <2>10. n = Len(opened) /\ opened # <<>>
    <3>1. n = Len(opened)
      BY <2>6 DEF n
    <3>. QED BY <2>2, <2>6, <3>1, NothingHasNoPlaces
  <2>11. IsOpened(s1', s3')
    BY <1>1, <2>1, <2>6, <2>7, <2>9, <2>10 DEF IsOpened
  <2>12. IsRead(s1', s3')
    <3>1. DOMAIN <<>> = {} /\ Len(<<>>) = 0 /\ Len(opened) \in Nat
      BY <2>6
    <3>. QED BY <2>1, <2>7, <3>1 DEF IsRead
  <2>. QED BY <1>1, <1>3, <2>7, <2>8, <2>11, <2>12 DEF ImagesAreSets
<1>. QED BY <1>2, <1>3 DEF Images!Verify, Images!Last

LEMMA ImageReadType == ASSUME ImagesInv, Images!ReadType PROVE ImagesInv'
<1>. USE DEF ImagesInv
<1>. DEFINE n == Len(s3.opened)
<1>1. s3.pc = "typing" /\ s1' = s1
  BY DEF Images!ReadType
<1>2. CASE Images!Fail
  BY <1>1, <1>2, ImagesFail
<1>3. CASE /\ s1.content[s3.opened[n].file].type = s3.submitted[n].type
           /\ Images!Total(s3.opened) <= MaxTotal
           /\ s3' = [s3 EXCEPT !.pc = "opening"] /\ UNCHANGED <<s2, s4>>
  <2>1. s3' = [pc |-> "opening", path |-> s3.path, size |-> s3.size, submitted |-> s3.submitted,
               opened |-> s3.opened, read |-> s3.read]
    BY <1>3, GateIs
  <2>2. ImageTypes'
    <3>1. s3' \in GateRec
      BY <2>1, GateIs DEF GateRec
    <3>. QED BY <1>1, <1>3, <2>1, <3>1, GateIs DEF ImageTypes
  <2>3. \A i \in DOMAIN s3.opened : IsVerified(s1, s3.submitted[i], s3.opened[i])
    BY <1>1, <1>3 DEF IsOpened, IsVerified
  <2>4. IsOpened(s1', s3')
    BY <1>1, <1>3, <2>1, <2>3 DEF IsOpened
  <2>5. IsRead(s1', s3')
    BY <1>1, <2>1 DEF IsRead
  <2>. QED BY <1>1, <1>3, <2>1, <2>2, <2>4, <2>5 DEF ImagesAreSets
<1>. QED BY <1>2, <1>3 DEF Images!ReadType, Images!Last

LEMMA ImageRead == ASSUME ImagesInv, Images!Read PROVE ImagesInv'
<1>. USE DEF ImagesInv
<1>. DEFINE n == Len(s3.read) + 1
            c == s1.content[s3.opened[n].file]
            url == [type |-> s3.submitted[n].type, size |-> c.size, is |-> c.type,
                    file |-> s3.opened[n].file]
<1>1. /\ s3.pc = "opening" /\ Len(s3.opened) = Len(s3.submitted) /\ Len(s3.read) < Len(s3.opened)
      /\ s1' = s1
  BY DEF Images!Read
<1>2. CASE Images!Fail
  BY <1>1, <1>2, ImagesFail
<1>3. CASE /\ Images!SameLength(s3.opened[n], c)
           /\ s3' = [s3 EXCEPT !.read = Append(@, url)] /\ UNCHANGED <<s2, s4>>
  <2>1. s3.submitted \in Seq(Attached) /\ s3.opened \in Seq(Opened) /\ s3.read \in Seq(Url)
    BY GateIs
  <2>2. n \in DOMAIN s3.opened /\ n \in DOMAIN s3.submitted
    BY <1>1, <2>1
  <2>. HIDE DEF n
  <2>3. s3.opened[n] \in Opened /\ s3.submitted[n] \in Attached
    BY <2>1, <2>2
  <2>4. s3.opened[n].file \in ImageFile /\ s3.submitted[n].type \in Types
    BY <2>3 DEF Opened, Attached
  <2>5. c \in [type : Types, size : Nat]
    BY <2>4, DiskIs
  <2>6. url \in Url /\ url.size = c.size /\ url.is = c.type /\ url.type = s3.submitted[n].type
        /\ url.file = s3.opened[n].file
    BY <2>4, <2>5 DEF Url
  <2>7. IsVerified(s1, s3.submitted[n], s3.opened[n]) /\ c.size = s3.opened[n].size
    BY <1>1, <1>3, <2>2 DEF IsOpened, Images!SameLength
  <2>8. IsUrl(s1, url)
    BY <2>6, <2>7 DEF IsVerified, IsUrl
  <2>. DEFINE read == Append(s3.read, url)
  <2>9. s3' = [pc |-> s3.pc, path |-> s3.path, size |-> s3.size, submitted |-> s3.submitted,
               opened |-> s3.opened, read |-> read]
    BY <1>3, GateIs
  <2>. HIDE DEF url
  <2>10. /\ read \in Seq(Url) /\ DOMAIN read = DOMAIN s3.read \cup {n} /\ read[n] = url
         /\ \A i \in DOMAIN s3.read : read[i] = s3.read[i]
    BY <2>1, <2>6, OneMore DEF n
  <2>11. Len(read) <= Len(s3.opened)
    BY <1>1, <2>1, <2>6
  <2>. HIDE DEF read
  <2>12. ImageTypes'
    <3>1. s3' \in GateRec
      BY <2>9, <2>10 DEF GateRec, ImageTypes
    <3>. QED BY <1>1, <1>3, <2>9, <3>1 DEF ImageTypes
  <2>13. IsOpened(s1', s3')
    BY <1>1, <2>9 DEF IsOpened
  <2>14. IsRead(s1', s3')
    BY <1>1, <2>6, <2>7, <2>8, <2>9, <2>10, <2>11 DEF IsRead
  <2>. QED BY <1>1, <1>3, <2>9, <2>12, <2>13, <2>14 DEF ImagesAreSets
<1>. QED BY <1>2, <1>3 DEF Images!Read

LEMMA ImageSend == ASSUME ImagesInv, Images!Send PROVE ImagesInv'
<1>. USE DEF ImagesInv
<1>1. /\ s3.pc = "opening" /\ s3.read # <<>> /\ Len(s3.read) = Len(s3.submitted)
      /\ s3' = Images!Idle /\ s4' = [s4 EXCEPT !.urls = s3.read] /\ UNCHANGED <<s1, s2>>
  BY DEF Images!Send
<1>2. s3.submitted \in Seq(Attached) /\ s3.opened \in Seq(Opened) /\ s3.read \in Seq(Url)
  BY GateIs
<1>3. s4' \in SentRec /\ s4'.urls = s3.read
  BY <1>1, <1>2, GateIs DEF SentRec
<1>4. ImageTypes'
  BY <1>1, <1>3, IdleGate, GateIs DEF ImageTypes
<1>5. Len(s3.read) = Len(s3.opened)
  BY <1>1 DEF IsRead
<1>6. DOMAIN s3.read = DOMAIN s3.opened
  BY <1>2, <1>5
<1>7. \A i \in DOMAIN s3.read : s3.read[i].size = s3.opened[i].size /\ IsUrl(s1, s3.read[i])
  BY DEF IsRead
<1>8. HasSizes(s3.read) /\ HasSizes(s3.opened)
  <2>1. \A i \in DOMAIN s3.read : s3.read[i] \in Url
    BY <1>2
  <2>2. \A i \in DOMAIN s3.opened : s3.opened[i] \in Opened
    BY <1>2
  <2>3. \A u \in Url : u.size \in Nat
    BY DEF Url
  <2>4. \A u \in Opened : u.size \in Nat
    BY DEF Opened
  <2>. QED BY <2>1, <2>2, <2>3, <2>4 DEF HasSizes
<1>9. Images!Total(s3.read) = Images!Total(s3.opened)
  BY <1>2, <1>5, <1>7, <1>8, TotalsAgree
<1>10. \A i \in DOMAIN s3.opened : s3.opened[i].size \in 1..MaxBytes
  BY <1>1 DEF IsOpened, IsVerified
<1>11. IsSent(s1, s3.read)
  BY <1>1, <1>6, <1>7, <1>9, <1>10 DEF IsSent, IsOpened, ImagesAreSets, IsSet
<1>. QED BY <1>1, <1>3, <1>4, <1>11, IdleGate, NothingIsFine DEF ImagesAreSets

LEMMA ImagesStep == ASSUME ImagesInv, Images!ImagesNext PROVE ImagesInv'
BY ImageInspect, ImageUnlink, ImageRewrite, ImageReplace, ImageDetect, ImageClear, ImageSubmit,
   ImageOpen, ImageVerify, ImageReadType, ImageRead, ImageSend DEF Images!ImagesNext

LEMMA ImagesStutter == ASSUME ImagesInv, UNCHANGED <<s1, s2, s3, s4>> PROVE ImagesInv'
BY DEF ImagesInv, ImageTypes, ImagesAreSets

\* Whatever happens to the files while a message is put together, it has no more and no larger
\* images than allowed, each of the type it was attached as unless somebody wrote into its file
\* after it was opened; for any files, limits and number of changes and messages.
\* (imageAttachmentDataUrls, verifyOpenAttachment, validateImageAttachmentSet)
THEOREM OnlyAllowedImages == PartsSpec => []ImagesSentAreAllowed
<1>. DEFINE Inv == part = "images" => ImagesInv
<1>1. PartsInit => Inv
  BY ImagesInitInv DEF PartsInit
<1>2. Inv /\ [PartsNext]_partsVars => Inv'
  <2>. SUFFICES ASSUME Inv, [PartsNext]_partsVars, part' = "images" PROVE ImagesInv'
    OBVIOUS
  <2>1. part = "images" /\ ImagesInv
    BY PartStays
  <2>2. CASE Images!ImagesNext
    BY <2>1, <2>2, ImagesStep
  <2>3. CASE UNCHANGED partsVars
    BY <2>1, <2>3, ImagesStutter DEF partsVars
  <2>4. Images!ImagesNext \/ UNCHANGED partsVars
    BY <2>1 DEF PartsNext
  <2>. QED BY <2>2, <2>3, <2>4
<1>3. Inv => ImagesSentAreAllowed
  <2>. SUFFICES ASSUME ImagesInv PROVE Images!ImagesSentAreAllowed
    BY DEF ImagesSentAreAllowed
  <2>1. IsSent(s1, s4.urls)
    BY DEF ImagesInv
  <2>. QED BY <2>1 DEF IsSent, IsUrl, Images!ImagesSentAreAllowed, Images!Range
<1>. QED BY <1>1, <1>2, <1>3, PTL DEF PartsSpec

-----------------------------------------------------------------------------
(* FileAnswers: s1 is request, s2 reply.  An answer that was cut says so. *)

Least(a, b) == IF a <= b THEN a ELSE b

LEMMA LeastOfTwo ==
    ASSUME NEW a \in Nat, NEW b \in Nat
    PROVE  Answers!Min({a, b}) = Least(a, b) /\ Least(a, b) \in Nat
<1>1. Least(a, b) \in {a, b} /\ \A y \in {a, b} : Least(a, b) <= y
  BY DEF Least
<1>2. \A x \in {a, b} : (\A y \in {a, b} : x <= y) => x = Least(a, b)
  BY DEF Least
<1>. QED BY <1>1, <1>2 DEF Answers!Min

LEMMA GreatestOfTwo ==
    ASSUME NEW a \in Nat, NEW b \in Nat
    PROVE  Answers!Max({a, b}) = IF a <= b THEN b ELSE a
<1>. DEFINE most == IF a <= b THEN b ELSE a
<1>1. most \in {a, b} /\ \A y \in {a, b} : most >= y
  OBVIOUS
<1>2. \A x \in {a, b} : (\A y \in {a, b} : x >= y) => x = most
  OBVIOUS
<1>. QED BY <1>1, <1>2 DEF Answers!Max

\* The first n of a sequence are all of it, or n of it.
LEMMA FirstIs ==
    ASSUME NEW T, NEW s \in Seq(T), NEW n \in Nat
    PROVE  LET t == Answers!First(s, n) IN
           /\ t \in Seq(T) /\ Len(t) = Least(Len(s), n)
           /\ \A i \in 1..Len(t) : t[i] = s[i]
           /\ Answers!Range(t) \subseteq Answers!Range(s)
           /\ Len(s) <= n => t = s
<1>. DEFINE m == Least(Len(s), n)
            t == SubSeq(s, 1, m)
<1>1. m \in Nat /\ m <= Len(s) /\ (Len(s) <= n => m = Len(s)) /\ Len(s) \in Nat
  BY DEF Least
<1>2. Answers!First(s, n) = t
  BY <1>1, LeastOfTwo DEF Answers!First
<1>. HIDE DEF m
<1>3. t \in Seq(T) /\ Len(t) = m /\ \A i \in 1..m : t[i] = s[i]
  BY <1>1
<1>4. Answers!Range(t) \subseteq Answers!Range(s)
  <2>1. DOMAIN t = 1..m /\ DOMAIN s = 1..Len(s)
    BY <1>1, <1>3
  <2>2. 1..m \subseteq 1..Len(s)
    BY <1>1
  <2>. HIDE DEF t
  <2>. QED BY <1>3, <2>1, <2>2 DEF Answers!Range
<1>5. Len(s) <= n => t = s
  BY <1>1
<1>. QED BY <1>2, <1>3, <1>4, <1>5 DEF m

LEMMA CutIs ==
    ASSUME NEW s PROVE Answers!Cut(s) = Answers!First(s, AnswerOutput)
BY DEF Answers!Cut, Answers!First

LEMMA NumbersAre ==
    ASSUME NEW n \in Nat
    PROVE  /\ Answers!Numbers(n) \in Seq(Nat) /\ Len(Answers!Numbers(n)) = n
           /\ \A i \in 1..n : Answers!Numbers(n)[i] = i
           /\ Answers!Range(Answers!Numbers(n)) = 1..n
<1>1. Answers!Numbers(n) = [i \in 1..n |-> i] /\ DOMAIN Answers!Numbers(n) = 1..n
  BY DEF Answers!Numbers
<1>. QED BY <1>1 DEF Answers!Range

\* The elements kept of the first i.
Filters(g, s, keep) ==
    /\ g[0] = <<>>
    /\ \A i \in 1..Len(s) : g[i] = IF s[i] \in keep THEN Append(g[i - 1], s[i]) ELSE g[i - 1]

LEMMA FiltersOne ==
    ASSUME NEW s, Len(s) \in Nat, NEW keep, NEW f, NEW g,
           Filters(f, s, keep), Filters(g, s, keep)
    PROVE  \A i \in 0..Len(s) : f[i] = g[i]
<1>. DEFINE S == {i \in Nat : i <= Len(s) => f[i] = g[i]}
<1>1. 0 \in S
  BY DEF Filters
<1>2. ASSUME NEW i \in S PROVE i + 1 \in S
  <2>. SUFFICES ASSUME i + 1 <= Len(s) PROVE f[i + 1] = g[i + 1]
    OBVIOUS
  <2>1. i + 1 \in 1..Len(s) /\ (i + 1) - 1 = i /\ f[i] = g[i]
    OBVIOUS
  <2>. QED BY <2>1 DEF Filters
<1>3. S = Nat
  <2>1. S \in SUBSET Nat
    OBVIOUS
  <2>. HIDE DEF S
  <2>. QED BY <1>1, <1>2, <2>1, Induction
<1>. QED BY <1>3

LEMMA ThoseIs ==
    ASSUME NEW T, NEW s \in Seq(T), NEW keep
    PROVE  \E g \in [0..Len(s) -> Seq(T)] :
              Filters(g, s, keep) /\ Answers!Those(s, keep) = g[Len(s)]
<1>. DEFINE n == Len(s)
            h == [x \in (1..n) \X Seq(T) |->
                     IF s[x[1]] \in keep THEN Append(x[2], s[x[1]]) ELSE x[2]]
            Kept(g) == [i \in 0..n |-> IF i = 0 THEN <<>>
                                       ELSE IF s[i] \in keep THEN Append(g[i - 1], s[i])
                                       ELSE g[i - 1]]
<1>1. h \in [(1..n) \X Seq(T) -> Seq(T)] /\ n \in Nat
  OBVIOUS
<1>2. PICK g \in [0..n -> Seq(T)] : g[0] = <<>> /\ \A i \in 1..n : g[i] = h[<<i, g[i - 1]>>]
  <2>1. <<>> \in Seq(T)
    OBVIOUS
  <2>2. IsRecursion(n, Seq(T), <<>>, h)
    BY <1>1, <2>1 DEF IsRecursion
  <2>. HIDE DEF h, n
  <2>3. PICK g \in [0..n -> Seq(T)] : Solves(g, n, <<>>, h)
    BY <2>2, RecursionExists
  <2>. QED BY <2>3 DEF Solves
<1>3. \A i \in 1..n : h[<<i, g[i - 1]>>] =
          IF s[i] \in keep THEN Append(g[i - 1], s[i]) ELSE g[i - 1]
  <2>1. \A i \in 1..n : <<i, g[i - 1]>> \in (1..n) \X Seq(T)
    <3>1. \A i \in 1..n : i - 1 \in 0..n
      BY <1>1
    <3>. HIDE DEF n
    <3>. QED BY <1>2, <3>1
  <2>. QED BY <2>1
<1>4. Filters(g, s, keep)
  BY <1>2, <1>3 DEF Filters
<1>5. g = Kept(g)
  <2>1. g = [i \in 0..n |-> g[i]]
    OBVIOUS
  <2>2. \A i \in 0..n : g[i] = Kept(g)[i]
    <3>1. \A i \in 0..n : i = 0 \/ i \in 1..n
      BY <1>1
    <3>. HIDE DEF n
    <3>. QED BY <1>2, <1>3, <3>1
  <2>. HIDE DEF n
  <2>. QED BY <2>1, <2>2
<1>. DEFINE k == CHOOSE f : f = Kept(f)
<1>6. k = Kept(k)
  BY <1>5
<1>7. Answers!Those(s, keep) = k[n]
  BY DEF Answers!Those
<1>8. Filters(k, s, keep)
  <2>1. \A i \in 0..n : k[i] = Kept(k)[i]
    <3>. HIDE DEF k, n
    <3>. QED BY <1>6
  <2>2. 0 \in 0..n /\ \A i \in 1..n : i \in 0..n /\ i # 0
    BY <1>1
  <2>. HIDE DEF k
  <2>. QED BY <2>1, <2>2 DEF Filters
<1>9. k[n] = g[n]
  <2>. HIDE DEF k
  <2>. QED BY <1>1, <1>4, <1>8, FiltersOne
<1>. QED BY <1>4, <1>7, <1>9

\* A sequence is longer by one element, and so is its range.
LEMMA RangeAppend ==
    ASSUME NEW T, NEW s \in Seq(T), NEW e \in T
    PROVE  Answers!Range(Append(s, e)) = Answers!Range(s) \cup {e}
<1>. DEFINE t == Append(s, e)
<1>1. /\ Len(s) \in Nat /\ DOMAIN s = 1..Len(s) /\ DOMAIN t = 1..(Len(s) + 1)
      /\ t[Len(s) + 1] = e /\ \A i \in 1..Len(s) : t[i] = s[i]
  OBVIOUS
<1>2. 1..(Len(s) + 1) = (1..Len(s)) \cup {Len(s) + 1}
  BY <1>1
<1>. HIDE DEF t
<1>. QED BY <1>1, <1>2 DEF Answers!Range

\* What is filtered are the elements to keep, in no greater number.
LEMMA ThoseAre ==
    ASSUME NEW T, NEW s \in Seq(T), NEW keep
    PROVE  LET t == Answers!Those(s, keep) IN
           /\ t \in Seq(T) /\ Len(t) <= Len(s)
           /\ Answers!Range(t) = Answers!Range(s) \cap keep
<1>1. PICK g \in [0..Len(s) -> Seq(T)] :
         Filters(g, s, keep) /\ Answers!Those(s, keep) = g[Len(s)]
  BY ThoseIs
<1>. DEFINE Upto(i) == {s[j] : j \in 1..i}
            S == {i \in Nat : i <= Len(s) =>
                     Len(g[i]) <= i /\ Answers!Range(g[i]) = Upto(i) \cap keep}
<1>2. 0 \in S
  <2>1. Upto(0) = {} /\ Answers!Range(<<>>) = {} /\ Len(<<>>) = 0
    BY DEF Answers!Range
  <2>. QED BY <1>1, <2>1 DEF Filters
<1>3. ASSUME NEW i \in S PROVE i + 1 \in S
  <2>. SUFFICES ASSUME i + 1 <= Len(s)
                PROVE  /\ Len(g[i + 1]) <= i + 1
                       /\ Answers!Range(g[i + 1]) = Upto(i + 1) \cap keep
    OBVIOUS
  <2>1. i + 1 \in 1..Len(s) /\ (i + 1) - 1 = i /\ i \in 0..Len(s)
    OBVIOUS
  <2>2. g[i] \in Seq(T) /\ Len(g[i]) <= i /\ Answers!Range(g[i]) = Upto(i) \cap keep
    BY <1>1, <2>1
  <2>3. s[i + 1] \in T
    BY <2>1
  <2>4. Upto(i + 1) = Upto(i) \cup {s[i + 1]}
    <3>1. 1..(i + 1) = (1..i) \cup {i + 1}
      OBVIOUS
    <3>. QED BY <3>1
  <2>5. g[i + 1] = IF s[i + 1] \in keep THEN Append(g[i], s[i + 1]) ELSE g[i]
    BY <1>1, <2>1 DEF Filters
  <2>. HIDE DEF Upto, S
  <2>6. CASE s[i + 1] \in keep
    <3>1. Answers!Range(g[i + 1]) = Answers!Range(g[i]) \cup {s[i + 1]}
      BY <2>2, <2>3, <2>5, <2>6, RangeAppend
    <3>2. Len(g[i + 1]) = Len(g[i]) + 1 /\ Len(g[i]) \in Nat
      BY <2>2, <2>3, <2>5, <2>6
    <3>3. i \in Nat
      BY <2>1
    <3>. QED BY <2>2, <2>4, <2>6, <3>1, <3>2, <3>3
  <2>7. CASE s[i + 1] \notin keep
    <3>1. Len(g[i]) \in Nat /\ i \in Nat
      BY <2>1, <2>2
    <3>. QED BY <2>2, <2>4, <2>5, <2>7, <3>1
  <2>. QED BY <2>6, <2>7
<1>4. S = Nat
  <2>1. S \in SUBSET Nat
    OBVIOUS
  <2>. HIDE DEF S
  <2>. QED BY <1>2, <1>3, <2>1, Induction
<1>5. Len(s) \in Nat /\ Upto(Len(s)) = Answers!Range(s)
  BY DEF Answers!Range
<1>. QED BY <1>1, <1>4, <1>5

\* Of the numbers up to n as many are kept as there are to keep.
LEMMA ThoseNumbers ==
    ASSUME NEW n \in Nat, NEW keep
    PROVE  LET t == Answers!Those(Answers!Numbers(n), keep) IN
           /\ t \in Seq(Nat) /\ Answers!Range(t) = (1..n) \cap keep
           /\ Len(t) = Cardinality((1..n) \cap keep) /\ Len(t) <= n
<1>. DEFINE s == Answers!Numbers(n)
<1>1. s \in Seq(Nat) /\ Len(s) = n /\ (\A i \in 1..n : s[i] = i) /\ Answers!Range(s) = 1..n
  BY NumbersAre
<1>. HIDE DEF s
<1>2. /\ Answers!Those(s, keep) \in Seq(Nat) /\ Len(Answers!Those(s, keep)) <= n
      /\ Answers!Range(Answers!Those(s, keep)) = (1..n) \cap keep
  BY <1>1, ThoseAre
<1>3. PICK g \in [0..n -> Seq(Nat)] : Filters(g, s, keep) /\ Answers!Those(s, keep) = g[n]
  <2>1. \E g \in [0..Len(s) -> Seq(Nat)] :
           Filters(g, s, keep) /\ Answers!Those(s, keep) = g[Len(s)]
    BY <1>1, ThoseIs, Zenon
  <2>. QED BY <1>1, <2>1, Zenon
<1>. DEFINE S == {i \in Nat : i <= n => Len(g[i]) = Cardinality((1..i) \cap keep)}
<1>4. 0 \in S
  <2>1. (1..0) \cap keep = {} /\ Len(<<>>) = 0 /\ Cardinality({}) = 0
    BY FS_EmptySet
  <2>. QED BY <1>3, <2>1 DEF Filters
<1>5. ASSUME NEW i \in S PROVE i + 1 \in S
  <2>. SUFFICES ASSUME i + 1 <= n
                PROVE  Len(g[i + 1]) = Cardinality((1..(i + 1)) \cap keep)
    OBVIOUS
  <2>1. i + 1 \in 1..n /\ (i + 1) - 1 = i /\ i \in 0..n /\ i \in Nat
    OBVIOUS
  <2>2. g[i] \in Seq(Nat) /\ Len(g[i]) = Cardinality((1..i) \cap keep)
    BY <1>3, <2>1
  <2>3. g[i + 1] = IF i + 1 \in keep THEN Append(g[i], i + 1) ELSE g[i]
    BY <1>1, <1>3, <2>1 DEF Filters
  <2>. HIDE DEF S
  <2>4. IsFiniteSet((1..i) \cap keep) /\ i + 1 \notin (1..i) \cap keep
    <3>1. IsFiniteSet(1..i)
      BY <2>1, FS_Interval
    <3>2. i + 1 \notin 1..i
      BY <2>1
    <3>. QED BY <3>1, <3>2, FS_Intersection, Zenon
  <2>5. CASE i + 1 \in keep
    <3>1. (1..(i + 1)) \cap keep = ((1..i) \cap keep) \cup {i + 1}
      BY <2>1, <2>5
    <3>2. Cardinality(((1..i) \cap keep) \cup {i + 1}) = Cardinality((1..i) \cap keep) + 1
      BY <2>4, FS_AddElement
    <3>3. Len(g[i + 1]) = Len(g[i]) + 1
      BY <2>1, <2>2, <2>3, <2>5
    <3>. QED BY <2>2, <3>1, <3>2, <3>3
  <2>6. CASE i + 1 \notin keep
    <3>1. (1..(i + 1)) \cap keep = (1..i) \cap keep
      BY <2>1, <2>6
    <3>. QED BY <2>2, <2>3, <2>6, <3>1
  <2>. QED BY <2>5, <2>6
<1>6. S = Nat
  <2>1. S \in SUBSET Nat
    OBVIOUS
  <2>. HIDE DEF S
  <2>. QED BY <1>4, <1>5, <2>1, Induction
<1>7. Len(g[n]) = Cardinality((1..n) \cap keep)
  <2>1. n \in S
    <3>. HIDE DEF S
    <3>. QED BY <1>6
  <2>2. n <= n
    OBVIOUS
  <2>. QED BY <2>1, <2>2, Zenon
<1>. HIDE DEF S
<1>. QED BY <1>2, <1>3, <1>7 DEF s

-----------------------------------------------------------------------------
(* read_file and list_files *)

ListKinds == {"plain", "ignored", "link", "deep", "closed"}
Candidate == [kind : Answers!Kinds, hits : SUBSET Nat]

LEMMA ReadRequest ==
    ASSUME s1 \in Answers!Requests, s1.is = "read"
    PROVE  s1.total \in Nat /\ s1.start \in Nat /\ s1.end \in Nat /\ s1.total >= 1
BY AnswersAssumption DEF Answers!Requests

LEMMA ListRequest ==
    ASSUME s1 \in Answers!Requests, s1.is = "list"
    PROVE  /\ s1.files \in Seq(ListKinds) /\ s1.limit \in Nat
           /\ DOMAIN s1.files = 1..Len(s1.files) /\ Len(s1.files) \in Nat
<1>1. s1.limit \in Nat /\ s1.files \in Answers!UpTo(AnswerFiles, ListKinds)
  BY AnswersAssumption DEF Answers!Requests, ListKinds
<1>2. PICK k \in 0..AnswerFiles : s1.files \in [1..k -> ListKinds]
  BY <1>1 DEF Answers!UpTo
<1>3. k \in Nat
  BY AnswersAssumption
<1>. QED BY <1>1, <1>2, <1>3

LEMMA SearchRequest ==
    ASSUME s1 \in Answers!Requests, s1.is = "search"
    PROVE  /\ s1.files \in Seq(Candidate) /\ s1.limit \in Nat \ {0} /\ s1.context \in Nat
           /\ DOMAIN s1.files = 1..Len(s1.files) /\ Len(s1.files) \in Nat
           /\ \A f \in DOMAIN s1.files : s1.files[f].hits \subseteq 1..AnswerLines
<1>1. /\ s1.limit \in Nat \ {0} /\ s1.context \in Nat
      /\ s1.files \in Answers!UpTo(AnswerFiles, Answers!Candidates)
  BY AnswersAssumption DEF Answers!Requests
<1>2. PICK k \in 0..AnswerFiles : s1.files \in [1..k -> Answers!Candidates]
  BY <1>1 DEF Answers!UpTo
<1>3. k \in Nat
  BY AnswersAssumption
<1>4. ASSUME NEW c \in Answers!Candidates
      PROVE  c \in Candidate /\ c.hits \subseteq 1..AnswerLines
  <2>1. 1..AnswerLines \subseteq Nat /\ 1 \in 1..AnswerLines
    BY AnswersAssumption
  <2>2. CASE c \in [kind : {"plain"}, hits : AnswerHits]
    <3>1. /\ c.kind = "plain" /\ c.hits \subseteq 1..AnswerLines
          /\ c = [kind |-> c.kind, hits |-> c.hits]
      BY <2>2, AnswersAssumption
    <3>. QED BY <2>1, <3>1 DEF Candidate, Answers!Kinds, Answers!Texts
  <2>3. CASE c \in [kind : Answers!Kinds \ {"plain"}, hits : {{1}}]
    <3>1. /\ c.kind \in Answers!Kinds /\ c.kind # "plain" /\ c.hits = {1}
          /\ c = [kind |-> c.kind, hits |-> c.hits]
      BY <2>3
    <3>. QED BY <2>1, <3>1 DEF Candidate
  <2>. QED BY <2>2, <2>3 DEF Answers!Candidates
<1>. HIDE DEF Candidate
<1>5. \A f \in 1..k : s1.files[f] \in Answers!Candidates
  BY <1>2
<1>. QED BY <1>1, <1>2, <1>3, <1>4, <1>5

\* What the glob finds.
LEMMA GlobbedIs ==
    ASSUME NEW files, Len(files) \in Nat, DOMAIN files = 1..Len(files)
    PROVE  /\ Answers!Globbed(files) \in Seq(Nat) /\ Len(Answers!Globbed(files)) \in Nat
           /\ Answers!Range(Answers!Globbed(files)) =
                  {f \in DOMAIN files : files[f] \notin {"deep", "closed"}}
<1>. DEFINE n == Len(files)
            keep == {f \in DOMAIN files : files[f] \notin {"deep", "closed"}}
            t == Answers!Those(Answers!Numbers(n), keep)
<1>1. Answers!Globbed(files) = t /\ keep \subseteq 1..n /\ n \in Nat
  BY DEF Answers!Globbed
<1>. HIDE DEF keep, n
<1>2. t \in Seq(Nat) /\ Answers!Range(t) = (1..n) \cap keep
  BY <1>1, ThoseNumbers
<1>. HIDE DEF t
<1>3. Len(t) \in Nat
  BY <1>2
<1>4. Answers!Range(t) = keep
  BY <1>1, <1>2, Zenon
<1>. QED BY <1>1, <1>2, <1>3, <1>4 DEF keep

\* The answer is given in one step, and the request stays.
Replies(shown, truncated) ==
    s2' = [is |-> "answer", shown |-> shown, truncated |-> truncated] /\ s1' = s1

LEMMA AnswerIs ==
    ASSUME NEW shown, NEW truncated, Answers!Answer(shown, truncated)
    PROVE  /\ s1' = s1 /\ s2'.is = "answer" /\ s2'.shown = shown /\ s2'.truncated = truncated
BY DEF Answers!Answer

LEMMA ReadIsTold ==
    ASSUME s1 \in Answers!Requests, Answers!ReadFile PROVE Answers!CutIsTold'
<1>. DEFINE a == Answers!ReadStart
            b == Answers!ReadEnd
            n == IF b < a THEN 0 ELSE b - a + 1
            numbered == [i \in 1..n |-> a + i - 1]
<1>1. /\ s1.is = "read"
      /\ Answers!Answer(Answers!Cut(numbered), b < s1.total \/ Len(numbered) > AnswerOutput)
  BY DEF Answers!ReadFile
<1>2. /\ s1' = s1 /\ s2'.is = "answer" /\ s2'.shown = Answers!Cut(numbered)
      /\ s2'.truncated = (b < s1.total \/ Len(numbered) > AnswerOutput)
  <2>. HIDE DEF b, numbered
  <2>. QED BY <1>1, AnswerIs
<1>3. s1.total \in Nat /\ s1.start \in Nat /\ s1.end \in Nat /\ s1.total >= 1
  BY <1>1, ReadRequest
<1>4. a \in Nat /\ a >= 1
  <2>1. 1 \in Nat
    OBVIOUS
  <2>. QED BY <1>3, <2>1, GreatestOfTwo DEF Answers!ReadStart
<1>5. b \in Nat /\ b <= s1.total
  <2>. DEFINE page == Answers!Min({s1.total, a + PageLines - 1})
              wanted == IF s1.end > 0 THEN s1.end ELSE page
  <2>1. page \in Nat
    <3>1. a + PageLines - 1 \in Nat
      BY <1>4, AnswersAssumption
    <3>. HIDE DEF a
    <3>. QED BY <1>3, <3>1, LeastOfTwo
  <2>2. wanted \in Nat
    <3>. HIDE DEF page
    <3>. QED BY <1>3, <2>1
  <2>3. b = Answers!Min({s1.total, wanted})
    BY DEF Answers!ReadEnd
  <2>. HIDE DEF wanted, b
  <2>. QED BY <1>3, <2>2, <2>3, LeastOfTwo DEF Least
<1>. HIDE DEF a, b
<1>6. n \in Nat /\ numbered \in Seq(Nat) /\ Len(numbered) = n
  <2>1. n \in Nat
    BY <1>4, <1>5
  <2>2. \A i \in 1..n : a + i - 1 \in Nat
    BY <1>4, <2>1
  <2>. HIDE DEF n
  <2>. QED BY <2>1, <2>2
<1>7. Answers!Range(numbered) = a..b
  <2>1. Answers!Range(numbered) = {a + i - 1 : i \in 1..n}
    BY DEF Answers!Range
  <2>2. \A x \in a..b : x - a + 1 \in 1..n /\ x = a + (x - a + 1) - 1
    BY <1>4, <1>5
  <2>3. \A i \in 1..n : a + i - 1 \in a..b
    BY <1>4, <1>5
  <2>. HIDE DEF n, numbered
  <2>. QED BY <2>1, <2>2, <2>3
<1>. HIDE DEF numbered, n
<1>. DEFINE shown == Answers!Cut(numbered)
<1>8. /\ Answers!Range(shown) \subseteq a..b
      /\ Len(numbered) <= AnswerOutput => Answers!Range(shown) = a..b
  <2>1. shown = Answers!First(numbered, AnswerOutput) /\ AnswerOutput \in Nat
    BY CutIs, AnswersAssumption
  <2>. HIDE DEF shown
  <2>. QED BY <1>6, <1>7, <2>1, FirstIs
<1>. HIDE DEF shown
<1>9. ~s2'.truncated => a..s1.total \subseteq Answers!Range(shown)
  <2>. SUFFICES ASSUME ~s2'.truncated PROVE a..s1.total \subseteq Answers!Range(shown)
    OBVIOUS
  <2>1. ~(b < s1.total) /\ ~(Len(numbered) > AnswerOutput)
    BY <1>2
  <2>2. b = s1.total /\ Len(numbered) <= AnswerOutput
    BY <1>3, <1>5, <1>6, <2>1, AnswersAssumption
  <2>. QED BY <1>8, <2>2
<1>10. Answers!Range(shown) \subseteq a..s1.total
  BY <1>3, <1>4, <1>5, <1>8
<1>11. Answers!Asked' = a..s1.total /\ Answers!Told' = Answers!Range(shown)
  BY <1>1, <1>2 DEF Answers!Asked, Answers!Told, Answers!ReadStart, a, shown
<1>. QED BY <1>1, <1>2, <1>9, <1>10, <1>11 DEF Answers!CutIsTold

LEMMA ListIsTold ==
    ASSUME s1 \in Answers!Requests, Answers!ListFiles PROVE Answers!CutIsTold'
<1>. DEFINE inside == Answers!Inside(s1.files)
            keep == {f \in DOMAIN s1.files : /\ s1.files[f] # "link"
                                             /\ s1.files[f] = "ignored" => ~s1.respect}
            kept == Answers!ListKept
            shown == Answers!First(kept, s1.limit)
            truncated == Len(kept) > s1.limit \/ Len(inside) > MaxResults
            globbed == Answers!Globbed(s1.files)
            hidden == {f \in keep : s1.files[f] \in {"deep", "closed"} \/ Len(globbed) > MaxResults}
<1>1. s1.is = "list" /\ Answers!Answer(shown, truncated)
  BY DEF Answers!ListFiles
<1>2. s1' = s1 /\ s2'.is = "answer" /\ s2'.shown = shown /\ s2'.truncated = truncated
  <2>. HIDE DEF shown, truncated
  <2>. QED BY <1>1, AnswerIs
<1>3. /\ s1.limit \in Nat /\ MaxResults \in Nat
      /\ DOMAIN s1.files = 1..Len(s1.files) /\ Len(s1.files) \in Nat
  BY <1>1, ListRequest, AnswersAssumption
<1>4. /\ inside \in Seq(Nat) /\ Answers!Range(inside) \subseteq DOMAIN s1.files /\ Len(globbed) \in Nat
      /\ Len(globbed) <= MaxResults =>
            \A f \in DOMAIN s1.files :
                s1.files[f] \notin {"deep", "closed"} => f \in Answers!Range(inside)
  <2>1. /\ globbed \in Seq(Nat) /\ Len(globbed) \in Nat
        /\ Answers!Range(globbed) = {f \in DOMAIN s1.files : s1.files[f] \notin {"deep", "closed"}}
    BY <1>3, GlobbedIs
  <2>2. inside = Answers!First(globbed, MaxResults)
    BY DEF Answers!Inside
  <2>. HIDE DEF globbed, inside
  <2>3. /\ inside \in Seq(Nat) /\ Answers!Range(inside) \subseteq Answers!Range(globbed)
        /\ Len(globbed) <= MaxResults => inside = globbed
    BY <1>3, <2>1, <2>2, FirstIs
  <2>. QED BY <2>1, <2>3
<1>5. kept \in Seq(Nat) /\ Answers!Range(kept) = Answers!Range(inside) \cap keep
  <2>1. kept = Answers!Those(inside, keep)
    BY DEF Answers!ListKept
  <2>. HIDE DEF kept, inside, keep
  <2>. QED BY <1>4, <2>1, ThoseAre
<1>. HIDE DEF kept, inside
<1>6. /\ Answers!Range(shown) \subseteq Answers!Range(kept)
      /\ Len(kept) <= s1.limit => Answers!Range(shown) = Answers!Range(kept)
  BY <1>3, <1>5, FirstIs
<1>7. Answers!Asked' = keep /\ Answers!Told' = Answers!Range(shown) /\ Answers!Untold' = hidden
  <2>1. Answers!Asked' = keep /\ Answers!Told' = Answers!Range(shown)
    BY <1>1, <1>2 DEF Answers!Asked, Answers!Told
  <2>2. Answers!Globbed(s1.files)' = globbed
    BY <1>2 DEF Answers!Globbed
  <2>. HIDE DEF keep, globbed
  <2>. QED BY <1>1, <1>2, <2>1, <2>2 DEF Answers!Untold
<1>8. keep \subseteq DOMAIN s1.files
  OBVIOUS
<1>9. Answers!Range(shown) \subseteq keep
  <2>. HIDE DEF keep, shown
  <2>. QED BY <1>5, <1>6
<1>10. ~truncated => keep \ hidden \subseteq Answers!Range(shown)
  <2>. SUFFICES ASSUME ~truncated, NEW f \in keep \ hidden PROVE f \in Answers!Range(shown)
    OBVIOUS
  <2>1. Len(kept) <= s1.limit
    BY <1>3, <1>5
  <2>2. s1.files[f] \notin {"deep", "closed"} /\ ~(Len(globbed) > MaxResults) /\ f \in DOMAIN s1.files
    OBVIOUS
  <2>3. Len(globbed) <= MaxResults
    BY <1>3, <1>4, <2>2
  <2>4. f \in Answers!Range(inside)
    BY <1>4, <2>2, <2>3
  <2>. HIDE DEF keep, shown, hidden
  <2>. QED BY <1>5, <1>6, <2>1, <2>4
<1>. HIDE DEF keep, shown, truncated, hidden
<1>. QED BY <1>1, <1>2, <1>7, <1>9, <1>10 DEF Answers!CutIsTold

-----------------------------------------------------------------------------
(* search_files *)

ShownLine == [file : Nat, line : Nat, hit : BOOLEAN, whole : BOOLEAN]
HitsIn(lines) == {<<lines[i].file, lines[i].line>> : i \in {k \in DOMAIN lines : lines[k].hit}}
\* The lines of a file that match.
Matching(f) == (1..AnswerLines) \cap s1.files[f].hits

\* Only a line of a wide file is not shown whole.
IsWhole(lines) == \A i \in DOMAIN lines : lines[i].whole \/ s1.files[lines[i].file].kind = "wide"

LEMMA HitsOfNothing == HitsIn(<<>>) = {}
BY DEF HitsIn

LEMMA HitsOfTwo ==
    ASSUME NEW s \in Seq(ShownLine), NEW t \in Seq(ShownLine)
    PROVE  s \o t \in Seq(ShownLine) /\ HitsIn(s \o t) = HitsIn(s) \cup HitsIn(t)
<1>. DEFINE u == s \o t
            m == Len(s)
            n == Len(t)
<1>1. /\ u \in Seq(ShownLine) /\ m \in Nat /\ n \in Nat /\ DOMAIN u = 1..(m + n)
      /\ DOMAIN s = 1..m /\ DOMAIN t = 1..n
      /\ (\A i \in 1..m : u[i] = s[i]) /\ (\A i \in 1..n : u[m + i] = t[i])
  OBVIOUS
<1>. HIDE DEF u, m, n
<1>2. ASSUME NEW i \in 1..m PROVE i \in 1..(m + n)
  BY <1>1
<1>3. ASSUME NEW i \in 1..n PROVE m + i \in 1..(m + n)
  BY <1>1
<1>4. ASSUME NEW i \in 1..(m + n) PROVE i \in 1..m \/ \E j \in 1..n : i = m + j
  <2>1. i \in 1..m \/ (i - m \in 1..n /\ i = m + (i - m))
    BY <1>1
  <2>. QED BY <2>1
<1>5. ASSUME NEW h \in HitsIn(u) PROVE h \in HitsIn(s) \cup HitsIn(t)
  <2>1. PICK i \in 1..(m + n) : u[i].hit /\ h = <<u[i].file, u[i].line>>
    BY <1>1, <1>5 DEF HitsIn
  <2>2. CASE i \in 1..m
    BY <1>1, <2>1, <2>2 DEF HitsIn
  <2>3. CASE \E j \in 1..n : i = m + j
    BY <1>1, <2>1, <2>3 DEF HitsIn
  <2>. QED BY <1>4, <2>2, <2>3
<1>6. ASSUME NEW h \in HitsIn(s) PROVE h \in HitsIn(u)
  <2>1. PICK i \in 1..m : s[i].hit /\ h = <<s[i].file, s[i].line>>
    BY <1>1, <1>6 DEF HitsIn
  <2>. QED BY <1>1, <1>2, <2>1 DEF HitsIn
<1>7. ASSUME NEW h \in HitsIn(t) PROVE h \in HitsIn(u)
  <2>1. PICK i \in 1..n : t[i].hit /\ h = <<t[i].file, t[i].line>>
    BY <1>1, <1>7 DEF HitsIn
  <2>. QED BY <1>1, <1>3, <2>1 DEF HitsIn
<1>. QED BY <1>1, <1>5, <1>6, <1>7 DEF u

LEMMA WholeOfTwo ==
    ASSUME NEW s \in Seq(ShownLine), NEW t \in Seq(ShownLine), IsWhole(s), IsWhole(t)
    PROVE  IsWhole(s \o t)
<1>. DEFINE u == s \o t
            m == Len(s)
            n == Len(t)
<1>1. /\ m \in Nat /\ n \in Nat /\ DOMAIN u = 1..(m + n)
      /\ DOMAIN s = 1..m /\ DOMAIN t = 1..n
      /\ (\A i \in 1..m : u[i] = s[i]) /\ (\A i \in 1..n : u[m + i] = t[i])
  OBVIOUS
<1>. HIDE DEF u, m, n
<1>2. ASSUME NEW i \in 1..(m + n) PROVE i \in 1..m \/ \E j \in 1..n : i = m + j
  <2>1. i \in 1..m \/ (i - m \in 1..n /\ i = m + (i - m))
    BY <1>1
  <2>. QED BY <2>1
<1>3. ASSUME NEW i \in 1..(m + n) PROVE u[i].whole \/ s1.files[u[i].file].kind = "wide"
  <2>1. CASE i \in 1..m
    BY <1>1, <2>1 DEF IsWhole
  <2>2. CASE \E j \in 1..n : i = m + j
    <3>1. PICK j \in 1..n : i = m + j
      BY <2>2
    <3>2. u[i] = t[j] /\ j \in DOMAIN t
      BY <1>1, <3>1
    <3>. QED BY <3>2 DEF IsWhole
  <2>. QED BY <1>2, <2>1, <2>2
<1>4. IsWhole(u)
  BY <1>1, <1>3 DEF IsWhole
<1>. QED BY <1>4 DEF u

\* The hits of what is shown of a sequence are among its own.
LEMMA HitsOfFirst ==
    ASSUME NEW s \in Seq(ShownLine), NEW n \in Nat
    PROVE  /\ HitsIn(Answers!First(s, n)) \subseteq HitsIn(s)
           /\ Len(s) <= n => HitsIn(Answers!First(s, n)) = HitsIn(s)
           /\ IsWhole(s) => IsWhole(Answers!First(s, n))
<1>. DEFINE t == Answers!First(s, n)
<1>1. /\ t \in Seq(ShownLine) /\ Len(t) = Least(Len(s), n) /\ (\A i \in 1..Len(t) : t[i] = s[i])
      /\ Len(s) <= n => t = s
  BY FirstIs
<1>2. Len(s) \in Nat /\ Len(t) \in Nat /\ Len(t) <= Len(s)
  BY <1>1 DEF Least
<1>3. DOMAIN t = 1..Len(t) /\ DOMAIN s = 1..Len(s) /\ 1..Len(t) \subseteq 1..Len(s)
  BY <1>1, <1>2
<1>. HIDE DEF t
<1>4. HitsIn(t) \subseteq HitsIn(s)
  BY <1>1, <1>3 DEF HitsIn
<1>5. IsWhole(s) => IsWhole(t)
  BY <1>1, <1>3 DEF IsWhole
<1>. QED BY <1>1, <1>4, <1>5 DEF t

\* The instance counts as everybody does.
LEMMA CountIs == \A S : Answers!Cardinality(S) = Cardinality(S)
BY Zenon DEF Answers!Cardinality, Cardinality

\* What renderHits shows: some of the hits, no more than the budget, and all of them if the
\* budget allows; it says how many.
LEMMA RenderIs ==
    ASSUME s1 \in Answers!Requests, s1.is = "search",
           NEW f \in DOMAIN s1.files, NEW budget \in Nat, NEW limited \in BOOLEAN
    PROVE  LET r == Answers!RenderHits(f, budget, limited) IN
           \E shown \in SUBSET Matching(f) :
              /\ r.lines \in Seq(ShownLine) /\ HitsIn(r.lines) = {f} \X shown
              /\ IsFiniteSet(shown) /\ r.shown = Cardinality(shown) /\ r.shown <= budget
              /\ Cardinality(Matching(f)) <= budget => shown = Matching(f)
              /\ IsWhole(r.lines)
<1>. DEFINE hits == Answers!Hits(f)
            shown == Answers!Range(Answers!First(hits, budget))
            keep == {n \in 1..AnswerLines :
                        \E hit \in shown : n \in (hit - Answers!Min({hit, s1.context}))..
                                                 (hit + s1.context)}
            order == Answers!Those(Answers!Numbers(AnswerLines), keep)
            whole == ~limited \/ s1.files[f].kind # "wide"
            lines == [i \in DOMAIN order |->
                         [file |-> f, line |-> order[i], hit |-> order[i] \in shown, whole |-> whole]]
            r == Answers!RenderHits(f, budget, limited)
<1>1. r = [lines |-> lines, shown |-> Cardinality(shown)]
  <2>1. r = [lines |-> lines, shown |-> Answers!Cardinality(shown)]
    BY DEF Answers!RenderHits
  <2>. HIDE DEF r, lines, shown
  <2>. QED BY <2>1, CountIs
<1>2. f \in Nat /\ s1.context \in Nat /\ AnswerLines \in Nat
  BY SearchRequest, AnswersAssumption
<1>3. /\ hits \in Seq(Nat) /\ Answers!Range(hits) = Matching(f)
      /\ Len(hits) = Cardinality(Matching(f))
  BY <1>2, ThoseNumbers DEF Answers!Hits, Matching
<1>. HIDE DEF hits
<1>4. shown \subseteq Matching(f) /\ (Cardinality(Matching(f)) <= budget => shown = Matching(f))
  BY <1>3, FirstIs
<1>5. IsFiniteSet(shown) /\ Cardinality(shown) <= budget
  <2>. DEFINE t == Answers!First(hits, budget)
              m == Len(t)
  <2>1. t \in Seq(Nat) /\ m = Least(Len(hits), budget)
    BY <1>3, FirstIs
  <2>2. m \in Nat /\ m <= budget
    BY <1>3, <2>1 DEF Least
  <2>3. shown = {t[i] : i \in 1..m}
    BY <2>1 DEF Answers!Range
  <2>. HIDE DEF t, m, shown
  <2>4. IsFiniteSet(1..m) /\ Cardinality(1..m) = m
    <3>1. m \in Int /\ 1 \in Int /\ (1 > m => m = 0) /\ m - 1 + 1 = m
      BY <2>2
    <3>. QED BY <3>1, FS_Interval
  <2>. DEFINE g == [i \in 1..m |-> t[i]]
  <2>5. g \in Surjection(1..m, shown)
    BY <2>3 DEF Surjection
  <2>. HIDE DEF g
  <2>6. IsFiniteSet(shown) /\ Cardinality(shown) <= Cardinality(1..m)
    BY <2>4, <2>5, FS_Surjection
  <2>7. Cardinality(shown) \in Nat
    BY <2>6, FS_CardinalityType
  <2>. QED BY <2>2, <2>4, <2>6, <2>7
<1>. HIDE DEF shown
<1>6. shown \subseteq keep /\ keep \subseteq 1..AnswerLines
  <2>1. ASSUME NEW n \in shown PROVE n \in keep
    <3>1. n \in 1..AnswerLines /\ n \in Nat
      BY <1>2, <1>4, <2>1 DEF Matching
    <3>2. Answers!Min({n, s1.context}) \in Nat
      BY <1>2, <3>1, LeastOfTwo
    <3>3. n \in (n - Answers!Min({n, s1.context}))..(n + s1.context)
      BY <1>2, <3>1, <3>2
    <3>. QED BY <2>1, <3>1, <3>3
  <2>. QED BY <2>1
<1>. HIDE DEF keep
<1>7. order \in Seq(Nat) /\ Answers!Range(order) = (1..AnswerLines) \cap keep
  BY <1>2, ThoseNumbers
<1>. HIDE DEF order
<1>8. Answers!Range(order) = keep
  BY <1>6, <1>7
<1>9. lines \in Seq(ShownLine)
  <2>1. \A i \in DOMAIN order : order[i] \in Nat
    BY <1>7
  <2>2. \A i \in DOMAIN order : lines[i] \in ShownLine
    BY <1>2, <2>1 DEF ShownLine
  <2>3. DOMAIN order = 1..Len(order) /\ Len(order) \in Nat
    BY <1>7
  <2>4. lines \in [1..Len(order) -> ShownLine]
    BY <2>2, <2>3
  <2>. HIDE DEF lines
  <2>. QED BY <2>3, <2>4
<1>10. HitsIn(lines) = {f} \X shown
  <2>1. HitsIn(lines) = {<<f, order[i]>> : i \in {k \in DOMAIN order : order[k] \in shown}}
    BY DEF HitsIn
  <2>2. \A n \in shown : \E i \in DOMAIN order : n = order[i]
    BY <1>6, <1>8 DEF Answers!Range
  <2>. HIDE DEF lines
  <2>. QED BY <2>1, <2>2
<1>11. IsWhole(lines)
  BY DEF IsWhole
<1>. HIDE DEF lines
<1>. QED BY <1>1, <1>4, <1>5, <1>9, <1>10, <1>11

-----------------------------------------------------------------------------
(* The built-in searcher *)

FoundRec == [lines : Seq(ShownLine), matchCount : Nat, truncated : BOOLEAN, stopped : BOOLEAN]
AllHits == {h \in (DOMAIN s1.files) \X (1..AnswerLines) :
               /\ s1.files[h[1]].kind \in Answers!Texts \cup Answers!Passed
               /\ h[2] \in s1.files[h[1]].hits}
\* Those the built-in searcher gets to see.
SeenHits == {h \in AllHits : s1.files[h[1]].kind \in Answers!Texts}
IsFound(found, done) ==
    /\ found \in FoundRec /\ found.matchCount <= s1.limit
    /\ HitsIn(found.lines) \subseteq AllHits /\ IsFiniteSet(HitsIn(found.lines))
    /\ Cardinality(HitsIn(found.lines)) <= found.matchCount
    /\ found.stopped => found.truncated
    /\ IsWhole(found.lines)
    /\ ~found.truncated =>
          /\ Len(Answers!GlobbedTexts) <= MaxResults
          /\ \A h \in SeenHits : h[1] \in done => h \in HitsIn(found.lines)

\* What searching one more file leads to.
Rendered(found, f) == Answers!RenderHits(f, s1.limit - found.matchCount, TRUE)
IsFull(found) ==
    found.stopped \/ found.matchCount >= s1.limit \/ Len(found.lines) > 2 * AnswerOutput
IsStopped(next, found) ==
    /\ next \in FoundRec /\ next.lines = found.lines /\ next.matchCount = found.matchCount
    /\ next.truncated /\ next.stopped
IsLonger(next, found, r, cut) ==
    /\ next \in FoundRec /\ next.lines = found.lines \o r.lines
    /\ next.matchCount = found.matchCount + r.shown
    /\ next.truncated = cut /\ next.stopped = found.stopped

LEMMA FoundStops ==
    ASSUME NEW found \in FoundRec
    PROVE  IsStopped([found EXCEPT !.truncated = TRUE, !.stopped = TRUE], found)
BY DEF IsStopped, FoundRec

LEMMA FoundGrows ==
    ASSUME NEW found \in FoundRec,
           NEW lines \in Seq(ShownLine), NEW more \in Nat, NEW cut \in BOOLEAN
    PROVE  IsLonger([found EXCEPT !.lines = @ \o lines, !.matchCount = @ + more, !.truncated = cut],
                    found, [lines |-> lines, shown |-> more], cut)
<1>. DEFINE next == [found EXCEPT !.lines = @ \o lines, !.matchCount = @ + more, !.truncated = cut]
<1>1. found.lines \o lines \in Seq(ShownLine) /\ found.matchCount + more \in Nat
  <2>1. found.lines \in Seq(ShownLine) /\ found.matchCount \in Nat
    BY DEF FoundRec
  <2>. QED BY <2>1, HitsOfTwo
<1>2. next = [lines |-> found.lines \o lines, matchCount |-> found.matchCount + more,
              truncated |-> cut, stopped |-> found.stopped]
  <2>1. found = [lines |-> found.lines, matchCount |-> found.matchCount,
                 truncated |-> found.truncated, stopped |-> found.stopped]
    BY DEF FoundRec
  <2>. DEFINE all == found.lines \o lines
              n == found.matchCount + more
  <2>. HIDE DEF all, n
  <2>2. [found EXCEPT !.lines = all, !.matchCount = n, !.truncated = cut] =
            [lines |-> all, matchCount |-> n, truncated |-> cut, stopped |-> found.stopped]
    <3>. DEFINE f1 == [found EXCEPT !.lines = all]
                f2 == [f1 EXCEPT !.matchCount = n]
                f3 == [f2 EXCEPT !.truncated = cut]
    <3>1. f1 = [lines |-> all, matchCount |-> found.matchCount, truncated |-> found.truncated,
                stopped |-> found.stopped]
      BY <2>1
    <3>. HIDE DEF f1
    <3>2. f2 = [lines |-> all, matchCount |-> n, truncated |-> found.truncated,
                stopped |-> found.stopped]
      BY <3>1
    <3>. HIDE DEF f2
    <3>3. f3 = [lines |-> all, matchCount |-> n, truncated |-> cut, stopped |-> found.stopped]
      BY <3>2
    <3>. QED BY <3>3 DEF f1, f2, f3
  <2>. QED BY <2>2 DEF all, n
<1>3. found.stopped \in BOOLEAN
  BY DEF FoundRec
<1>. HIDE DEF next
<1>. QED BY <1>1, <1>2, <1>3 DEF IsLonger, FoundRec

\* One file: the search stops, passes over it, or shows hits of it and says if not all.
LEMMA SearchOne ==
    ASSUME s1 \in Answers!Requests, s1.is = "search",
           NEW found \in FoundRec, NEW f \in DOMAIN s1.files
    PROVE  LET next == Answers!SearchFile(found, f) IN
           \/ IsStopped(next, found)
           \/ next = found /\ s1.files[f].kind \notin Answers!Texts
           \/ /\ s1.files[f].kind \in Answers!Texts /\ found.matchCount <= s1.limit
              /\ \E r : \E shown \in SUBSET s1.files[f].hits :
                    /\ r.lines \in Seq(ShownLine) /\ HitsIn(r.lines) = {f} \X shown
                    /\ IsFiniteSet(shown) /\ r.shown = Cardinality(shown)
                    /\ r.shown \in Nat /\ found.matchCount + r.shown <= s1.limit
                    /\ IsFiniteSet(s1.files[f].hits) /\ IsWhole(r.lines)
                    /\ IsLonger(next, found, r,
                                found.truncated \/ r.shown < Cardinality(s1.files[f].hits))
<1>. DEFINE next == Answers!SearchFile(found, f)
            r == Rendered(found, f)
            hits == s1.files[f].hits
            cut == found.truncated \/ r.shown < Cardinality(hits)
<1>1. CASE IsFull(found)
  <2>1. next = [found EXCEPT !.truncated = TRUE, !.stopped = TRUE]
    BY <1>1 DEF Answers!SearchFile, IsFull
  <2>. QED BY <2>1, FoundStops, Zenon
<1>2. CASE ~IsFull(found) /\ s1.files[f].kind \notin Answers!Texts
  BY <1>2 DEF Answers!SearchFile, IsFull
<1>3. CASE ~IsFull(found) /\ s1.files[f].kind \in Answers!Texts
  <2>1. s1.limit \in Nat /\ found.matchCount \in Nat /\ ~(found.matchCount >= s1.limit)
    BY <1>3, SearchRequest DEF IsFull, FoundRec
  <2>2. s1.limit - found.matchCount \in Nat /\ found.matchCount <= s1.limit
    BY <2>1
  <2>3. Matching(f) = hits /\ hits \subseteq 1..AnswerLines
    BY <1>3, SearchRequest DEF Matching
  <2>4. IsFiniteSet(hits)
    <3>1. 1 \in Int /\ AnswerLines \in Int
      BY AnswersAssumption
    <3>2. IsFiniteSet(1..AnswerLines)
      BY <3>1, FS_Interval
    <3>. QED BY <2>3, <3>2, FS_Subset
  <2>5. PICK shown \in SUBSET hits :
           /\ r.lines \in Seq(ShownLine) /\ HitsIn(r.lines) = {f} \X shown
           /\ IsFiniteSet(shown) /\ r.shown = Cardinality(shown)
           /\ r.shown <= s1.limit - found.matchCount /\ IsWhole(r.lines)
    <3>. HIDE DEF hits, r
    <3>. QED BY <2>2, <2>3, RenderIs DEF r, Rendered
  <2>6. r.shown \in Nat
    BY <2>5, FS_CardinalityType
  <2>7. next = [found EXCEPT !.lines = @ \o r.lines, !.matchCount = @ + r.shown,
                             !.truncated = @ \/ r.shown < Answers!Cardinality(hits)]
    BY <1>3 DEF Answers!SearchFile, IsFull, Rendered
  <2>8. cut \in BOOLEAN /\ cut = (found.truncated \/ r.shown < Answers!Cardinality(hits))
    BY CountIs DEF FoundRec
  <2>9. r = [lines |-> r.lines, shown |-> r.shown]
    BY DEF Rendered, Answers!RenderHits
  <2>. HIDE DEF next, r, hits, cut
  <2>10. next = [found EXCEPT !.lines = @ \o r.lines, !.matchCount = @ + r.shown,
                              !.truncated = cut]
    BY <2>7, <2>8
  <2>11. IsLonger(next, found, [lines |-> r.lines, shown |-> r.shown], cut)
    BY <2>5, <2>6, <2>8, <2>10, FoundGrows
  <2>12. found.matchCount + r.shown <= s1.limit
    BY <2>1, <2>5, <2>6
  <2>13. IsLonger(next, found, r, found.truncated \/ r.shown < Cardinality(hits))
    BY <2>9, <2>11 DEF cut
  <2>. QED BY <1>3, <2>2, <2>4, <2>5, <2>6, <2>12, <2>13 DEF next, hits
<1>. QED BY <1>1, <1>2, <1>3

LEMMA SearchType ==
    ASSUME s1 \in Answers!Requests, s1.is = "search",
           NEW found \in FoundRec, NEW f \in DOMAIN s1.files
    PROVE  Answers!SearchFile(found, f) \in FoundRec
BY SearchOne DEF IsStopped, IsLonger

LEMMA SearchStep ==
    ASSUME s1 \in Answers!Requests, s1.is = "search",
           NEW found, NEW done, IsFound(found, done), NEW f \in DOMAIN s1.files
    PROVE  IsFound(Answers!SearchFile(found, f), done \cup {f})
<1>. DEFINE next == Answers!SearchFile(found, f)
<1>. HIDE DEF next
<1>1. found \in FoundRec
  BY DEF IsFound
<1>2. CASE IsStopped(next, found)
  BY <1>2 DEF IsStopped, IsFound, next
<1>3. CASE next = found /\ s1.files[f].kind \notin Answers!Texts
  <2>1. \A h \in SeenHits : h[1] # f
    BY <1>3 DEF SeenHits
  <2>. QED BY <1>3, <2>1 DEF IsFound, next
<1>4. ASSUME s1.files[f].kind \in Answers!Texts, NEW shown \in SUBSET s1.files[f].hits, NEW r,
             r.lines \in Seq(ShownLine), HitsIn(r.lines) = {f} \X shown,
             IsFiniteSet(shown), r.shown = Cardinality(shown), r.shown \in Nat,
             found.matchCount + r.shown <= s1.limit, IsFiniteSet(s1.files[f].hits),
             IsWhole(r.lines), IsLonger(next, found, r, found.truncated \/ r.shown < Cardinality(s1.files[f].hits))
      PROVE  IsFound(next, done \cup {f})
  <2>. DEFINE hits == s1.files[f].hits
              old == HitsIn(found.lines)
              new == {f} \X shown
  <2>1. /\ next \in FoundRec /\ next.matchCount = found.matchCount + r.shown
        /\ next.lines = found.lines \o r.lines /\ next.stopped = found.stopped
        /\ next.truncated = (found.truncated \/ r.shown < Cardinality(hits))
    BY <1>4 DEF IsLonger
  <2>2. found.lines \in Seq(ShownLine) /\ found.matchCount \in Nat /\ found.truncated \in BOOLEAN
    BY <1>1 DEF FoundRec
  <2>3. HitsIn(next.lines) = old \cup new
    BY <1>4, <2>1, <2>2, HitsOfTwo
  <2>4. hits \subseteq 1..AnswerLines
    BY <1>4, SearchRequest
  <2>5. new \subseteq AllHits
    BY <1>4, <2>4 DEF AllHits
  <2>6. IsFiniteSet(new) /\ Cardinality(new) = Cardinality(shown)
    <3>1. IsFiniteSet({f}) /\ Cardinality({f}) = 1
      BY FS_Singleton
    <3>2. IsFiniteSet(new) /\ Cardinality(new) = Cardinality({f}) * Cardinality(shown)
      BY <1>4, <3>1, FS_Product
    <3>. QED BY <1>4, <3>1, <3>2
  <2>. HIDE DEF old, new, hits
  <2>7. old \subseteq AllHits /\ IsFiniteSet(old) /\ Cardinality(old) <= found.matchCount
    BY DEF IsFound, old
  <2>8. /\ IsFiniteSet(old \cup new)
        /\ Cardinality(old \cup new) <= Cardinality(old) + Cardinality(new)
    <3>1. /\ IsFiniteSet(old \cup new)
          /\ Cardinality(old \cup new) =
                 Cardinality(old) + Cardinality(new) - Cardinality(old \cap new)
      BY <2>6, <2>7, FS_Union
    <3>2. IsFiniteSet(old \cap new)
      BY <2>7, FS_Intersection
    <3>3. Cardinality(old \cap new) \in Nat /\ Cardinality(old) \in Nat /\ Cardinality(new) \in Nat
      BY <2>6, <2>7, <3>2, FS_CardinalityType
    <3>. QED BY <3>1, <3>3
  <2>9. Cardinality(old \cup new) <= next.matchCount
    <3>1. Cardinality(old) \in Nat /\ Cardinality(old \cup new) \in Nat
      BY <2>7, <2>8, FS_CardinalityType
    <3>. QED BY <1>4, <2>1, <2>2, <2>6, <2>7, <2>8, <3>1
  <2>10. ASSUME ~next.truncated
         PROVE  /\ Len(Answers!GlobbedTexts) <= MaxResults
                /\ \A h \in SeenHits : h[1] \in done \cup {f} => h \in old \cup new
    <3>1. ~found.truncated /\ ~(r.shown < Cardinality(hits))
      BY <2>1, <2>10
    <3>2. shown = hits
      <4>1. /\ Cardinality(hits) \in Nat /\ Cardinality(shown) <= Cardinality(hits)
            /\ (Cardinality(hits) = Cardinality(shown) => hits = shown)
        BY <1>4, FS_Subset, FS_CardinalityType DEF hits
      <4>. QED BY <1>4, <3>1, <4>1
    <3>3. \A h \in SeenHits : h[1] = f => h \in new
      BY <3>2 DEF SeenHits, AllHits, new, hits
    <3>4. Len(Answers!GlobbedTexts) <= MaxResults /\ \A h \in SeenHits : h[1] \in done => h \in old
      BY <3>1 DEF IsFound, old
    <3>. QED BY <3>3, <3>4
  <2>11. next.stopped => next.truncated
    BY <2>1 DEF IsFound
  <2>12. IsWhole(next.lines)
    <3>1. IsWhole(found.lines)
      BY DEF IsFound
    <3>. QED BY <1>4, <2>1, <2>2, <3>1, WholeOfTwo
  <2>. QED BY <1>4, <2>1, <2>3, <2>5, <2>7, <2>8, <2>9, <2>10, <2>11, <2>12 DEF IsFound
<1>5. /\ next \in FoundRec
      /\ \/ IsStopped(next, found)
         \/ next = found /\ s1.files[f].kind \notin Answers!Texts
         \/ /\ s1.files[f].kind \in Answers!Texts /\ found.matchCount <= s1.limit
            /\ \E r : \E shown \in SUBSET s1.files[f].hits :
                  /\ r.lines \in Seq(ShownLine) /\ HitsIn(r.lines) = {f} \X shown
                  /\ IsFiniteSet(shown) /\ r.shown = Cardinality(shown)
                  /\ r.shown \in Nat /\ found.matchCount + r.shown <= s1.limit
                  /\ IsFiniteSet(s1.files[f].hits) /\ IsWhole(r.lines)
                  /\ IsLonger(next, found, r,
                              found.truncated \/ r.shown < Cardinality(s1.files[f].hits))
  BY <1>1, SearchOne, SearchType DEF next
<1>. QED BY <1>2, <1>3, <1>4, <1>5, Zenon DEF next

\* What has been found after the first i files.
Searches(g, list) ==
    /\ g[0] = Answers!NothingFound
    /\ \A i \in 1..Len(list) : g[i] = Answers!SearchFile(g[i - 1], list[i])

LEMMA SearchesOne ==
    ASSUME NEW list, Len(list) \in Nat, NEW f, NEW g, Searches(f, list), Searches(g, list)
    PROVE  \A i \in 0..Len(list) : f[i] = g[i]
<1>. DEFINE S == {i \in Nat : i <= Len(list) => f[i] = g[i]}
<1>1. 0 \in S
  BY DEF Searches
<1>2. ASSUME NEW i \in S PROVE i + 1 \in S
  <2>. SUFFICES ASSUME i + 1 <= Len(list) PROVE f[i + 1] = g[i + 1]
    OBVIOUS
  <2>1. i + 1 \in 1..Len(list) /\ (i + 1) - 1 = i /\ f[i] = g[i]
    OBVIOUS
  <2>. QED BY <2>1 DEF Searches
<1>3. S = Nat
  <2>1. S \in SUBSET Nat
    OBVIOUS
  <2>. HIDE DEF S
  <2>. QED BY <1>1, <1>2, <2>1, Induction
<1>. QED BY <1>3

LEMMA GlobbedTextsAre ==
    ASSUME s1 \in Answers!Requests, s1.is = "search"
    PROVE  /\ Answers!GlobbedTexts \in Seq(Nat) /\ Len(Answers!GlobbedTexts) \in Nat
           /\ Answers!Range(Answers!GlobbedTexts) \subseteq DOMAIN s1.files
           /\ \A f \in DOMAIN s1.files :
                 s1.files[f].kind \in Answers!Texts => f \in Answers!Range(Answers!GlobbedTexts)
<1>. DEFINE sorts == [f \in DOMAIN s1.files |-> s1.files[f].kind]
<1>1. Len(s1.files) \in Nat /\ DOMAIN s1.files = 1..Len(s1.files)
  BY SearchRequest
<1>2. /\ DOMAIN sorts = DOMAIN s1.files /\ Len(sorts) = Len(s1.files)
      /\ \A f \in DOMAIN s1.files : sorts[f] = s1.files[f].kind
  BY <1>1
<1>3. Answers!GlobbedTexts = Answers!Globbed(sorts)
  BY DEF Answers!GlobbedTexts
<1>. HIDE DEF sorts
<1>4. /\ Answers!Globbed(sorts) \in Seq(Nat) /\ Len(Answers!Globbed(sorts)) \in Nat
      /\ Answers!Range(Answers!Globbed(sorts)) =
             {f \in DOMAIN sorts : sorts[f] \notin {"deep", "closed"}}
  BY <1>1, <1>2, GlobbedIs
<1>5. \A k \in Answers!Texts : k \notin {"deep", "closed"}
  BY DEF Answers!Texts
<1>. QED BY <1>2, <1>3, <1>4, <1>5

LEMMA SearchedIs ==
    ASSUME s1 \in Answers!Requests, s1.is = "search"
    PROVE  /\ Answers!Searched \in Seq(Nat)
           /\ Answers!Range(Answers!Searched) \subseteq DOMAIN s1.files
           /\ Len(Answers!GlobbedTexts) <= MaxResults =>
                 \A f \in DOMAIN s1.files :
                     s1.files[f].kind \in Answers!Texts => f \in Answers!Range(Answers!Searched)
<1>. DEFINE globbed == Answers!GlobbedTexts
            keep == {f \in DOMAIN s1.files : s1.files[f].kind \notin {"secret", "ignored"}}
            all == Answers!Those(globbed, keep)
<1>1. /\ globbed \in Seq(Nat) /\ Len(globbed) \in Nat /\ MaxResults \in Nat
      /\ Answers!Range(globbed) \subseteq DOMAIN s1.files
      /\ \A f \in DOMAIN s1.files :
            s1.files[f].kind \in Answers!Texts => f \in Answers!Range(globbed)
  BY GlobbedTextsAre, AnswersAssumption
<1>2. Answers!Searched = Answers!First(all, MaxResults)
  BY DEF Answers!Searched
<1>3. \A f \in DOMAIN s1.files : s1.files[f].kind \in Answers!Texts => f \in keep
  BY DEF Answers!Texts
<1>. HIDE DEF globbed, keep
<1>4. /\ all \in Seq(Nat) /\ Answers!Range(all) = Answers!Range(globbed) \cap keep
      /\ Len(all) <= Len(globbed) /\ Len(all) \in Nat
  <2>1. all \in Seq(Nat) /\ Answers!Range(all) = Answers!Range(globbed) \cap keep
        /\ Len(all) <= Len(globbed)
    BY <1>1, ThoseAre
  <2>. HIDE DEF all
  <2>. QED BY <2>1
<1>. HIDE DEF all
<1>5. /\ Answers!First(all, MaxResults) \in Seq(Nat)
      /\ Answers!Range(Answers!First(all, MaxResults)) \subseteq Answers!Range(all)
      /\ Len(globbed) <= MaxResults => Answers!First(all, MaxResults) = all
  BY <1>1, <1>4, FirstIs
<1>. QED BY <1>1, <1>2, <1>3, <1>4, <1>5 DEF globbed

LEMMA NothingIsFound ==
    ASSUME s1 \in Answers!Requests, s1.is = "search"
    PROVE  Answers!NothingFound \in FoundRec /\ IsFound(Answers!NothingFound, {})
<1>. DEFINE base == Answers!NothingFound
<1>1. base = [lines |-> <<>>, matchCount |-> 0, truncated |-> Len(Answers!GlobbedTexts) > MaxResults,
              stopped |-> FALSE]
  BY DEF Answers!NothingFound
<1>2. /\ Len(Answers!GlobbedTexts) \in Nat /\ MaxResults \in Nat /\ s1.limit \in Nat
      /\ (Len(Answers!GlobbedTexts) > MaxResults) \in BOOLEAN /\ <<>> \in Seq(ShownLine)
  BY SearchRequest, GlobbedTextsAre, AnswersAssumption
<1>. HIDE DEF base
<1>3. base \in FoundRec
  BY <1>1, <1>2 DEF FoundRec
<1>4. HitsIn(base.lines) = {} /\ IsFiniteSet({}) /\ Cardinality({}) = 0
  BY <1>1, HitsOfNothing, FS_EmptySet
<1>5. base.matchCount = 0 /\ base.stopped = FALSE /\ base.truncated = (Len(Answers!GlobbedTexts) > MaxResults)
  BY <1>1
<1>6. base.matchCount <= s1.limit /\ Cardinality(HitsIn(base.lines)) <= base.matchCount
  BY <1>2, <1>4, <1>5
<1>7. ~base.truncated => Len(Answers!GlobbedTexts) <= MaxResults
  <2>1. ~(Len(Answers!GlobbedTexts) > MaxResults) => Len(Answers!GlobbedTexts) <= MaxResults
    <3>. DEFINE n == Len(Answers!GlobbedTexts)
    <3>1. n \in Nat
      BY <1>2
    <3>. HIDE DEF n
    <3>2. ~(n > MaxResults) => n <= MaxResults
      BY <1>2, <3>1, SMT
    <3>. QED BY <3>2, Zenon DEF n
  <2>. QED BY <1>5, <2>1, Zenon
<1>8. IsWhole(base.lines)
  BY <1>1 DEF IsWhole
<1>. QED BY <1>3, <1>4, <1>5, <1>6, <1>7, <1>8 DEF IsFound, base

LEMMA FoundIs ==
    ASSUME s1 \in Answers!Requests, s1.is = "search"
    PROVE  \E g \in [0..Len(Answers!Searched) -> FoundRec] :
              Searches(g, Answers!Searched) /\ Answers!Found = g[Len(Answers!Searched)]
<1>. DEFINE list == Answers!Searched
            n == Len(list)
            base == Answers!NothingFound
            h == [x \in (1..n) \X FoundRec |-> Answers!SearchFile(x[2], list[x[1]])]
            Steps(g) == [i \in 0..n |-> IF i = 0 THEN base
                                        ELSE Answers!SearchFile(g[i - 1], list[i])]
<1>1. list \in Seq(Nat) /\ n \in Nat /\ \A i \in 1..n : list[i] \in DOMAIN s1.files
  <2>1. list \in Seq(Nat) /\ Answers!Range(list) \subseteq DOMAIN s1.files
    BY SearchedIs
  <2>. HIDE DEF list
  <2>2. n \in Nat /\ DOMAIN list = 1..n
    BY <2>1
  <2>. QED BY <2>1, <2>2 DEF Answers!Range
<1>. HIDE DEF list
<1>2. h \in [(1..n) \X FoundRec -> FoundRec]
  <2>1. \A x \in (1..n) \X FoundRec : Answers!SearchFile(x[2], list[x[1]]) \in FoundRec
    <3>. SUFFICES ASSUME NEW x \in (1..n) \X FoundRec
                  PROVE  Answers!SearchFile(x[2], list[x[1]]) \in FoundRec
      OBVIOUS
    <3>1. x[2] \in FoundRec /\ list[x[1]] \in DOMAIN s1.files
      BY <1>1
    <3>. QED BY <3>1, SearchType
  <2>. QED BY <2>1
<1>3. PICK g \in [0..n -> FoundRec] : g[0] = base /\ \A i \in 1..n : g[i] = h[<<i, g[i - 1]>>]
  <2>1. IsRecursion(n, FoundRec, base, h)
    BY <1>1, <1>2, NothingIsFound DEF IsRecursion
  <2>. HIDE DEF h, n, base
  <2>2. PICK g \in [0..n -> FoundRec] : Solves(g, n, base, h)
    BY <2>1, RecursionExists
  <2>. QED BY <2>2 DEF Solves
<1>4. \A i \in 1..n : h[<<i, g[i - 1]>>] = Answers!SearchFile(g[i - 1], list[i])
  <2>1. \A i \in 1..n : <<i, g[i - 1]>> \in (1..n) \X FoundRec
    <3>1. \A i \in 1..n : i - 1 \in 0..n
      BY <1>1
    <3>. HIDE DEF n
    <3>. QED BY <1>3, <3>1
  <2>. QED BY <2>1
<1>. HIDE DEF h
<1>5. Searches(g, list)
  BY <1>3, <1>4 DEF Searches
<1>6. g = Steps(g)
  <2>1. g = [i \in 0..n |-> g[i]]
    BY <1>3
  <2>2. \A i \in 0..n : g[i] = Steps(g)[i]
    <3>1. \A i \in 0..n : i = 0 \/ i \in 1..n
      BY <1>1
    <3>. HIDE DEF n, base
    <3>. QED BY <1>3, <1>4, <3>1
  <2>. HIDE DEF n, base
  <2>. QED BY <2>1, <2>2
<1>. DEFINE k == CHOOSE f : f = Steps(f)
<1>7. k = Steps(k)
  BY <1>6
<1>8. Answers!Found = k[n]
  BY DEF Answers!Found, list
<1>9. Searches(k, list)
  <2>1. \A i \in 0..n : k[i] = Steps(k)[i]
    <3>. HIDE DEF k, n
    <3>. QED BY <1>7
  <2>2. 0 \in 0..n /\ \A i \in 1..n : i \in 0..n /\ i # 0
    BY <1>1
  <2>. HIDE DEF k
  <2>. QED BY <2>1, <2>2 DEF Searches
<1>10. k[n] = g[n]
  <2>. HIDE DEF k
  <2>. QED BY <1>1, <1>5, <1>9, SearchesOne
<1>. QED BY <1>5, <1>8, <1>10 DEF list

LEMMA AllAreFound ==
    ASSUME s1 \in Answers!Requests, s1.is = "search"
    PROVE  IsFound(Answers!Found, Answers!Range(Answers!Searched))
<1>. DEFINE list == Answers!Searched
            n == Len(list)
            Upto(i) == {list[j] : j \in 1..i}
<1>1. /\ list \in Seq(Nat) /\ n \in Nat /\ (\A i \in 1..n : list[i] \in DOMAIN s1.files)
      /\ Answers!Range(list) = Upto(n)
  <2>1. list \in Seq(Nat) /\ Answers!Range(list) \subseteq DOMAIN s1.files
    BY SearchedIs
  <2>. HIDE DEF list
  <2>2. n \in Nat /\ DOMAIN list = 1..n
    BY <2>1
  <2>. QED BY <2>1, <2>2 DEF Answers!Range
<1>2. PICK g \in [0..n -> FoundRec] : Searches(g, list) /\ Answers!Found = g[n]
  BY FoundIs
<1>. HIDE DEF list
<1>. DEFINE S == {i \in Nat : i <= n => IsFound(g[i], Upto(i))}
<1>3. 0 \in S
  <2>1. Upto(0) = {}
    OBVIOUS
  <2>. HIDE DEF Upto
  <2>. QED BY <1>2, <2>1, NothingIsFound DEF Searches
<1>4. ASSUME NEW i \in S PROVE i + 1 \in S
  <2>. SUFFICES ASSUME i + 1 <= n PROVE IsFound(g[i + 1], Upto(i + 1))
    OBVIOUS
  <2>1. i + 1 \in 1..n /\ (i + 1) - 1 = i /\ IsFound(g[i], Upto(i))
    BY <1>1
  <2>2. Upto(i + 1) = Upto(i) \cup {list[i + 1]}
    <3>1. 1..(i + 1) = (1..i) \cup {i + 1}
      OBVIOUS
    <3>. QED BY <3>1
  <2>. HIDE DEF Upto, S
  <2>3. g[i + 1] = Answers!SearchFile(g[i], list[i + 1])
    BY <1>2, <2>1 DEF Searches
  <2>4. list[i + 1] \in DOMAIN s1.files
    BY <1>1, <2>1
  <2>5. IsFound(Answers!SearchFile(g[i], list[i + 1]), Upto(i) \cup {list[i + 1]})
    BY <2>1, <2>4, SearchStep
  <2>. QED BY <2>2, <2>3, <2>5
<1>5. S = Nat
  <2>1. S \in SUBSET Nat
    OBVIOUS
  <2>. HIDE DEF S
  <2>. QED BY <1>3, <1>4, <2>1, Induction
<1>6. IsFound(g[n], Upto(n))
  <2>1. n \in S
    <3>. HIDE DEF S, n
    <3>. QED BY <1>1, <1>5
  <2>. HIDE DEF Upto
  <2>. QED BY <1>1, <2>1
<1>. HIDE DEF Upto
<1>. QED BY <1>1, <1>2, <1>6 DEF list

LEMMA ToldIs ==
    ASSUME s1.is = "search"
    PROVE  Answers!Asked = AllHits /\ Answers!Told = HitsIn(s2.shown)
BY DEF Answers!Asked, Answers!Told, AllHits, HitsIn

\* The same for the answer just given.
LEMMA ToldNext ==
    ASSUME s1.is = "search", s1' = s1, NEW lines \in Seq(ShownLine), s2'.shown = Answers!Cut(lines)
    PROVE  /\ Answers!Asked' = AllHits /\ Answers!Told' = HitsIn(Answers!Cut(lines))
           /\ HitsIn(Answers!Cut(lines)) \subseteq HitsIn(lines)
           /\ Len(lines) <= AnswerOutput => HitsIn(Answers!Cut(lines)) = HitsIn(lines)
           /\ IsWhole(lines) => IsWhole(Answers!Cut(lines))
<1>1. Answers!Asked' = AllHits /\ Answers!Told' = HitsIn(s2'.shown)
  BY DEF Answers!Asked, Answers!Told, AllHits, HitsIn
<1>2. Answers!Cut(lines) = Answers!First(lines, AnswerOutput) /\ AnswerOutput \in Nat
  BY CutIs, AnswersAssumption
<1>. QED BY <1>1, <1>2, HitsOfFirst

LEMMA SearchIsTold ==
    ASSUME s1 \in Answers!Requests, Answers!SearchWorkspaceText PROVE Answers!CutIsTold'
<1>. DEFINE found == Answers!Found
            shown == Answers!Cut(found.lines)
            truncated == found.truncated \/ Len(found.lines) > AnswerOutput
<1>1. s1.is = "search" /\ s1.ripgrep = "missing" /\ Answers!Answer(shown, truncated)
  BY DEF Answers!SearchWorkspaceText
<1>2. s1' = s1 /\ s2'.is = "answer" /\ s2'.shown = shown /\ s2'.truncated = truncated
  <2>. HIDE DEF shown, truncated
  <2>. QED BY <1>1, AnswerIs
<1>3. IsFound(found, Answers!Range(Answers!Searched))
  BY <1>1, AllAreFound
<1>. HIDE DEF found
<1>4. found.lines \in Seq(ShownLine) /\ Len(found.lines) \in Nat /\ found.matchCount \in Nat
  BY <1>3 DEF IsFound, FoundRec
<1>5. /\ Answers!Asked' = AllHits /\ Answers!Told' = HitsIn(shown)
      /\ HitsIn(shown) \subseteq HitsIn(found.lines)
      /\ Len(found.lines) <= AnswerOutput => HitsIn(shown) = HitsIn(found.lines)
      /\ IsWhole(found.lines) => IsWhole(shown)
  BY <1>1, <1>2, <1>4, ToldNext
<1>. HIDE DEF shown
<1>6. HitsIn(shown) \subseteq AllHits /\ Cardinality(HitsIn(shown)) <= s1.limit
  <2>1. /\ HitsIn(found.lines) \subseteq AllHits /\ IsFiniteSet(HitsIn(found.lines))
        /\ Cardinality(HitsIn(found.lines)) <= found.matchCount /\ found.matchCount <= s1.limit
    BY <1>3 DEF IsFound
  <2>2. /\ IsFiniteSet(HitsIn(shown))
        /\ Cardinality(HitsIn(shown)) <= Cardinality(HitsIn(found.lines))
    BY <1>5, <2>1, FS_Subset
  <2>3. /\ Cardinality(HitsIn(shown)) \in Nat /\ Cardinality(HitsIn(found.lines)) \in Nat
        /\ s1.limit \in Nat
    BY <1>1, <2>1, <2>2, FS_CardinalityType, SearchRequest
  <2>. QED BY <1>4, <1>5, <2>1, <2>2, <2>3
<1>7. ~truncated => SeenHits \subseteq HitsIn(shown)
  <2>. SUFFICES ASSUME ~truncated, NEW h \in SeenHits PROVE h \in HitsIn(shown)
    OBVIOUS
  <2>1. ~found.truncated /\ HitsIn(shown) = HitsIn(found.lines)
    BY <1>4, <1>5, AnswersAssumption
  <2>2. /\ Len(Answers!GlobbedTexts) <= MaxResults
        /\ \A x \in SeenHits : x[1] \in Answers!Range(Answers!Searched) => x \in HitsIn(found.lines)
    BY <1>3, <2>1 DEF IsFound
  <2>3. h[1] \in DOMAIN s1.files /\ s1.files[h[1]].kind \in Answers!Texts
    BY DEF SeenHits, AllHits
  <2>4. h[1] \in Answers!Range(Answers!Searched)
    BY <1>1, <2>2, <2>3, SearchedIs
  <2>. QED BY <2>1, <2>2, <2>4
<1>8. Answers!Cardinality(HitsIn(shown)) <= s1.limit
  BY <1>6, CountIs
<1>. HIDE DEF truncated
<1>9. /\ Answers!Asked' = AllHits /\ Answers!Told' = HitsIn(shown)
      /\ s1' = s1 /\ s1.is = "search" /\ s1.ripgrep = "missing" /\ s2'.truncated = truncated
  BY <1>1, <1>2, <1>5
<1>10. Answers!Cardinality(Answers!Told)' = Answers!Cardinality(HitsIn(shown))
  BY <1>9, CountIs
<1>11. IsWhole(shown)
  BY <1>3, <1>5 DEF IsFound
<1>12. ~truncated => Answers!Asked' \ Answers!Untold' \subseteq HitsIn(shown)
  <2>. SUFFICES ASSUME ~truncated, NEW h \in AllHits, h \notin Answers!Untold' PROVE h \in HitsIn(shown)
    BY <1>9
  <2>1. Answers!Untold' = {x \in AllHits : s1.files[x[1]].kind \in Answers!Passed}
    BY <1>9 DEF Answers!Untold
  <2>2. h \in SeenHits
    BY <2>1 DEF SeenHits, AllHits
  <2>. QED BY <1>7, <2>2
<1>. HIDE DEF shown
<1>13. \A i \in DOMAIN s2'.shown : s2'.shown[i].whole \/ s1'.files[s2'.shown[i].file].kind = "wide"
  BY <1>2, <1>11 DEF IsWhole
<1>. QED BY <1>6, <1>8, <1>9, <1>10, <1>12, <1>13 DEF Answers!CutIsTold

-----------------------------------------------------------------------------
(* Ripgrep *)

Printed(f) == Answers!RenderHits(f, s1.limit, FALSE).lines
\* What ripgrep has printed after the first i files.
Prints(g, list) ==
    g[0] = <<>> /\ \A i \in 1..Len(list) : g[i] = g[i - 1] \o Printed(list[i])

LEMMA PrintsOne ==
    ASSUME NEW list, Len(list) \in Nat, NEW f, NEW g, Prints(f, list), Prints(g, list)
    PROVE  \A i \in 0..Len(list) : f[i] = g[i]
<1>. DEFINE S == {i \in Nat : i <= Len(list) => f[i] = g[i]}
<1>1. 0 \in S
  BY DEF Prints
<1>2. ASSUME NEW i \in S PROVE i + 1 \in S
  <2>. SUFFICES ASSUME i + 1 <= Len(list) PROVE f[i + 1] = g[i + 1]
    OBVIOUS
  <2>1. i + 1 \in 1..Len(list) /\ (i + 1) - 1 = i /\ f[i] = g[i]
    OBVIOUS
  <2>. QED BY <2>1 DEF Prints
<1>3. S = Nat
  <2>1. S \in SUBSET Nat
    OBVIOUS
  <2>. HIDE DEF S
  <2>. QED BY <1>1, <1>2, <2>1, Induction
<1>. QED BY <1>3

LEMMA PrintedIs ==
    ASSUME s1 \in Answers!Requests, s1.is = "search", NEW f \in DOMAIN s1.files
    PROVE  /\ Printed(f) \in Seq(ShownLine) /\ IsWhole(Printed(f))
           /\ Cardinality(Matching(f)) <= s1.limit => HitsIn(Printed(f)) = {f} \X Matching(f)
<1>1. s1.limit \in Nat
  BY SearchRequest
<1>. QED BY <1>1, RenderIs DEF Printed

LEMMA RipgrepFilesAre ==
    ASSUME s1 \in Answers!Requests, s1.is = "search"
    PROVE  /\ Answers!RipgrepFiles \in Seq(Nat)
           /\ Answers!Range(Answers!RipgrepFiles) \subseteq DOMAIN s1.files
           /\ Answers!CanReadAll =>
                 \A h \in AllHits : h[1] \in Answers!Range(Answers!RipgrepFiles)
<1>. DEFINE n == Len(s1.files)
            keep == {f \in DOMAIN s1.files :
                        s1.files[f].kind \in Answers!Texts \cup {"deep", "large", "secret"}}
<1>1. n \in Nat /\ DOMAIN s1.files = 1..n
  BY SearchRequest
<1>2. Answers!RipgrepFiles = Answers!Those(Answers!Numbers(n), keep)
  BY DEF Answers!RipgrepFiles
<1>3. ASSUME Answers!CanReadAll, NEW h \in AllHits PROVE h[1] \in keep
  <2>1. h[1] \in DOMAIN s1.files /\ s1.files[h[1]].kind \in Answers!Texts \cup Answers!Passed
    BY DEF AllHits
  <2>2. s1.files[h[1]].kind \notin {"closed", "unreadable"}
    BY <1>3, <2>1 DEF Answers!CanReadAll
  <2>. QED BY <2>1, <2>2 DEF Answers!Passed
<1>a. \A h \in AllHits : h[1] \in DOMAIN s1.files
  BY DEF AllHits
<1>. HIDE DEF n, keep
<1>4. /\ Answers!Those(Answers!Numbers(n), keep) \in Seq(Nat)
      /\ Answers!Range(Answers!Those(Answers!Numbers(n), keep)) = (1..n) \cap keep
  BY <1>1, ThoseNumbers
<1>. QED BY <1>1, <1>2, <1>3, <1>4, <1>a

LEMMA RipgrepLinesAre ==
    ASSUME s1 \in Answers!Requests, s1.is = "search"
    PROVE  \E g \in [0..Len(Answers!RipgrepFiles) -> Seq(ShownLine)] :
              /\ Prints(g, Answers!RipgrepFiles)
              /\ Answers!RipgrepLines = g[Len(Answers!RipgrepFiles)]
<1>. DEFINE list == Answers!RipgrepFiles
            n == Len(list)
            T == Seq(ShownLine)
            h == [x \in (1..n) \X T |-> x[2] \o Printed(list[x[1]])]
            Steps(g) == [i \in 0..n |-> IF i = 0 THEN <<>> ELSE g[i - 1] \o Printed(list[i])]
<1>1. list \in Seq(Nat) /\ n \in Nat /\ \A i \in 1..n : list[i] \in DOMAIN s1.files
  <2>1. list \in Seq(Nat) /\ Answers!Range(list) \subseteq DOMAIN s1.files
    BY RipgrepFilesAre
  <2>. HIDE DEF list
  <2>2. n \in Nat /\ DOMAIN list = 1..n
    BY <2>1
  <2>. QED BY <2>1, <2>2 DEF Answers!Range
<1>. HIDE DEF list
<1>2. h \in [(1..n) \X T -> T] /\ <<>> \in T
  <2>1. \A x \in (1..n) \X T : x[2] \o Printed(list[x[1]]) \in T
    <3>. SUFFICES ASSUME NEW x \in (1..n) \X T PROVE x[2] \o Printed(list[x[1]]) \in T
      OBVIOUS
    <3>1. x[2] \in T /\ list[x[1]] \in DOMAIN s1.files
      BY <1>1
    <3>2. Printed(list[x[1]]) \in T
      BY <3>1, PrintedIs
    <3>. QED BY <3>1, <3>2
  <2>. QED BY <2>1
<1>. HIDE DEF T
<1>3. PICK g \in [0..n -> T] : g[0] = <<>> /\ \A i \in 1..n : g[i] = h[<<i, g[i - 1]>>]
  <2>1. IsRecursion(n, T, <<>>, h)
    BY <1>1, <1>2 DEF IsRecursion
  <2>. HIDE DEF h, n
  <2>2. PICK g \in [0..n -> T] : Solves(g, n, <<>>, h)
    BY <2>1, RecursionExists
  <2>. QED BY <2>2 DEF Solves
<1>4. \A i \in 1..n : h[<<i, g[i - 1]>>] = g[i - 1] \o Printed(list[i])
  <2>1. \A i \in 1..n : <<i, g[i - 1]>> \in (1..n) \X T
    <3>1. \A i \in 1..n : i - 1 \in 0..n
      BY <1>1
    <3>. HIDE DEF n
    <3>. QED BY <1>3, <3>1
  <2>. QED BY <2>1
<1>. HIDE DEF h
<1>5. Prints(g, list)
  BY <1>3, <1>4 DEF Prints
<1>6. g = Steps(g)
  <2>1. g = [i \in 0..n |-> g[i]]
    BY <1>3
  <2>2. \A i \in 0..n : g[i] = Steps(g)[i]
    <3>1. \A i \in 0..n : i = 0 \/ i \in 1..n
      BY <1>1
    <3>. HIDE DEF n
    <3>. QED BY <1>3, <1>4, <3>1
  <2>. HIDE DEF n
  <2>. QED BY <2>1, <2>2
<1>. DEFINE k == CHOOSE f : f = Steps(f)
<1>7. k = Steps(k)
  BY <1>6
<1>8. Answers!RipgrepLines = k[n]
  BY DEF Answers!RipgrepLines, Printed, list
<1>9. Prints(k, list)
  <2>1. \A i \in 0..n : k[i] = Steps(k)[i]
    <3>. HIDE DEF k, n
    <3>. QED BY <1>7
  <2>2. 0 \in 0..n /\ \A i \in 1..n : i \in 0..n /\ i # 0
    BY <1>1
  <2>. HIDE DEF k
  <2>. QED BY <2>1, <2>2 DEF Prints
<1>10. k[n] = g[n]
  <2>. HIDE DEF k
  <2>. QED BY <1>1, <1>5, <1>9, PrintsOne
<1>. QED BY <1>5, <1>8, <1>10 DEF list, T


\* The hits of a file that has no more than the limit.
FewHits == {h \in AllHits : Cardinality(Matching(h[1])) <= s1.limit}
\* Ripgrep prints them all, and every line whole.
LEMMA AllArePrinted ==
    ASSUME s1 \in Answers!Requests, s1.is = "search", Answers!CanReadAll
    PROVE  /\ Answers!RipgrepLines \in Seq(ShownLine) /\ IsWhole(Answers!RipgrepLines)
           /\ FewHits \subseteq HitsIn(Answers!RipgrepLines)
<1>. DEFINE list == Answers!RipgrepFiles
            n == Len(list)
            T == Seq(ShownLine)
<1>1. /\ list \in Seq(Nat) /\ n \in Nat /\ DOMAIN list = 1..n
      /\ \A i \in 1..n : list[i] \in DOMAIN s1.files
  <2>1. list \in Seq(Nat) /\ Answers!Range(list) \subseteq DOMAIN s1.files
    BY RipgrepFilesAre
  <2>. HIDE DEF list
  <2>2. n \in Nat /\ DOMAIN list = 1..n
    BY <2>1
  <2>. QED BY <2>1, <2>2 DEF Answers!Range
<1>2. PICK g \in [0..n -> T] : Prints(g, list) /\ Answers!RipgrepLines = g[n]
  BY RipgrepLinesAre
<1>3. \A h \in AllHits : h[1] \in Answers!Range(list)
  BY RipgrepFilesAre
<1>. HIDE DEF list
<1>. DEFINE Known(i) == /\ IsWhole(g[i])
                        /\ \A h \in FewHits : (\E j \in 1..i : h[1] = list[j]) => h \in HitsIn(g[i])
            S == {i \in Nat : i <= n => Known(i)}
<1>4. 0 \in S
  BY <1>2 DEF Prints, IsWhole
<1>5. ASSUME NEW i \in S PROVE i + 1 \in S
  <2>. SUFFICES ASSUME i + 1 <= n PROVE Known(i + 1)
    OBVIOUS
  <2>1. i + 1 \in 1..n /\ (i + 1) - 1 = i /\ i \in 0..n /\ Known(i)
    BY <1>1
  <2>2. g[i + 1] = g[i] \o Printed(list[i + 1]) /\ list[i + 1] \in DOMAIN s1.files
    BY <1>1, <1>2, <2>1 DEF Prints
  <2>3. /\ g[i] \in Seq(ShownLine) /\ Printed(list[i + 1]) \in Seq(ShownLine)
        /\ IsWhole(Printed(list[i + 1]))
    BY <1>2, <2>1, <2>2, PrintedIs
  <2>4. HitsIn(g[i + 1]) = HitsIn(g[i]) \cup HitsIn(Printed(list[i + 1]))
    BY <2>2, <2>3, HitsOfTwo
  <2>a. IsWhole(g[i + 1])
    BY <2>1, <2>2, <2>3, WholeOfTwo
  <2>. SUFFICES ASSUME NEW h \in FewHits, NEW j \in 1..(i + 1), h[1] = list[j]
                PROVE  h \in HitsIn(g[i + 1])
    BY <2>a
  <2>5. CASE j \in 1..i
    BY <2>1, <2>4, <2>5
  <2>6. CASE j = i + 1
    <3>1. /\ h[1] \in DOMAIN s1.files /\ Cardinality(Matching(h[1])) <= s1.limit
          /\ h[2] \in Matching(h[1]) /\ h = <<h[1], h[2]>>
      <4>1. h \in AllHits /\ Cardinality(Matching(h[1])) <= s1.limit
        BY DEF FewHits
      <4>. QED BY <4>1 DEF AllHits, Matching
    <3>2. HitsIn(Printed(h[1])) = {h[1]} \X Matching(h[1])
      BY <3>1, PrintedIs
    <3>3. h \in {h[1]} \X Matching(h[1])
      BY <3>1
    <3>4. Printed(h[1]) = Printed(list[i + 1])
      BY <2>6
    <3>. QED BY <2>4, <3>2, <3>3, <3>4, Zenon
  <2>7. j \in 1..i \/ j = i + 1
    BY <2>1
  <2>. QED BY <2>5, <2>6, <2>7
<1>6. S = Nat
  <2>1. S \in SUBSET Nat
    OBVIOUS
  <2>. HIDE DEF S
  <2>. QED BY <1>4, <1>5, <2>1, Induction
<1>7. Known(n)
  <2>1. n \in S
    <3>. HIDE DEF S, n
    <3>. QED BY <1>1, <1>6
  <2>. HIDE DEF Known
  <2>. QED BY <1>1, <2>1
<1>8. ASSUME NEW h \in FewHits PROVE h \in HitsIn(g[n])
  <2>1. h \in AllHits
    BY DEF FewHits
  <2>2. \E j \in 1..n : h[1] = list[j]
    BY <1>1, <1>3, <2>1 DEF Answers!Range
  <2>. QED BY <1>7, <2>2
<1>9. g[n] \in T
  BY <1>1, <1>2
<1>. QED BY <1>2, <1>7, <1>8, <1>9

LEMMA RipgrepIsTold ==
    ASSUME s1 \in Answers!Requests, Answers!RipgrepSearch PROVE Answers!CutIsTold'
<1>. DEFINE lines == Answers!RipgrepLines
            shown == Answers!Cut(lines)
            truncated == Len(lines) > AnswerOutput
            many == {h \in AllHits : Answers!Cardinality(s1.files[h[1]].hits) > s1.limit}
<1>1. /\ s1.is = "search" /\ s1.ripgrep = "found" /\ Answers!CanReadAll
      /\ Answers!Answer(shown, truncated)
  BY DEF Answers!RipgrepSearch
<1>2. s1' = s1 /\ s2'.is = "answer" /\ s2'.shown = shown /\ s2'.truncated = truncated
  <2>. HIDE DEF shown, truncated
  <2>. QED BY <1>1, AnswerIs
<1>3. lines \in Seq(ShownLine) /\ IsWhole(lines) /\ FewHits \subseteq HitsIn(lines)
  BY <1>1, AllArePrinted
<1>. HIDE DEF lines
<1>4. AllHits \ many \subseteq FewHits
  <2>. SUFFICES ASSUME NEW h \in AllHits, h \notin many PROVE h \in FewHits
    OBVIOUS
  <2>1. h[1] \in DOMAIN s1.files /\ ~(Answers!Cardinality(s1.files[h[1]].hits) > s1.limit)
    BY DEF AllHits
  <2>2. s1.files[h[1]].hits \subseteq 1..AnswerLines /\ s1.limit \in Nat
    BY <1>1, <2>1, SearchRequest
  <2>3. Matching(h[1]) = s1.files[h[1]].hits
    BY <2>2 DEF Matching
  <2>4. ~(Cardinality(Matching(h[1])) > s1.limit)
    BY <2>1, <2>3, CountIs
  <2>5. 1 \in Int /\ AnswerLines \in Int
    BY AnswersAssumption
  <2>6. Cardinality(Matching(h[1])) \in Nat
    BY <2>2, <2>3, <2>5, FS_Interval, FS_Subset, FS_CardinalityType
  <2>7. Cardinality(Matching(h[1])) <= s1.limit
    BY <2>2, <2>4, <2>6
  <2>. QED BY <2>7 DEF FewHits
<1>5. /\ Answers!Asked' = AllHits /\ Answers!Told' = HitsIn(shown)
      /\ Len(lines) <= AnswerOutput => HitsIn(shown) = HitsIn(lines)
      /\ IsWhole(shown)
  BY <1>1, <1>2, <1>3, ToldNext
<1>6. ~truncated => Len(lines) <= AnswerOutput
  BY <1>3, AnswersAssumption
<1>7. truncated \/ AllHits \ many \subseteq HitsIn(shown)
  <2>. HIDE DEF many, truncated, shown
  <2>. QED BY <1>3, <1>4, <1>5, <1>6
<1>8. Answers!Untold' = many
  <2>1. \A h : Answers!Cardinality(s1.files[h[1]].hits)' = Answers!Cardinality(s1.files[h[1]].hits)
    BY <1>2, CountIs
  <2>. QED BY <1>1, <1>2, <1>5, <2>1 DEF Answers!Untold
<1>. HIDE DEF many, truncated, shown
<1>9. s1'.is = "search" /\ s1'.ripgrep = "found"
  BY <1>1, <1>2
<1>10. \A i \in DOMAIN s2'.shown : s2'.shown[i].whole \/ s1'.files[s2'.shown[i].file].kind = "wide"
  BY <1>2, <1>5 DEF IsWhole
<1>. QED BY <1>2, <1>5, <1>7, <1>8, <1>9, <1>10 DEF Answers!CutIsTold

LEMMA AnswersInitInv ==
    Answers!AnswersInit => s1 \in Answers!Requests /\ Answers!CutIsTold
BY DEF Answers!AnswersInit, Answers!CutIsTold

LEMMA AnswerStays ==
    ASSUME Answers!CutIsTold, s1' = s1, s2' = s2 PROVE Answers!CutIsTold'
<1>1. Answers!Asked' = Answers!Asked
  BY DEF Answers!Asked, Answers!ReadStart
<1>2. Answers!Told' = Answers!Told
  BY DEF Answers!Told
<1>3. Answers!Cardinality(Answers!Told)' = Answers!Cardinality(Answers!Told)
  BY <1>2, CountIs
<1>4. Answers!Untold' = Answers!Untold
  BY <1>1, CountIs DEF Answers!Untold, Answers!Globbed
<1>. QED BY <1>1, <1>2, <1>3, <1>4 DEF Answers!CutIsTold

LEMMA AnswersStep ==
    ASSUME s1 \in Answers!Requests, Answers!AnswersNext
    PROVE  s1' \in Answers!Requests /\ Answers!CutIsTold'
<1>1. CASE Answers!ReadFile
  BY <1>1, ReadIsTold DEF Answers!ReadFile, Answers!Answer
<1>2. CASE Answers!ListFiles
  BY <1>2, ListIsTold DEF Answers!ListFiles, Answers!Answer
<1>3. CASE Answers!SearchWorkspaceText
  BY <1>3, SearchIsTold DEF Answers!SearchWorkspaceText, Answers!Answer
<1>4. CASE Answers!RipgrepSearch
  BY <1>4, RipgrepIsTold DEF Answers!RipgrepSearch, Answers!Answer
<1>5. CASE Answers!RipgrepFails
  BY <1>5 DEF Answers!RipgrepFails, Answers!CutIsTold
<1>. QED BY <1>1, <1>2, <1>3, <1>4, <1>5 DEF Answers!AnswersNext

\* Whatever the workspace and the limits: what a tool answers without the word truncated is all
\* that was asked for but what Untold names, and it names nothing that is not
\* there.  (read_file, list_files, search_files, searchWorkspaceText, ripgrepSearch, renderHits)
THEOREM CutsAreTold == PartsSpec => []CutIsTold
<1>. DEFINE Inv == part = "answers" => s1 \in Answers!Requests /\ Answers!CutIsTold
<1>1. PartsInit => Inv
  BY AnswersInitInv DEF PartsInit
<1>2. ASSUME Inv, [PartsNext]_partsVars PROVE Inv'
  <2>1. CASE part = "answers" /\ Answers!AnswersNext
    BY <1>2, <2>1, AnswersStep
  <2>2. CASE UNCHANGED partsVars
    BY <1>2, <2>2, AnswerStays DEF partsVars
  <2>3. CASE part # "answers"
    BY <1>2, <2>3, PartStays
  <2>4. \/ part = "answers" /\ Answers!AnswersNext
        \/ UNCHANGED partsVars
        \/ part # "answers"
    BY <1>2 DEF PartsNext
  <2>. QED BY <2>1, <2>2, <2>3, <2>4
<1>3. Inv => CutIsTold
  BY DEF CutIsTold
<1>. QED BY <1>1, <1>2, <1>3, PTL DEF PartsSpec
=============================================================================
