----------------------------- MODULE FileProofs -----------------------------
(***************************************************************************)
(* What SnapshotFile writes it reads back: lemmas about the format of      *)
(* snapshots (src/snapshot.rs), for snapshots of any size.                 *)
(***************************************************************************)
EXTENDS SnapshotFile, FiniteSetTheorems, TLAPS

\* The fields of w are in data from position p on.
IsSequence(xs) == \E X : xs \in Seq(X)
Lies(data, p, w) ==
  /\ IsSequence(data)
  /\ p \in Nat \ {0} /\ Len(data) \in Nat /\ DOMAIN data = 1..Len(data)
  /\ p + Len(w) <= Len(data) + 1
  /\ \A k \in 1..Len(w) : data[p + k - 1] = w[k]

-----------------------------------------------------------------------------
(* Loops.                                                                  *)

\* What holds at 0 and goes from one number to the next holds up to n.
LEMMA StepByStep ==
  ASSUME NEW n \in Nat, NEW Z, 0 \in Z, \A k \in 1..n : k - 1 \in Z => k \in Z
  PROVE  \A k \in 0..n : k \in Z
<1> DEFINE Bad == {k \in 0..n : k \notin Z}
<1>1. CASE Bad = {}
  BY <1>1
<1>2. CASE Bad # {}
  <2>1. PICK m \in Bad : \A k \in Bad : <<k, m>> \notin OpToRel(<, Nat)
    <3>1. Bad \subseteq Nat
      OBVIOUS
    <3> QED
      BY <1>2, <3>1, NatLessThanWellFounded, WFMin
  <2>2. m \in 1..n /\ m - 1 \in 0..n /\ m - 1 \in Nat /\ m \in Nat /\ m - 1 < m
    OBVIOUS
  <2>3. m - 1 \in Z => m \in Z
    BY <2>2
  <2>4. m - 1 \in Bad
    BY <2>2, <2>3
  <2>5. <<m - 1, m>> \in OpToRel(<, Nat)
    BY <2>2 DEF OpToRel
  <2> QED
    BY <2>1, <2>4, <2>5
<1> QED
  BY <1>1, <1>2

GoAlike(f, g, n) == f[0] = g[0] /\ \A k \in 1..n : f[k - 1] = g[k - 1] => f[k] = g[k]
Alike(f, g, n) == \A k \in 0..n : f[k] = g[k]

\* Two recursive functions that begin alike and go on alike are alike.
LEMMA SameSteps == \A n \in Nat : \A f, g : GoAlike(f, g, n) => Alike(f, g, n)
<1> SUFFICES ASSUME NEW n \in Nat, NEW f, NEW g, GoAlike(f, g, n) PROVE Alike(f, g, n)
  OBVIOUS
<1> DEFINE Z == {k \in 0..n : f[k] = g[k]}
<1>1. 0 \in Z
  BY DEF GoAlike
<1>2. ASSUME NEW k \in 1..n, k - 1 \in Z PROVE k \in Z
  BY <1>2 DEF GoAlike
<1> HIDE DEF Z
<1>3. \A k \in 0..n : k \in Z
  BY <1>1, <1>2, StepByStep
<1> QED
  BY <1>3 DEF Z, Alike

\* Times follows a chain of positions that skip leads along.
LEMMA TimesFollows ==
  ASSUME NEW n \in Nat, NEW skip, NEW at \in [0..n -> Nat],
         \A k \in 1..n : skip[at[k - 1]] = at[k]
  PROVE  Times(n, at[0], skip) = at[n]
<1> DEFINE Eqn(f) == f = [k \in 0..n |-> IF k = 0 THEN at[0] ELSE Then(f[k - 1], skip)]
           after == CHOOSE f : Eqn(f)
<1>1. Times(n, at[0], skip) = after[n]
  BY DEF Times
<1>2. Eqn(at)
  <2>1. ASSUME NEW k \in 0..n
        PROVE  at[k] = IF k = 0 THEN at[0] ELSE Then(at[k - 1], skip)
    BY DEF Then
  <2> QED
    BY <2>1
<1>3. Eqn(after)
  <2> HIDE DEF Eqn
  <2> QED
    BY <1>2
<1> HIDE DEF after
<1>4. after[0] = at[0]
  BY <1>3
<1>5. ASSUME NEW k \in 1..n, after[k - 1] = at[k - 1] PROVE after[k] = at[k]
  BY <1>3, <1>5 DEF Then
<1>6. GoAlike(after, at, n)
  BY <1>4, <1>5 DEF GoAlike
<1>7. Alike(after, at, n)
  BY <1>6, SameSteps
<1> QED
  BY <1>1, <1>7 DEF Alike

LEMMA DoneIs ==
  /\ \A p, val : Done(p, val).at = p /\ Done(p, val).val = val
  /\ \A s, q, x : Joined(s, Done(q, x)) = Done(q, Append(s, x))
  /\ \A p \in Nat : \A s, read, k : More(Done(p, s), read, k) = Joined(s, read[k][p])
<1>1. \A p, val : Done(p, val).at = p /\ Done(p, val).val = val
  BY DEF Done
<1> QED
  BY <1>1 DEF Joined, More

\* Each reading begins where the last one ended.
Reads(n, at, read, xs) ==
  /\ n \in Nat /\ at \in [0..n -> Nat] /\ IsSequence(xs) /\ Len(xs) = n
  /\ \A k \in 1..n : read[k][at[k - 1]] = Done(at[k], xs[k])

LEMMA ReadManyReads ==
  \A n, at, read, xs : Reads(n, at, read, xs) => ReadMany(n, at[0], read) = Done(at[n], xs)
<1> SUFFICES ASSUME NEW n, NEW read, NEW at, NEW xs, Reads(n, at, read, xs)
             PROVE  ReadMany(n, at[0], read) = Done(at[n], xs)
  OBVIOUS
<1>a. /\ n \in Nat /\ at \in [0..n -> Nat] /\ Len(xs) = n
      /\ \A k \in 1..n : read[k][at[k - 1]] = Done(at[k], xs[k])
  BY DEF Reads
<1>b. PICK X : xs \in Seq(X)
  BY DEF Reads, IsSequence
<1> USE <1>a, <1>b
<1> DEFINE Eqn(f) == f = [k \in 0..n |-> IF k = 0 THEN Done(at[0], <<>>)
                                         ELSE More(f[k - 1], read, k)]
           after == CHOOSE f : Eqn(f)
           g == [k \in 0..n |-> Done(at[k], SubSeq(xs, 1, k))]
<1>1. ReadMany(n, at[0], read) = after[n]
  BY DEF ReadMany
<1>0. g[0] = Done(at[0], <<>>)
  BY DEF Done
<1>2. ASSUME NEW k \in 1..n PROVE More(g[k - 1], read, k) = g[k]
  <2>1. k - 1 \in 0..n /\ k \in 0..n /\ at[k - 1] \in Nat
    OBVIOUS
  <2>2. g[k - 1] = Done(at[k - 1], SubSeq(xs, 1, k - 1)) /\ g[k] = Done(at[k], SubSeq(xs, 1, k))
    BY <2>1
  <2> HIDE DEF g
  <2>3. More(g[k - 1], read, k) = Joined(SubSeq(xs, 1, k - 1), read[k][at[k - 1]])
    <3>1. \A s : More(Done(at[k - 1], s), read, k) = Joined(s, read[k][at[k - 1]])
      BY <2>1, DoneIs
    <3> QED
      BY <2>2, <3>1
  <2>4. read[k][at[k - 1]] = Done(at[k], xs[k])
    OBVIOUS
  <2>5. Append(SubSeq(xs, 1, k - 1), xs[k]) = SubSeq(xs, 1, k)
    OBVIOUS
  <2>6. \A s : Joined(s, read[k][at[k - 1]]) = Done(at[k], Append(s, xs[k]))
    BY <2>4, DoneIs
  <2> QED
    BY <2>2, <2>3, <2>5, <2>6
<1>3. Eqn(g)
  <2>1. ASSUME NEW k \in 0..n
        PROVE  g[k] = IF k = 0 THEN Done(at[0], <<>>) ELSE More(g[k - 1], read, k)
    <3>1. k # 0 => k \in 1..n
      OBVIOUS
    <3> HIDE DEF g
    <3> QED
      BY <1>0, <1>2, <3>1
  <2> QED
    BY <2>1, Zenon
<1>4. Eqn(after)
  <2> HIDE DEF Eqn
  <2> QED
    BY <1>3
<1>9. g[n] = Done(at[n], xs)
  <2>1. SubSeq(xs, 1, n) = xs
    OBVIOUS
  <2>2. g[n] = Done(at[n], SubSeq(xs, 1, n))
    OBVIOUS
  <2> QED
    BY <2>1, <2>2, Zenon
<1> HIDE DEF after, g
<1>5. after[0] = g[0]
  BY <1>0, <1>4
<1>6. ASSUME NEW k \in 1..n, after[k - 1] = g[k - 1] PROVE after[k] = g[k]
  BY <1>2, <1>4, <1>6
<1>7. GoAlike(after, g, n)
  BY <1>5, <1>6 DEF GoAlike
<1>8. Alike(after, g, n)
  BY <1>7, SameSteps
<1> QED
  BY <1>1, <1>8, <1>9 DEF Alike

LEMMA EmptyList == \A S, s : s \in Seq(S) /\ Len(s) = 0 => s = <<>>
  OBVIOUS

\* h[k] is what the first k sequences of ws are when put together.
FieldLists(ws, n) == n \in Nat /\ ws \in Seq(Seq(Int)) /\ Len(ws) = n /\ \A k \in 1..n : ws[k] \in Seq(Int)
Joining(h, ws, n) ==
  /\ h \in [0..n -> Seq(Int)] /\ h[0] = <<>>
  /\ \A k \in 1..n : h[k] = h[k - 1] \o ws[k]

LEMMA JoiningExists ==
  \A ws, n : FieldLists(ws, n) => \E h : Joining(h, ws, n)
<1> SUFFICES ASSUME NEW ws, NEW n, FieldLists(ws, n) PROVE \E h : Joining(h, ws, n)
  OBVIOUS
<1>0. n \in Nat /\ \A k \in 1..n : ws[k] \in Seq(Int)
  BY DEF FieldLists
<1> DEFINE Z == {m \in 0..n : \E h : Joining(h, ws, m)}
<1>1. 0 \in Z
  <2> DEFINE h == [k \in 0..0 |-> <<>>]
  <2>1. Joining(h, ws, 0)
    BY DEF Joining
  <2> QED
    BY <1>0, <2>1
<1>2. ASSUME NEW m \in 1..n, m - 1 \in Z PROVE m \in Z
  <2>1. PICK h : Joining(h, ws, m - 1)
    BY <1>2
  <2>2. PICK last : last = h[m - 1] \o ws[m]
    OBVIOUS
  <2>3. m \in Nat \ {0} /\ m \in 0..n
    BY <1>0
  <2>4. last \in Seq(Int)
    <3>1. h[m - 1] \in Seq(Int) /\ ws[m] \in Seq(Int)
      BY <1>0, <2>1, <2>3 DEF Joining
    <3> QED
      BY <2>2, <3>1
  <2> DEFINE g == [k \in 0..m |-> IF k = m THEN last ELSE h[k]]
  <2>5. g \in [0..m -> Seq(Int)]
    BY <2>1, <2>3, <2>4 DEF Joining
  <2>6. g[m] = last /\ \A k \in 0..m - 1 : g[k] = h[k]
    BY <2>3
  <2> HIDE DEF g
  <2>7. g[0] = <<>>
    BY <2>1, <2>3, <2>6 DEF Joining
  <2>8. ASSUME NEW k \in 1..m PROVE g[k] = g[k - 1] \o ws[k]
    <3>1. CASE k = m
      <4>1. g[m - 1] = h[m - 1]
        BY <2>3, <2>6
      <4> QED
        BY <2>2, <2>6, <3>1, <4>1
    <3>2. CASE k # m
      <4>1. k \in 0..m - 1 /\ k - 1 \in 0..m - 1 /\ k \in 1..m - 1
        BY <2>3, <3>2
      <4>2. g[k] = h[k] /\ g[k - 1] = h[k - 1]
        BY <2>6, <4>1
      <4> QED
        BY <2>1, <4>1, <4>2 DEF Joining
    <3> QED
      BY <3>1, <3>2
  <2>9. Joining(g, ws, m)
    BY <2>5, <2>7, <2>8 DEF Joining
  <2> QED
    BY <2>3, <2>9
<1> HIDE DEF Z
<1>3. n \in Z
  <2>1. \A k \in 0..n : k \in Z
    BY <1>0, <1>1, <1>2, StepByStep
  <2> QED
    BY <1>0, <2>1
<1> QED
  BY <1>3 DEF Z

LEMMA FlattenJoins ==
  \A ws, n, h : FieldLists(ws, n) /\ Joining(h, ws, n) => Seqs!FlattenSeq(ws) = h[n]
<1> SUFFICES ASSUME NEW ws, NEW n, NEW h, FieldLists(ws, n), Joining(h, ws, n)
             PROVE  Seqs!FlattenSeq(ws) = h[n]
  OBVIOUS
<1>0. /\ n \in Nat /\ Len(ws) = n /\ ws \in Seq(Seq(Int))
      /\ \A k \in 1..n : ws[k] \in Seq(Int)
  BY DEF FieldLists
<1>1. CASE n = 0
  <2>1. ws = <<>>
    BY <1>0, <1>1, EmptyList
  <2> QED
    BY <1>0, <1>1, <2>1 DEF Seqs!FlattenSeq, Joining
<1>2. CASE n # 0
  <2> DEFINE Eqn(f) == f = [i \in 1..n |-> IF i = 1 THEN ws[i] ELSE f[i - 1] \o ws[i]]
             flatten == CHOOSE f : Eqn(f)
             g == [i \in 1..n |-> h[i]]
             f0 == [i \in 0..n |-> IF i = 0 THEN <<>> ELSE flatten[i]]
  <2>1. Seqs!FlattenSeq(ws) = flatten[n]
    BY <1>0, <1>2 DEF Seqs!FlattenSeq
  <2>2. ASSUME NEW i \in 1..n
        PROVE  /\ h[i] = h[i - 1] \o ws[i]
               /\ i = 1 => h[i] = ws[i]
    <3>1. h[i] = h[i - 1] \o ws[i] /\ h[0] = <<>>
      BY DEF Joining
    <3>2. <<>> \o ws[i] = ws[i]
      BY <1>0
    <3>3. i = 1 => i - 1 = 0
      OBVIOUS
    <3>4. i = 1 => h[i] = <<>> \o ws[i]
      BY <3>1, <3>3
    <3> QED
      BY <3>1, <3>2, <3>4
  <2>3. Eqn(g)
    <3>1. ASSUME NEW i \in 1..n PROVE g[i] = IF i = 1 THEN ws[i] ELSE g[i - 1] \o ws[i]
      <4>1. i # 1 => i - 1 \in 1..n
        BY <1>0
      <4>2. g[i] = h[i] /\ (i # 1 => g[i - 1] = h[i - 1])
        BY <4>1
      <4> HIDE DEF g
      <4> QED
        BY <2>2, <4>2
    <3> QED
      BY <3>1, Zenon
  <2>4. Eqn(flatten)
    <3> HIDE DEF Eqn
    <3> QED
      BY <2>3
  <2> HIDE DEF flatten
  <2>5. f0[0] = h[0]
    BY <1>0 DEF Joining
  <2>6. ASSUME NEW k \in 1..n, f0[k - 1] = h[k - 1] PROVE f0[k] = h[k]
    <3>1. f0[k] = flatten[k] /\ (k # 1 => f0[k - 1] = flatten[k - 1])
      BY <1>0
    <3>2. flatten[k] = IF k = 1 THEN ws[k] ELSE flatten[k - 1] \o ws[k]
      BY <2>4
    <3> HIDE DEF f0, Eqn
    <3> QED
      BY <2>2, <2>6, <3>1, <3>2
  <2>7. f0[n] = flatten[n]
    BY <1>0, <1>2
  <2> HIDE DEF f0
  <2>8. GoAlike(f0, h, n)
    BY <2>5, <2>6 DEF GoAlike
  <2>9. f0[n] = h[n]
    BY <1>0, <2>8, SameSteps DEF Alike
  <2> QED
    BY <2>1, <2>7, <2>9
<1> QED
  BY <1>1, <1>2

\* cut[k] fields of flat are the first k sequences of ws.
IsCut(cut, ws, flat) ==
  /\ cut \in [0..Len(ws) -> Nat] /\ cut[0] = 0 /\ cut[Len(ws)] = Len(flat)
  /\ \A k \in 1..Len(ws) :
       /\ cut[k] = cut[k - 1] + Len(ws[k]) /\ cut[k] <= Len(flat)
       /\ \A j \in 1..Len(ws[k]) : flat[cut[k - 1] + j] = ws[k][j]

\* b is at the end of a \o b, and a at its beginning.
JoinedFrom(a, b, c) ==
  /\ Len(a) = Len(b) + Len(c) /\ Len(b) <= Len(a)
  /\ Len(a) \in Nat /\ Len(b) \in Nat /\ Len(c) \in Nat
  /\ \A j \in 1..Len(b) : a[j] = b[j]
  /\ \A j \in 1..Len(c) : a[Len(b) + j] = c[j]
LEMMA ConcatParts == \A b, c \in Seq(Int) : JoinedFrom(b \o c, b, c)
  BY DEF JoinedFrom

LEMMA JoiningStep ==
  \A ws, n, h : FieldLists(ws, n) /\ Joining(h, ws, n) =>
    \A m \in 1..n : JoinedFrom(h[m], h[m - 1], ws[m])
<1> SUFFICES ASSUME NEW ws, NEW n, NEW h, FieldLists(ws, n), Joining(h, ws, n), NEW m \in 1..n
             PROVE  JoinedFrom(h[m], h[m - 1], ws[m])
  OBVIOUS
<1>1. n \in Nat /\ m - 1 \in 0..n
  BY DEF FieldLists
<1>2. h[m - 1] \in Seq(Int) /\ ws[m] \in Seq(Int)
  BY <1>1 DEF Joining, FieldLists
<1>3. h[m] = h[m - 1] \o ws[m]
  BY DEF Joining
<1> QED
  BY <1>2, <1>3, ConcatParts

LEMMA Within ==
  \A a, b, c, d \in Nat : \A j \in 1..c : b = a + c /\ b <= d => a + j \in 1..d
  OBVIOUS

LEMMA JoiningCut ==
  \A ws, n, h : FieldLists(ws, n) /\ Joining(h, ws, n) => \E cut : IsCut(cut, ws, h[n])
<1> SUFFICES ASSUME NEW ws, NEW n, NEW h, FieldLists(ws, n), Joining(h, ws, n)
             PROVE  \E cut : IsCut(cut, ws, h[n])
  OBVIOUS
<1> DEFINE Fits(m, k) == /\ Len(h[k]) <= Len(h[m])
                         /\ \A j \in 1..Len(ws[k]) : h[m][Len(h[k - 1]) + j] = ws[k][j]
           Z == {m \in 0..n : \A k \in 1..m : Fits(m, k)}
<1>0. n \in Nat
  BY DEF FieldLists
<1>1. \A m \in 1..n : JoinedFrom(h[m], h[m - 1], ws[m])
  BY JoiningStep
<1>2. 0 \in Z
  BY <1>0
<1>3. ASSUME NEW m \in 1..n, m - 1 \in Z PROVE m \in Z
  <2>1. ASSUME NEW k \in 1..m PROVE Fits(m, k)
    <3>1. /\ JoinedFrom(h[m], h[m - 1], ws[m])
          /\ JoinedFrom(h[k], h[k - 1], ws[k])
      BY <1>0, <1>1
    <3>2. CASE k = m
      BY <3>1, <3>2 DEF JoinedFrom
    <3>3. CASE k # m
      <4>1. k \in 1..m - 1
        BY <3>3
      <4>2. Fits(m - 1, k)
        BY <1>3, <4>1
      <4>3. ASSUME NEW j \in 1..Len(ws[k]) PROVE h[m][Len(h[k - 1]) + j] = ws[k][j]
        <5>1. Len(h[k - 1]) + j \in 1..Len(h[m - 1])
          BY <3>1, <4>2, Within DEF JoinedFrom
        <5>2. h[m][Len(h[k - 1]) + j] = h[m - 1][Len(h[k - 1]) + j]
          BY <3>1, <5>1 DEF JoinedFrom
        <5>3. h[m - 1][Len(h[k - 1]) + j] = ws[k][j]
          BY <4>2
        <5> QED
          BY <5>2, <5>3
      <4>4. Len(h[k]) <= Len(h[m])
        <5>1. Len(h[k]) <= Len(h[m - 1])
          BY <4>2
        <5>2. /\ Len(h[m - 1]) <= Len(h[m])
              /\ Len(h[k]) \in Nat /\ Len(h[m - 1]) \in Nat /\ Len(h[m]) \in Nat
          BY <3>1 DEF JoinedFrom
        <5> HIDE DEF Fits
        <5> QED
          BY <5>1, <5>2
      <4> QED
        BY <4>3, <4>4
    <3> QED
      BY <3>2, <3>3
  <2>2. m \in 0..n
    BY <1>0
  <2> HIDE DEF Fits
  <2> QED
    BY <2>1, <2>2
<1>4. \A k \in 1..n : Fits(n, k)
  <2>1. \A k \in 0..n : k \in Z
    <3> HIDE DEF Z
    <3> QED
      BY <1>0, <1>2, <1>3, StepByStep
  <2>2. n \in Z
    BY <1>0, <2>1
  <2> HIDE DEF Fits
  <2> QED
    BY <2>2
<1> DEFINE cut == [k \in 0..n |-> Len(h[k])]
<1>5. cut \in [0..n -> Nat] /\ cut[0] = 0 /\ cut[n] = Len(h[n])
  <2>1. \A k \in 0..n : h[k] \in Seq(Int)
    BY DEF Joining
  <2>2. \A k \in 0..n : Len(h[k]) \in Nat
    BY <2>1
  <2>3. h[0] = <<>>
    BY DEF Joining
  <2> QED
    BY <1>0, <2>2, <2>3
<1>6. ASSUME NEW k \in 1..n
      PROVE  /\ cut[k] = cut[k - 1] + Len(ws[k]) /\ cut[k] <= Len(h[n])
             /\ \A j \in 1..Len(ws[k]) : h[n][cut[k - 1] + j] = ws[k][j]
  <2>1. cut[k] = Len(h[k]) /\ cut[k - 1] = Len(h[k - 1])
    BY <1>0
  <2> HIDE DEF cut
  <2>2. Fits(n, k) /\ JoinedFrom(h[k], h[k - 1], ws[k])
    BY <1>1, <1>4
  <2> QED
    BY <2>1, <2>2 DEF JoinedFrom
<1> HIDE DEF cut
<1>7. IsCut(cut, ws, h[n])
  BY <1>5, <1>6 DEF IsCut, FieldLists
<1> QED
  BY <1>7

LEMMA Flattened ==
  \A ws \in Seq(Seq(Int)) :
    /\ Seqs!FlattenSeq(ws) \in Seq(Int)
    /\ \E cut : IsCut(cut, ws, Seqs!FlattenSeq(ws))
<1> SUFFICES ASSUME NEW ws \in Seq(Seq(Int))
             PROVE  /\ Seqs!FlattenSeq(ws) \in Seq(Int)
                    /\ \E cut : IsCut(cut, ws, Seqs!FlattenSeq(ws))
  OBVIOUS
<1>1. PICK n \in Nat : n = Len(ws)
  OBVIOUS
<1>2. FieldLists(ws, n)
  BY <1>1 DEF FieldLists
<1>3. PICK h : Joining(h, ws, n)
  BY <1>2, JoiningExists
<1>4. Seqs!FlattenSeq(ws) = h[n]
  BY <1>2, <1>3, FlattenJoins
<1>5. h[n] \in Seq(Int)
  BY <1>1, <1>3 DEF Joining
<1> QED
  BY <1>2, <1>3, <1>4, <1>5, JoiningCut

-----------------------------------------------------------------------------
(* Where things lie in a file.                                             *)

LEMMA LiesEnds ==
  \A data, p : \A w \in Seq(Int) : Lies(data, p, w) =>
    /\ p \in Nat /\ p > 0 /\ p + Len(w) \in Nat /\ p + Len(w) > 0 /\ Len(w) \in Nat
  BY DEF Lies

\* a lies at p and b after it.
Splits(data, p, a, b) ==
  /\ Lies(data, p, a) /\ Lies(data, p + Len(a), b)
  /\ p + Len(a \o b) = (p + Len(a)) + Len(b)
LEMMA LiesJoined ==
  \A data, p : \A a, b \in Seq(Int) : Lies(data, p, a \o b) => Splits(data, p, a, b)
<1> SUFFICES ASSUME NEW data, NEW p, NEW a \in Seq(Int), NEW b \in Seq(Int), Lies(data, p, a \o b)
             PROVE  Splits(data, p, a, b)
  OBVIOUS
<1> DEFINE w == a \o b
<1>1. JoinedFrom(w, a, b)
  BY ConcatParts
<1> HIDE DEF w
<1>2. Lies(data, p, w)
  BY DEF w
<1>3. PICK la \in Nat, lb \in Nat : la = Len(a) /\ lb = Len(b)
  OBVIOUS
<1>4. /\ Len(w) = la + lb /\ p \in Nat \ {0}
      /\ \A j \in 1..la : w[j] = a[j]
      /\ \A j \in 1..lb : w[la + j] = b[j]
      /\ Len(data) \in Nat /\ DOMAIN data = 1..Len(data)
      /\ p + Len(w) <= Len(data) + 1
      /\ \A k \in 1..Len(w) : data[p + k - 1] = w[k]
  BY <1>1, <1>2, <1>3 DEF JoinedFrom, Lies
<1>5. ASSUME NEW k \in 1..la PROVE data[p + k - 1] = a[k]
  <2>1. k \in 1..Len(w)
    BY <1>4
  <2>2. data[p + k - 1] = w[k]
    BY <1>4, <2>1
  <2>3. w[k] = a[k]
    BY <1>1, <1>3 DEF JoinedFrom
  <2> QED
    BY <2>2, <2>3
<1>6. ASSUME NEW k \in 1..lb PROVE data[(p + la) + k - 1] = b[k]
  <2>1. la + k \in 1..Len(w) /\ p + (la + k) - 1 = (p + la) + k - 1
    BY <1>4
  <2>2. data[p + (la + k) - 1] = w[la + k]
    BY <1>4, <2>1
  <2>3. w[la + k] = b[k]
    BY <1>1, <1>3 DEF JoinedFrom
  <2> QED
    BY <2>1, <2>2, <2>3
<1>7. Lies(data, p, a)
  BY <1>3, <1>4, <1>5 DEF Lies
<1>8. Lies(data, p + la, b)
  BY <1>3, <1>4, <1>6 DEF Lies
<1>9. p + Len(w) = p + la + lb
  <2>1. PICK n \in Nat, q \in Nat : n = Len(w) /\ q = p /\ n = la + lb
    BY <1>4
  <2>2. q + n = q + la + lb
    BY <2>1
  <2> QED
    BY <2>1, <2>2
<1> QED
  BY <1>3, <1>7, <1>8, <1>9 DEF w, Splits

LEMMA LiesField ==
  \A data, p, x : Lies(data, p, <<x>>) =>
    p \in DOMAIN data /\ data[p] = x /\ Field(data, p) = p + 1 /\ p > 0 /\ p \in Nat
<1> SUFFICES ASSUME NEW data, NEW p, NEW x, Lies(data, p, <<x>>)
             PROVE p \in DOMAIN data /\ data[p] = x /\ Field(data, p) = p + 1 /\ p > 0 /\ p \in Nat
  OBVIOUS
<1>1. /\ p \in Nat \ {0} /\ DOMAIN data = 1..Len(data) /\ p + 1 <= Len(data) + 1
      /\ \A k \in 1..1 : data[p + k - 1] = <<x>>[k]
  BY DEF Lies
<1>2. data[p + 1 - 1] = x /\ p + 1 - 1 = p
  BY <1>1
<1>3. p \in DOMAIN data
  BY <1>1 DEF Lies
<1> QED
  BY <1>1, <1>2, <1>3 DEF Field, Present, At

\* A field, and what follows it.
First(data, p, x, b) ==
  /\ Field(data, p) = p + 1 /\ data[p] = x /\ p \in Nat /\ p > 0 /\ p \in DOMAIN data
  /\ Lies(data, p + 1, b) /\ p + 1 + Len(b) = p + Len(<<x>> \o b)
LEMMA LiesFirst ==
  \A data, p : \A x \in Int : \A b \in Seq(Int) :
    Lies(data, p, <<x>> \o b) => First(data, p, x, b)
<1> SUFFICES ASSUME NEW data, NEW p, NEW x \in Int, NEW b \in Seq(Int), Lies(data, p, <<x>> \o b)
             PROVE  First(data, p, x, b)
  OBVIOUS
<1>1. PICK a : a = <<x>>
  OBVIOUS
<1>2. a \in Seq(Int) /\ Len(a) = 1
  BY <1>1
<1>3. Splits(data, p, a, b)
  BY <1>1, <1>2, LiesJoined
<1>4. Lies(data, p, a) /\ Lies(data, p + 1, b) /\ p + Len(a \o b) = (p + 1) + Len(b)
  BY <1>2, <1>3 DEF Splits
<1>5. Field(data, p) = p + 1 /\ data[p] = x /\ p \in Nat /\ p > 0 /\ p \in DOMAIN data
  BY <1>1, <1>4, LiesField
<1> QED
  BY <1>1, <1>4, <1>5 DEF First

Flat(ws) == Seqs!FlattenSeq(ws)
\* Where each of the sequences of ws lies.
IsChain(at, data, p, ws) ==
  /\ at \in [0..Len(ws) -> Nat] /\ at[0] = p /\ at[Len(ws)] = p + Len(Flat(ws))
  /\ \A k \in 1..Len(ws) : at[k] = at[k - 1] + Len(ws[k]) /\ Lies(data, at[k - 1], ws[k])

LEMMA LiesList ==
  \A data, p : \A ws \in Seq(Seq(Int)) :
    Lies(data, p, Flat(ws)) => \E at : IsChain(at, data, p, ws)
<1> SUFFICES ASSUME NEW data, NEW p, NEW ws \in Seq(Seq(Int)), Lies(data, p, Flat(ws))
             PROVE  \E at : IsChain(at, data, p, ws)
  OBVIOUS
<1>1. PICK flat, cut : flat = Flat(ws) /\ flat \in Seq(Int) /\ IsCut(cut, ws, flat)
  BY Flattened DEF Flat
<1>2. PICK n \in Nat : n = Len(ws)
  OBVIOUS
<1>3. \A k \in 1..n : Len(ws[k]) \in Nat
  BY <1>2
<1> DEFINE at == [k \in 0..n |-> p + cut[k]]
<1>4. /\ p \in Nat \ {0} /\ Len(data) \in Nat /\ DOMAIN data = 1..Len(data)
      /\ p + Len(flat) <= Len(data) + 1 /\ Len(flat) \in Nat
      /\ \A k \in 1..Len(flat) : data[p + k - 1] = flat[k]
  BY <1>1 DEF Lies
<1>5. at \in [0..n -> Nat] /\ at[0] = p /\ at[n] = p + Len(flat)
  BY <1>1, <1>2, <1>4 DEF IsCut
<1>6. ASSUME NEW k \in 1..n
      PROVE  at[k] = at[k - 1] + Len(ws[k]) /\ Lies(data, at[k - 1], ws[k])
  <2>1. PICK a, l, w : a \in Nat /\ l \in Nat /\ a = cut[k - 1] /\ l = Len(ws[k]) /\ w = ws[k]
    <3>1. k - 1 \in 0..n /\ Len(ws[k]) \in Nat
      BY <1>3
    <3>2. cut[k - 1] \in Nat
      BY <1>1, <1>2, <3>1 DEF IsCut
    <3> QED
      BY <3>1, <3>2
  <2>2. /\ cut[k] = a + l /\ a + l <= Len(flat)
        /\ \A j \in 1..l : flat[a + j] = w[j]
    BY <1>1, <1>2, <2>1 DEF IsCut
  <2>3. at[k] = p + cut[k] /\ at[k - 1] = p + a
    BY <1>2, <2>1
  <2>4. ASSUME NEW j \in 1..l PROVE data[(p + a) + j - 1] = w[j]
    <3>1. a + j \in 1..Len(flat) /\ p + (a + j) - 1 = (p + a) + j - 1
      <4>1. PICK m \in Nat : m = Len(flat) /\ a + l <= m /\ p \in Nat /\ a \in Nat /\ l \in Nat
        BY <1>4, <2>1, <2>2
      <4> QED
        BY <4>1
    <3>2. data[p + (a + j) - 1] = flat[a + j]
      BY <1>4, <3>1
    <3> QED
      BY <2>2, <3>1, <3>2
  <2>5. (p + a) + l <= Len(data) + 1 /\ p + a \in Nat \ {0}
    <3>1. PICK m \in Nat, z \in Nat :
            /\ m = Len(flat) /\ z = Len(data) /\ a + l <= m /\ p + m <= z + 1
            /\ p \in Nat \ {0} /\ a \in Nat /\ l \in Nat
      BY <1>4, <2>1, <2>2
    <3>2. (p + a) + l <= z + 1 /\ p + a \in Nat \ {0}
      BY <3>1
    <3> QED
      BY <3>1, <3>2
  <2>6. Lies(data, p + a, w)
    BY <1>4, <2>1, <2>4, <2>5 DEF Lies
  <2>7. p + cut[k] = (p + a) + l
    BY <1>4, <2>1, <2>2
  <2> HIDE DEF at
  <2> QED
    BY <2>1, <2>3, <2>6, <2>7
<1> HIDE DEF at
<1>7. IsChain(at, data, p, ws)
  BY <1>1, <1>2, <1>5, <1>6 DEF IsChain
<1> QED
  BY <1>7

\* skip passes over each of the sequences of ws; read makes the elements of xs of them.
Passes(skip, data, ws) ==
  \A k \in 1..Len(ws) : \A q \in Int :
    Lies(data, q, ws[k]) => skip[q] = q + Len(ws[k])
Makes(read, data, ws, xs) ==
  /\ IsSequence(xs) /\ Len(xs) = Len(ws)
  /\ \A k \in 1..Len(ws) : \A q \in Int :
       Lies(data, q, ws[k]) => read[k][q] = Done(q + Len(ws[k]), xs[k])

LEMMA TimesPasses ==
  \A data, p, skip : \A ws \in Seq(Seq(Int)) :
    Lies(data, p, Flat(ws)) /\ Passes(skip, data, ws)
      => Times(Len(ws), p, skip) = p + Len(Flat(ws))
<1> SUFFICES ASSUME NEW data, NEW p, NEW skip, NEW ws \in Seq(Seq(Int)),
                    Lies(data, p, Flat(ws)), Passes(skip, data, ws)
             PROVE  Times(Len(ws), p, skip) = p + Len(Flat(ws))
  OBVIOUS
<1>1. PICK at : IsChain(at, data, p, ws)
  BY LiesList
<1>2. PICK n \in Nat : n = Len(ws)
  OBVIOUS
<1>3. at \in [0..n -> Nat] /\ at[0] = p /\ at[n] = p + Len(Flat(ws))
  BY <1>1, <1>2 DEF IsChain
<1>4. ASSUME NEW k \in 1..n PROVE skip[at[k - 1]] = at[k]
  <2>1. at[k - 1] \in Int
    BY <1>3
  <2> QED
    BY <1>1, <1>2, <2>1 DEF IsChain, Passes
<1>5. Times(n, at[0], skip) = at[n]
  BY <1>3, <1>4, TimesFollows
<1> QED
  BY <1>2, <1>3, <1>5

LEMMA ReadManyMakes ==
  \A data, p, read, xs : \A ws \in Seq(Seq(Int)) :
    Lies(data, p, Flat(ws)) /\ Makes(read, data, ws, xs)
      => ReadMany(Len(ws), p, read) = Done(p + Len(Flat(ws)), xs)
<1> SUFFICES ASSUME NEW data, NEW p, NEW read, NEW xs, NEW ws \in Seq(Seq(Int)),
                    Lies(data, p, Flat(ws)), Makes(read, data, ws, xs)
             PROVE  ReadMany(Len(ws), p, read) = Done(p + Len(Flat(ws)), xs)
  OBVIOUS
<1>1. PICK at : IsChain(at, data, p, ws)
  BY LiesList
<1>2. PICK n \in Nat : n = Len(ws)
  OBVIOUS
<1>3. at \in [0..n -> Nat] /\ at[0] = p /\ at[n] = p + Len(Flat(ws)) /\ Len(xs) = n
  BY <1>1, <1>2 DEF IsChain, Makes
<1>4. ASSUME NEW k \in 1..n PROVE read[k][at[k - 1]] = Done(at[k], xs[k])
  <2>1. at[k - 1] \in Int
    BY <1>3
  <2>2. at[k] = at[k - 1] + Len(ws[k]) /\ Lies(data, at[k - 1], ws[k])
    BY <1>1, <1>2 DEF IsChain
  <2>3. read[k][at[k - 1]] = Done(at[k - 1] + Len(ws[k]), xs[k])
    BY <1>2, <2>1, <2>2 DEF Makes
  <2> QED
    BY <2>2, <2>3
<1>5. ReadMany(n, at[0], read) = Done(at[n], xs)
  <2>1. Reads(n, at, read, xs)
    BY <1>3, <1>4 DEF Reads, Makes
  <2> QED
    BY <2>1, ReadManyReads
<1> QED
  BY <1>2, <1>3, <1>5

\* A number and then as many sequences.
Numbered(ws) == <<Len(ws)>> \o Flat(ws)

LEMMA NumberedLies ==
  \A data, p : \A ws \in Seq(Seq(Int)) :
    /\ Numbered(ws) \in Seq(Int)
    /\ Lies(data, p, Numbered(ws)) =>
         /\ Field(data, p) = p + 1 /\ data[p] = Len(ws) /\ p \in Nat /\ p > 0
         /\ Lies(data, p + 1, Flat(ws)) /\ p + 1 + Len(Flat(ws)) = p + Len(Numbered(ws))
<1> SUFFICES ASSUME NEW data, NEW p, NEW ws \in Seq(Seq(Int))
             PROVE  /\ Numbered(ws) \in Seq(Int)
                    /\ Lies(data, p, Numbered(ws)) =>
                         /\ Field(data, p) = p + 1 /\ data[p] = Len(ws) /\ p \in Nat /\ p > 0
                         /\ Lies(data, p + 1, Flat(ws))
                         /\ p + 1 + Len(Flat(ws)) = p + Len(Numbered(ws))
  OBVIOUS
<1>1. <<Len(ws)>> \in Seq(Int) /\ Len(<<Len(ws)>>) = 1
  OBVIOUS
<1>2. Flat(ws) \in Seq(Int)
  BY Flattened DEF Flat
<1>3. Numbered(ws) \in Seq(Int)
  BY <1>1, <1>2 DEF Numbered
<1>4. ASSUME Lies(data, p, Numbered(ws))
      PROVE  /\ Field(data, p) = p + 1 /\ data[p] = Len(ws) /\ p \in Nat /\ p > 0
             /\ Lies(data, p + 1, Flat(ws)) /\ p + 1 + Len(Flat(ws)) = p + Len(Numbered(ws))
  <2>1. Lies(data, p, <<Len(ws)>> \o Flat(ws)) /\ Len(ws) \in Int
    BY <1>4 DEF Numbered
  <2>2. First(data, p, Len(ws), Flat(ws))
    BY <1>2, <2>1, LiesFirst
  <2> QED
    BY <2>2 DEF Numbered, First
<1> QED
  BY <1>3, <1>4

-----------------------------------------------------------------------------
(* Values.                                                                 *)

\* The values that a file can have; handles are positions of objects in known.
FileValue(known) ==
  {NullValue} \cup [t : {"Int", "Float", "Bool"}, v : Int] \cup [t : {"String", "List"}, v : known]

LEMMA TagFacts ==
  /\ \A t \in DOMAIN TagOf : TagOf[t] \in Int /\ IsTag(TagOf[t]) /\ TypeOf(TagOf[t]) = t
  /\ DOMAIN TagOf = {"Int", "Float", "Bool", "Null", "String", "List"}
  /\ TagOf.Null = 3 /\ TagOf.String = 4 /\ TagOf.List = 5
  /\ TagOf["Null"] = 3 /\ TagOf["String"] = 4 /\ TagOf["List"] = 5
  /\ TagOf["Int"] = 0 /\ TagOf["Float"] = 1 /\ TagOf["Bool"] = 2
<1>1. /\ DOMAIN TagOf = {"Int", "Float", "Bool", "Null", "String", "List"}
      /\ TagOf["Null"] = 3 /\ TagOf["String"] = 4 /\ TagOf["List"] = 5
      /\ TagOf["Int"] = 0 /\ TagOf["Float"] = 1 /\ TagOf["Bool"] = 2
  BY DEF TagOf
<1>2. TagOf.Null = 3 /\ TagOf.String = 4 /\ TagOf.List = 5
  BY DEF TagOf
<1>3. ASSUME NEW t \in DOMAIN TagOf
      PROVE  TagOf[t] \in Int /\ IsTag(TagOf[t]) /\ TypeOf(TagOf[t]) = t
  <2>1. TagOf[t] \in Int
    BY <1>1
  <2>2. IsTag(TagOf[t])
    BY DEF IsTag
  <2>3. \A u \in DOMAIN TagOf : TagOf[u] = TagOf[t] => u = t
    BY <1>1
  <2>4. TypeOf(TagOf[t]) = t
    BY <2>3 DEF TypeOf
  <2> QED
    BY <2>1, <2>2, <2>4
<1> QED
  BY <1>1, <1>2, <1>3

\* What is written of v is passed over and read back.
ValueBack(known, v) ==
  /\ WriteValueRef(v) \in Seq(Int)
  /\ \A data, p : Lies(data, p, WriteValueRef(v)) =>
       /\ SkipValue(data, p) = p + Len(WriteValueRef(v))
       /\ ReadValueRef(data, p, known) = Done(p + Len(WriteValueRef(v)), v)

LEMMA ValueReadsBack ==
  ASSUME NEW known, known \subseteq Int, NEW v \in FileValue(known)
  PROVE  ValueBack(known, v)
<1>1. CASE v = NullValue
  <2>1. WriteValueRef(v) = << 3 >>
    BY <1>1, TagFacts DEF WriteValueRef, NullValue
  <2>2. << 3 >> \in Seq(Int) /\ Len(<< 3 >>) = 1
    OBVIOUS
  <2>3. ASSUME NEW data, NEW p, Lies(data, p, << 3 >>)
        PROVE  SkipValue(data, p) = p + 1 /\ ReadValueRef(data, p, known) = Done(p + 1, v)
    <3>1. p \in Nat /\ p > 0 /\ data[p] = 3 /\ Field(data, p) = p + 1
      BY <2>3, LiesField
    <3>2. IsTag(3)
      BY TagFacts
    <3> QED
      BY <1>1, <3>1, <3>2, TagFacts DEF SkipValue, ReadValueRef, At
  <2> QED
    BY <2>1, <2>2, <2>3 DEF ValueBack
<1>2. CASE v # NullValue
  <2>1. /\ v.t \in DOMAIN TagOf /\ v.t # "Null" /\ v.v \in Int /\ v = [t |-> v.t, v |-> v.v]
        /\ v.t \in {"String", "List"} => v.v \in known
    BY <1>2, TagFacts DEF FileValue
  <2>2. PICK tag, x : tag = TagOf[v.t] /\ x = v.v
    OBVIOUS
  <2>3. tag \in Int /\ x \in Int /\ tag # 3 /\ IsTag(tag) /\ TypeOf(tag) = v.t
    BY <2>1, <2>2, TagFacts
  <2>4. tag \in {4, 5} => x \in known
    BY <2>1, <2>2, TagFacts
  <2>5. WriteValueRef(v) = <<tag>> \o <<x>>
    BY <2>1, <2>2 DEF WriteValueRef
  <2>6. <<x>> \in Seq(Int) /\ <<tag>> \o <<x>> \in Seq(Int) /\ Len(<<tag>> \o <<x>>) = 2
    BY <2>3
  <2>7. ASSUME NEW data, NEW p, Lies(data, p, <<tag>> \o <<x>>)
        PROVE  SkipValue(data, p) = p + 2 /\ ReadValueRef(data, p, known) = Done(p + 2, v)
    <3>1. First(data, p, tag, <<x>>)
      BY <2>3, <2>6, <2>7, LiesFirst
    <3>2. p \in Nat /\ p > 0 /\ data[p] = tag /\ Field(data, p) = p + 1 /\ Lies(data, p + 1, <<x>>)
      BY <3>1 DEF First
    <3>3. data[p + 1] = x /\ Field(data, p + 1) = p + 2
      BY <3>2, LiesField
    <3>4. SkipValue(data, p) = p + 2
      BY <2>3, <3>2, TagFacts DEF SkipValue, At
    <3>5. ReadValueRef(data, p, known) = Done(p + 2, [t |-> TypeOf(tag), v |-> x])
      BY <2>3, <2>4, <3>2, <3>3, TagFacts DEF ReadValueRef
    <3> QED
      BY <2>1, <2>2, <2>3, <3>4, <3>5
  <2> QED
    BY <2>5, <2>6, <2>7 DEF ValueBack
<1> QED
  BY <1>1, <1>2

\* A number and as many sequences are passed over, and read.
LEMMA NumberedBack ==
  \A data, p : \A ws \in Seq(Seq(Int)) : Lies(data, p, Numbered(ws)) =>
    /\ \A skip : Passes(skip, data, ws) =>
         At(Field(data, p), Times(data[p], p + 1, skip)) = p + Len(Numbered(ws))
    /\ \A read, xs : Makes(read, data, ws, xs) =>
         ReadMany(data[p], p + 1, read) = Done(p + Len(Numbered(ws)), xs)
    /\ Field(data, p) = p + 1 /\ ~(Field(data, p) < 0) /\ p \in Nat /\ p > 0
<1> SUFFICES ASSUME NEW data, NEW p, NEW ws \in Seq(Seq(Int)), Lies(data, p, Numbered(ws))
    PROVE  /\ \A skip : Passes(skip, data, ws) =>
                At(Field(data, p), Times(data[p], p + 1, skip)) = p + Len(Numbered(ws))
           /\ \A read, xs : Makes(read, data, ws, xs) =>
                ReadMany(data[p], p + 1, read) = Done(p + Len(Numbered(ws)), xs)
           /\ Field(data, p) = p + 1 /\ ~(Field(data, p) < 0) /\ p \in Nat /\ p > 0
  BY Zenon
<1>1. /\ Field(data, p) = p + 1 /\ data[p] = Len(ws) /\ p \in Nat /\ p > 0
      /\ Lies(data, p + 1, Flat(ws)) /\ p + 1 + Len(Flat(ws)) = p + Len(Numbered(ws))
  BY NumberedLies
<1>2. ~(Field(data, p) < 0) /\ ~(p + 1 < 0)
  BY <1>1
<1>3. ASSUME NEW skip, Passes(skip, data, ws)
      PROVE  At(Field(data, p), Times(data[p], p + 1, skip)) = p + Len(Numbered(ws))
  <2>1. Times(Len(ws), p + 1, skip) = p + 1 + Len(Flat(ws))
    BY <1>1, <1>3, TimesPasses
  <2> QED
    BY <1>1, <1>2, <2>1 DEF At
<1>4. ASSUME NEW read, NEW xs, Makes(read, data, ws, xs)
      PROVE  ReadMany(data[p], p + 1, read) = Done(p + Len(Numbered(ws)), xs)
  <2>1. ReadMany(Len(ws), p + 1, read) = Done(p + 1 + Len(Flat(ws)), xs)
    BY <1>1, <1>4, ReadManyMakes
  <2> QED
    BY <1>1, <2>1
<1> QED
  BY <1>1, <1>2, <1>3, <1>4

\* Wherever w lies, skip passes over it, and read makes x of it.
EntryBack(data, w, x, skip, read) ==
  /\ w \in Seq(Int)
  /\ \A p \in Int : Lies(data, p, w) => skip[p] = p + Len(w) /\ read[p] = Done(p + Len(w), x)
\* The same of all elements of s, of which ws was written.
ListBack(data, ws, s, skip, read) ==
  /\ IsSequence(s) /\ ws = [k \in DOMAIN s |-> ws[k]]
  /\ \A k \in DOMAIN s : EntryBack(data, ws[k], s[k], skip, read)
\* A number, of the elements of s, is at p.
CountAt(data, p, s) == p \in Nat /\ Field(data, p) = p + 1 /\ data[p] = Len(s)
\* And of the whole, when it begins with the number of the elements.
CountBack(data, ws, s, skip, read) ==
  /\ Numbered(ws) \in Seq(Int) /\ Len(ws) = Len(s)
  /\ \A p : Lies(data, p, Numbered(ws)) =>
       /\ p \in Int /\ ~(Field(data, p) < 0) /\ CountAt(data, p, s)
       /\ At(Field(data, p), Times(data[p], p + 1, skip)) = p + Len(Numbered(ws))
       /\ ReadMany(data[p], p + 1, [k \in Nat |-> read]) = Done(p + Len(Numbered(ws)), s)

LEMMA SameLength ==
  \A ws, s : IsSequence(s) /\ ws = [k \in DOMAIN s |-> ws[k]] /\ (\A k \in DOMAIN s : ws[k] \in Seq(Int))
    => ws \in Seq(Seq(Int)) /\ Len(ws) = Len(s) /\ DOMAIN s = 1..Len(s) /\ Len(s) \in Nat
<1> SUFFICES ASSUME NEW ws, NEW s, IsSequence(s), ws = [k \in DOMAIN s |-> ws[k]],
                    \A k \in DOMAIN s : ws[k] \in Seq(Int)
             PROVE  /\ ws \in Seq(Seq(Int)) /\ Len(ws) = Len(s)
                    /\ DOMAIN s = 1..Len(s) /\ Len(s) \in Nat
  OBVIOUS
<1>1. PICK n \in Nat : n = Len(s) /\ DOMAIN s = 1..n
  BY DEF IsSequence
<1>2. ws = [k \in 1..n |-> ws[k]] /\ \A k \in 1..n : ws[k] \in Seq(Int)
  BY <1>1
<1>3. ws \in Seq(Seq(Int)) /\ Len(ws) = n
  BY <1>2
<1> QED
  BY <1>1, <1>3

LEMMA ListIsBack ==
  \A data, ws, s, skip, read :
    ListBack(data, ws, s, skip, read) => CountBack(data, ws, s, skip, read)
<1> SUFFICES ASSUME NEW data, NEW ws, NEW s, NEW skip, NEW read, ListBack(data, ws, s, skip, read)
             PROVE  CountBack(data, ws, s, skip, read)
  OBVIOUS
<1>1. \A k \in DOMAIN s : ws[k] \in Seq(Int)
  BY DEF ListBack, EntryBack
<1>2. ws \in Seq(Seq(Int)) /\ Len(ws) = Len(s) /\ DOMAIN s = 1..Len(s) /\ Len(s) \in Nat
  BY <1>1, SameLength DEF ListBack
<1>3. Passes(skip, data, ws)
  BY <1>2 DEF Passes, ListBack, EntryBack
<1>4. PICK n \in Nat : n = Len(s) /\ n = Len(ws) /\ DOMAIN s = 1..n
  BY <1>2
<1>5. PICK reads : reads = [k \in Nat |-> read]
  OBVIOUS
<1>6. ASSUME NEW k \in 1..n, NEW q \in Int, Lies(data, q, ws[k])
      PROVE  reads[k][q] = Done(q + Len(ws[k]), s[k])
  <2>1. reads[k] = read
    BY <1>5
  <2>2. EntryBack(data, ws[k], s[k], skip, read)
    BY <1>4 DEF ListBack
  <2> QED
    BY <1>6, <2>1, <2>2 DEF EntryBack
<1>7. Makes(reads, data, ws, s)
  BY <1>4, <1>6 DEF Makes, ListBack
<1>8. Numbered(ws) \in Seq(Int)
  BY <1>2, NumberedLies
<1>9. ASSUME NEW p, Lies(data, p, Numbered(ws))
      PROVE  /\ p \in Int /\ ~(Field(data, p) < 0) /\ CountAt(data, p, s)
             /\ At(Field(data, p), Times(data[p], p + 1, skip)) = p + Len(Numbered(ws))
             /\ ReadMany(data[p], p + 1, reads) = Done(p + Len(Numbered(ws)), s)
  <2>1. /\ \A skp : Passes(skp, data, ws) =>
                At(Field(data, p), Times(data[p], p + 1, skp)) = p + Len(Numbered(ws))
        /\ \A rd, xs : Makes(rd, data, ws, xs) =>
                ReadMany(data[p], p + 1, rd) = Done(p + Len(Numbered(ws)), xs)
        /\ Field(data, p) = p + 1 /\ ~(Field(data, p) < 0) /\ p \in Nat /\ p > 0
    BY <1>2, <1>9, NumberedBack, Zenon
  <2>2. p \in Int
    BY <2>1
  <2>3. data[p] = Len(s)
    BY <1>2, <1>9, NumberedLies
  <2>4. CountAt(data, p, s)
    BY <2>1, <2>3 DEF CountAt
  <2> QED
    BY <1>3, <1>7, <2>1, <2>2, <2>4, Zenon
<1> QED
  BY <1>2, <1>5, <1>8, <1>9 DEF CountBack

\* What is written of s is passed over and read back.
ValuesBack(known, s) ==
  /\ Counted(WriteValueRef, s) \in Seq(Int)
  /\ \A data, p : Lies(data, p, Counted(WriteValueRef, s)) =>
       /\ CountAt(data, p, s)
       /\ SkipValues(data, p) = p + Len(Counted(WriteValueRef, s))
       /\ ReadValues(data, p, known) = Done(p + Len(Counted(WriteValueRef, s)), s)

LEMMA ValuesReadBack ==
  ASSUME NEW known, known \subseteq Int, NEW s \in Seq(FileValue(known))
  PROVE  ValuesBack(known, s)
<1>1. PICK ws : ws = [k \in DOMAIN s |-> WriteValueRef(s[k])]
  OBVIOUS
<1>2. ASSUME NEW data
      PROVE  CountBack(data, ws, s, [q \in Int |-> SkipValue(data, q)],
                       [q \in Int |-> ReadValueRef(data, q, known)])
  <2>1. PICK skip, read : /\ skip = [q \in Int |-> SkipValue(data, q)]
                          /\ read = [q \in Int |-> ReadValueRef(data, q, known)]
    OBVIOUS
  <2>2. ASSUME NEW k \in DOMAIN s PROVE EntryBack(data, ws[k], s[k], skip, read)
    <3>1. ValueBack(known, s[k]) /\ ws[k] = WriteValueRef(s[k])
      <4>1. s[k] \in FileValue(known)
        OBVIOUS
      <4> QED
        BY <1>1, <4>1, ValueReadsBack
    <3> QED
      BY <2>1, <3>1 DEF EntryBack, ValueBack
  <2>3. ListBack(data, ws, s, skip, read)
    BY <1>1, <2>2 DEF ListBack, IsSequence
  <2> QED
    BY <2>1, <2>3, ListIsBack
<1>3. Counted(WriteValueRef, s) = Numbered(ws) /\ Numbered(ws) \in Seq(Int)
  BY <1>1, <1>2 DEF Counted, Each, Numbered, Flat, CountBack
<1>4. ASSUME NEW data, NEW p, Lies(data, p, Numbered(ws))
      PROVE  /\ CountAt(data, p, s)
             /\ SkipValues(data, p) = p + Len(Numbered(ws))
             /\ ReadValues(data, p, known) = Done(p + Len(Numbered(ws)), s)
  BY <1>2, <1>4 DEF CountBack, SkipValues, SkipCounted, ReadValues, ReadCounted
<1> QED
  BY <1>3, <1>4 DEF ValuesBack

-----------------------------------------------------------------------------
(* Entries of several parts.                                               *)

\* Where each of the first n sequences of ws lies, when w is their concatenation.
Lay(at, data, p, n, ws, w) ==
  /\ at \in [0..n -> Nat] /\ at[0] = p /\ at[n] = p + Len(w)
  /\ \A k \in 1..n : at[k] = at[k - 1] + Len(ws[k]) /\ Lies(data, at[k - 1], ws[k])
IsJoin(n, ws, w) ==
  /\ n \in Nat /\ w \in Seq(Int)
  /\ \A data, p : Lies(data, p, w) => \E at : Lay(at, data, p, n, ws, w)

LEMMA JoinOne == \A ws : ws[1] \in Seq(Int) => IsJoin(1, ws, ws[1])
<1> SUFFICES ASSUME NEW ws, ws[1] \in Seq(Int) PROVE IsJoin(1, ws, ws[1])
  OBVIOUS
<1>1. PICK w : w = ws[1] /\ w \in Seq(Int)
  OBVIOUS
<1>2. ASSUME NEW data, NEW p, Lies(data, p, w) PROVE \E at : Lay(at, data, p, 1, ws, w)
  <2>1. PICK l \in Nat : l = Len(w)
    BY <1>1
  <2>2. p \in Nat
    BY <1>2 DEF Lies
  <2>3. PICK at : at = [k \in 0..1 |-> IF k = 0 THEN p ELSE p + l]
    OBVIOUS
  <2>4. at \in [0..1 -> Nat] /\ at[0] = p /\ at[1] = p + l
    BY <2>2, <2>3
  <2>5. \A k \in 1..1 : at[k] = at[k - 1] + Len(ws[k]) /\ Lies(data, at[k - 1], ws[k])
    <3> SUFFICES at[1] = at[0] + Len(ws[1]) /\ Lies(data, at[0], ws[1])
      OBVIOUS
    <3> QED
      BY <1>1, <1>2, <2>1, <2>4
  <2> QED
    BY <2>1, <2>4, <2>5 DEF Lay
<1> QED
  BY <1>1, <1>2 DEF IsJoin

LEMMA JoinMore ==
  \A n, ws, w : IsJoin(n, ws, w) /\ ws[n + 1] \in Seq(Int) => IsJoin(n + 1, ws, w \o ws[n + 1])
<1> SUFFICES ASSUME NEW n, NEW ws, NEW w, IsJoin(n, ws, w), ws[n + 1] \in Seq(Int)
             PROVE  IsJoin(n + 1, ws, w \o ws[n + 1])
  OBVIOUS
<1>1. PICK b : b = ws[n + 1] /\ b \in Seq(Int)
  OBVIOUS
<1>2. n \in Nat /\ w \in Seq(Int)
  BY DEF IsJoin
<1>3. ASSUME NEW data, NEW p, Lies(data, p, w \o b)
      PROVE  \E at : Lay(at, data, p, n + 1, ws, w \o b)
  <2>1. Lies(data, p, w) /\ Lies(data, p + Len(w), b) /\ p + Len(w \o b) = (p + Len(w)) + Len(b)
    <3>1. Splits(data, p, w, b)
      BY <1>1, <1>2, <1>3, LiesJoined
    <3> QED
      BY <3>1 DEF Splits
  <2>2. PICK old : Lay(old, data, p, n, ws, w)
    BY <2>1 DEF IsJoin
  <2>3. PICK e, l : e = p + Len(w) /\ l = Len(b)
    OBVIOUS
  <2>4. e \in Nat /\ l \in Nat /\ old[n] = e /\ p + Len(w \o b) = e + l /\ Lies(data, e, b)
    <3>1. e \in Nat
      BY <1>2, <2>1, <2>3, LiesEnds
    <3>2. l \in Nat
      BY <1>1, <2>3
    <3> QED
      BY <2>1, <2>2, <2>3, <3>1, <3>2 DEF Lay
  <2>5. PICK at : at = [k \in 0..n + 1 |-> IF k = n + 1 THEN e + l ELSE old[k]]
    OBVIOUS
  <2>6. old \in [0..n -> Nat] /\ old[0] = p
    BY <2>2 DEF Lay
  <2>7. at \in [0..n + 1 -> Nat] /\ at[0] = p /\ at[n + 1] = e + l /\ \A k \in 0..n : at[k] = old[k]
    BY <1>2, <2>4, <2>5, <2>6
  <2>8. ASSUME NEW k \in 1..n + 1
        PROVE  at[k] = at[k - 1] + Len(ws[k]) /\ Lies(data, at[k - 1], ws[k])
    <3>1. CASE k \in 1..n
      <4>1. k \in 0..n /\ k - 1 \in 0..n
        BY <1>2, <3>1
      <4>2. old[k] = old[k - 1] + Len(ws[k]) /\ Lies(data, old[k - 1], ws[k])
        BY <2>2, <3>1 DEF Lay
      <4>3. at[k] = old[k] /\ at[k - 1] = old[k - 1]
        BY <2>7, <4>1
      <4> QED
        BY <4>2, <4>3
    <3>2. CASE k = n + 1
      <4>1. k - 1 = n /\ n \in 0..n
        BY <1>2, <3>2
      <4>2. at[k - 1] = e /\ at[k] = e + l
        BY <2>4, <2>7, <3>2, <4>1
      <4>3. ws[k] = b /\ Len(ws[k]) = l
        BY <1>1, <2>3, <3>2
      <4> QED
        BY <2>4, <4>2, <4>3
    <3> QED
      BY <1>2, <3>1, <3>2
  <2> QED
    BY <2>4, <2>7, <2>8 DEF Lay
<1>4. w \o b \in Seq(Int) /\ n + 1 \in Nat
  BY <1>1, <1>2
<1> QED
  BY <1>1, <1>3, <1>4 DEF IsJoin

LEMMA JoinNext ==
  \A ws, w :
    /\ IsJoin(1, ws, w) /\ ws[2] \in Seq(Int) => IsJoin(2, ws, w \o ws[2])
    /\ IsJoin(2, ws, w) /\ ws[3] \in Seq(Int) => IsJoin(3, ws, w \o ws[3])
    /\ IsJoin(3, ws, w) /\ ws[4] \in Seq(Int) => IsJoin(4, ws, w \o ws[4])
    /\ IsJoin(4, ws, w) /\ ws[5] \in Seq(Int) => IsJoin(5, ws, w \o ws[5])
    /\ IsJoin(5, ws, w) /\ ws[6] \in Seq(Int) => IsJoin(6, ws, w \o ws[6])
    /\ IsJoin(6, ws, w) /\ ws[7] \in Seq(Int) => IsJoin(7, ws, w \o ws[7])
<1> TAKE ws, w
<1>1. \A n, m : m = n + 1 /\ IsJoin(n, ws, w) /\ ws[m] \in Seq(Int) => IsJoin(m, ws, w \o ws[m])
  BY JoinMore
<1>2. 2 = 1 + 1 /\ 3 = 2 + 1 /\ 4 = 3 + 1 /\ 5 = 4 + 1 /\ 6 = 5 + 1 /\ 7 = 6 + 1
  OBVIOUS
<1> QED
  BY <1>1, <1>2, Zenon

LEMMA SliceIs ==
  \A data, p : \A w \in Seq(Int) : Lies(data, p, w) => SubSeq(data, p, (p + Len(w)) - 1) = w
<1> SUFFICES ASSUME NEW data, NEW p, NEW w \in Seq(Int), Lies(data, p, w)
             PROVE  SubSeq(data, p, (p + Len(w)) - 1) = w
  OBVIOUS
<1>1. PICK n \in Nat : n = Len(w) /\ w = [k \in 1..n |-> w[k]]
  OBVIOUS
<1>2. /\ p \in Nat \ {0} /\ p + n <= Len(data) + 1 /\ Len(data) \in Nat
      /\ \A k \in 1..n : data[p + k - 1] = w[k]
  BY <1>1 DEF Lies
<1>3. PICK X : data \in Seq(X)
  BY DEF Lies, IsSequence
<1>4. p \in Nat \ {0} /\ (p + n) - 1 <= Len(data) /\ ((p + n) - 1) - p + 1 = n
  BY <1>2
<1>5. SubSeq(data, p, (p + n) - 1) = [k \in 1..((p + n) - 1) - p + 1 |-> data[p + k - 1]]
  BY <1>3, <1>4
<1>6. SubSeq(data, p, (p + n) - 1) = [k \in 1..n |-> w[k]]
  BY <1>2, <1>4, <1>5
<1> QED
  BY <1>1, <1>6

LEMMA UnitsRead ==
  \A data, p : \A w \in Seq(Int) : Lies(data, p, w) => ReadUnits(data, p, Len(w)) = Done(p + Len(w), w)
<1> SUFFICES ASSUME NEW data, NEW p, NEW w \in Seq(Int), Lies(data, p, w)
             PROVE  ReadUnits(data, p, Len(w)) = Done(p + Len(w), w)
  OBVIOUS
<1>1. PICK n \in Nat : n = Len(w)
  OBVIOUS
<1>2. p \in Nat /\ ~(p + n > Len(data) + 1)
  BY <1>1 DEF Lies
<1>3. SubSeq(data, p, p + n - 1) = w
  <2>1. SubSeq(data, p, (p + Len(w)) - 1) = w
    BY SliceIs
  <2>2. p + n - 1 = (p + Len(w)) - 1
    BY <1>1, <1>2
  <2> QED
    BY <2>1, <2>2, Zenon
<1> QED
  BY <1>1, <1>2, <1>3 DEF ReadUnits

\* A number and as many units.
RunBack(data, p, w) ==
  /\ Field(data, p) = p + 1 /\ p \in DOMAIN data /\ data[p] = Len(w)
  /\ SkipRun(data, p) = p + Len(Run(w))
  /\ ReadRun(data, p) = Done(p + Len(Run(w)), w)
LEMMA RunReadsBack ==
  \A w \in Seq(Int) : Run(w) \in Seq(Int) /\ \A data, p : Lies(data, p, Run(w)) => RunBack(data, p, w)
<1> SUFFICES ASSUME NEW w \in Seq(Int)
             PROVE  Run(w) \in Seq(Int) /\ \A data, p : Lies(data, p, Run(w)) => RunBack(data, p, w)
  OBVIOUS
<1>1. PICK n \in Nat : n = Len(w) /\ Run(w) = <<n>> \o w
  BY DEF Run
<1>2. Run(w) \in Seq(Int)
  <2>1. <<n>> \in Seq(Int)
    OBVIOUS
  <2> QED
    BY <1>1, <2>1
<1>3. ASSUME NEW data, NEW p, Lies(data, p, Run(w)) PROVE RunBack(data, p, w)
  <2>1. First(data, p, n, w)
    BY <1>1, <1>3, LiesFirst
  <2>2. /\ Field(data, p) = p + 1 /\ data[p] = n /\ p \in Nat /\ p > 0 /\ p \in DOMAIN data
        /\ Lies(data, p + 1, w) /\ p + 1 + n = p + Len(Run(w)) /\ ~(Field(data, p) < 0)
    BY <1>1, <2>1 DEF First
  <2>3. ReadUnits(data, p + 1, n) = Done(p + 1 + n, w)
    BY <1>1, <2>2, UnitsRead
  <2>4. ReadRun(data, p) = Done(p + Len(Run(w)), w)
    BY <2>2, <2>3 DEF ReadRun
  <2>5. SkipRun(data, p) = p + Len(Run(w))
    BY <2>2 DEF SkipRun, At
  <2> QED
    BY <1>1, <2>2, <2>4, <2>5 DEF RunBack
<1> QED
  BY <1>2, <1>3

\* The objects that a heap section can have, when those at known come before them.
FileObject(known) ==
  [kind : {"String"}, data : Seq(Int)] \cup [kind : {"List"}, data : Seq(FileValue(known))]
ObjectBack(known, obj) ==
  /\ SerializeHeapObject(obj) \in Seq(Int)
  /\ \A data, p : Lies(data, p, SerializeHeapObject(obj)) =>
       /\ SkipHeapObject(data, p) = p + Len(SerializeHeapObject(obj))
       /\ ReadHeapObject(data, p, known) = Done(p + Len(SerializeHeapObject(obj)), obj)

LEMMA ObjectReadsBack ==
  ASSUME NEW known, known \subseteq Int, NEW obj \in FileObject(known)
  PROVE  ObjectBack(known, obj)
<1>1. PICK tag, body : /\ tag = TagOf[obj.kind]
                       /\ body = IF obj.kind = "String" THEN Run(obj.data)
                                 ELSE Counted(WriteValueRef, obj.data)
  OBVIOUS
<1>2. obj.kind \in {"String", "List"} /\ obj = [kind |-> obj.kind, data |-> obj.data]
  BY DEF FileObject
<1>3. tag \in Int /\ TypeOf(tag) = obj.kind
  BY <1>1, <1>2, TagFacts
<1>4. SerializeHeapObject(obj) = <<tag>> \o body
  BY <1>1 DEF SerializeHeapObject
<1>5. CASE obj.kind = "String"
  <2>1. tag = 4 /\ body = Run(obj.data) /\ obj.data \in Seq(Int)
    BY <1>1, <1>5, TagFacts DEF FileObject
  <2>2. body \in Seq(Int) /\ \A data, p : Lies(data, p, body) => RunBack(data, p, obj.data)
    BY <2>1, RunReadsBack
  <2>3. <<tag>> \in Seq(Int) /\ <<tag>> \o body \in Seq(Int)
    BY <1>3, <2>2
  <2>4. ASSUME NEW data, NEW p, Lies(data, p, <<tag>> \o body)
        PROVE  /\ SkipHeapObject(data, p) = p + Len(<<tag>> \o body)
               /\ ReadHeapObject(data, p, known) = Done(p + Len(<<tag>> \o body), obj)
    <3>1. First(data, p, tag, body)
      BY <1>3, <2>2, <2>4, LiesFirst
    <3>2. /\ Field(data, p) = p + 1 /\ data[p] = tag /\ p \in Nat /\ p > 0
          /\ Lies(data, p + 1, body) /\ p + 1 + Len(body) = p + Len(<<tag>> \o body)
          /\ ~(Field(data, p) < 0) /\ ~(p + 1 + Len(body) < 0)
      <4>1. Len(body) \in Nat
        BY <2>2
      <4> QED
        BY <3>1, <4>1 DEF First
    <3>3. RunBack(data, p + 1, obj.data)
      BY <2>2, <3>2
    <3>4. /\ SkipRun(data, p + 1) = p + 1 + Len(body)
          /\ ReadRun(data, p + 1) = Done(p + 1 + Len(body), obj.data)
      BY <2>1, <3>3 DEF RunBack
    <3>5. SkipHeapObject(data, p) = p + 1 + Len(body)
      BY <2>1, <3>2, <3>4, TagFacts DEF SkipHeapObject, At
    <3>6. ReadHeapObject(data, p, known) = Tagged(tag, Done(p + 1 + Len(body), obj.data))
      BY <2>1, <3>2, <3>4, TagFacts DEF ReadHeapObject
    <3>7. Tagged(tag, Done(p + 1 + Len(body), obj.data)) = Done(p + 1 + Len(body), obj)
      BY <1>2, <1>3, <3>2, DoneIs DEF Tagged
    <3> QED
      BY <3>2, <3>5, <3>6, <3>7
  <2> QED
    BY <1>4, <2>3, <2>4 DEF ObjectBack
<1>6. CASE obj.kind = "List"
  <2>1. tag = 5 /\ body = Counted(WriteValueRef, obj.data) /\ obj.data \in Seq(FileValue(known))
    BY <1>1, <1>6, TagFacts DEF FileObject
  <2>2. ValuesBack(known, obj.data)
    BY <2>1, ValuesReadBack
  <2>3. <<tag>> \in Seq(Int) /\ body \in Seq(Int) /\ <<tag>> \o body \in Seq(Int)
    BY <1>3, <2>1, <2>2 DEF ValuesBack
  <2>4. ASSUME NEW data, NEW p, Lies(data, p, <<tag>> \o body)
        PROVE  /\ SkipHeapObject(data, p) = p + Len(<<tag>> \o body)
               /\ ReadHeapObject(data, p, known) = Done(p + Len(<<tag>> \o body), obj)
    <3>1. First(data, p, tag, body)
      BY <1>3, <2>3, <2>4, LiesFirst
    <3>2. /\ Field(data, p) = p + 1 /\ data[p] = tag /\ p \in Nat /\ p > 0
          /\ Lies(data, p + 1, body) /\ p + 1 + Len(body) = p + Len(<<tag>> \o body)
          /\ ~(Field(data, p) < 0) /\ ~(p + 1 + Len(body) < 0)
      <4>1. Len(body) \in Nat
        BY <2>3
      <4> QED
        BY <3>1, <4>1 DEF First
    <3>4. /\ SkipValues(data, p + 1) = p + 1 + Len(body)
          /\ ReadValues(data, p + 1, known) = Done(p + 1 + Len(body), obj.data)
      BY <2>1, <2>2, <3>2 DEF ValuesBack
    <3>5. SkipHeapObject(data, p) = p + 1 + Len(body)
      BY <2>1, <3>2, <3>4, TagFacts DEF SkipHeapObject, At
    <3>6. ReadHeapObject(data, p, known) = Tagged(tag, Done(p + 1 + Len(body), obj.data))
      BY <2>1, <3>2, <3>4, TagFacts DEF ReadHeapObject
    <3>7. Tagged(tag, Done(p + 1 + Len(body), obj.data)) = Done(p + 1 + Len(body), obj)
      BY <1>2, <1>3, <3>2, DoneIs DEF Tagged
    <3> QED
      BY <3>2, <3>5, <3>6, <3>7
  <2> QED
    BY <1>4, <2>3, <2>4 DEF ObjectBack
<1> QED
  BY <1>2, <1>5, <1>6

\* read makes the elements of xs of the first n sequences of ws.
PartsBack(data, n, ws, read, xs) ==
  /\ n \in Nat /\ IsSequence(xs) /\ Len(xs) = n
  /\ \A k \in 1..n : \A q : Lies(data, q, ws[k]) => read[k][q] = Done(q + Len(ws[k]), xs[k])
LEMMA PartsRead ==
  \A data, p, n, ws, w, read, xs :
    IsJoin(n, ws, w) /\ Lies(data, p, w) /\ PartsBack(data, n, ws, read, xs)
      => ReadMany(n, p, read) = Done(p + Len(w), xs)
<1> SUFFICES ASSUME NEW data, NEW p, NEW n, NEW ws, NEW w, NEW read, NEW xs,
                    IsJoin(n, ws, w), Lies(data, p, w), PartsBack(data, n, ws, read, xs)
             PROVE  ReadMany(n, p, read) = Done(p + Len(w), xs)
  OBVIOUS
<1>1. PICK at : Lay(at, data, p, n, ws, w)
  BY DEF IsJoin
<1>2. at[0] = p /\ at[n] = p + Len(w)
  BY <1>1 DEF Lay
<1>3. Reads(n, at, read, xs)
  <2>1. ASSUME NEW k \in 1..n PROVE read[k][at[k - 1]] = Done(at[k], xs[k])
    <3>1. at[k] = at[k - 1] + Len(ws[k]) /\ Lies(data, at[k - 1], ws[k])
      BY <1>1 DEF Lay
    <3> QED
      BY <3>1 DEF PartsBack
  <2> QED
    BY <1>1, <2>1 DEF Reads, PartsBack, Lay
<1> QED
  BY <1>2, <1>3, ReadManyReads

\* The reading of one field.
LEMMA FieldRead ==
  \A data, p, x : Lies(data, p, <<x>>) => ReadField(data, p) = Done(p + 1, x)
<1> SUFFICES ASSUME NEW data, NEW p, NEW x, Lies(data, p, <<x>>)
             PROVE  ReadField(data, p) = Done(p + 1, x)
  OBVIOUS
<1>1. data[p] = x /\ Field(data, p) = p + 1 /\ p > 0 /\ p \in Nat
  BY LiesField
<1>2. ~(p + 1 < 0)
  BY <1>1
<1> QED
  BY <1>1, <1>2 DEF ReadField

LEMMA PairIsJoined == \A x, y : <<x, y>> = <<x>> \o <<y>>
<1> SUFFICES ASSUME NEW x, NEW y PROVE <<x, y>> = <<x>> \o <<y>>
  OBVIOUS
<1>1. PICK a, b, S : a = <<x>> /\ b = <<y>> /\ S = {x, y}
  OBVIOUS
<1>2. a \in Seq(S) /\ b \in Seq(S) /\ Len(a) = 1 /\ Len(b) = 1 /\ a[1] = x /\ b[1] = y
  BY <1>1
<1>3. PICK c : c = a \o b
  OBVIOUS
<1>4. c \in Seq(S) /\ Len(c) = 2 /\ c[1] = x /\ c[2] = y
  <2>0. a \in Seq(S) /\ b \in Seq(S)
    BY <1>2
  <2>1. c \in Seq(S)
    BY <2>0, <1>3
  <2>2. Len(c) = Len(a) + Len(b)
    BY <2>0, <1>3
  <2>3. \A k \in 1..Len(a) + Len(b) : c[k] = IF k <= Len(a) THEN a[k] ELSE b[k - Len(a)]
    BY <2>0, <1>3
  <2>4. 1 \in 1..2 /\ 2 \in 1..2 /\ 1 <= 1 /\ ~(2 <= 1) /\ 2 - 1 = 1 /\ 1 + 1 = 2
    OBVIOUS
  <2> QED
    BY <1>2, <2>1, <2>2, <2>3, <2>4
<1>5. c = <<x, y>>
  BY <1>4
<1> QED
  BY <1>1, <1>3, <1>5

LEMMA TripleIsJoined == \A x, y, z : <<x, y, z>> = (<<x>> \o <<y>>) \o <<z>>
<1> SUFFICES ASSUME NEW x, NEW y, NEW z PROVE <<x, y, z>> = (<<x>> \o <<y>>) \o <<z>>
  OBVIOUS
<1>1. PICK a, b, S : a = <<x, y>> /\ b = <<z>> /\ S = {x, y, z}
  OBVIOUS
<1>2. a \in Seq(S) /\ b \in Seq(S)
  BY <1>1
<1>3. PICK c : c = a \o b
  OBVIOUS
<1>4. c \in Seq(S) /\ Len(c) = Len(a) + Len(b)
  BY <1>2, <1>3
<1>5. \A k \in 1..Len(a) + Len(b) : c[k] = IF k <= Len(a) THEN a[k] ELSE b[k - Len(a)]
  BY <1>2, <1>3
<1>6. Len(a) = 2 /\ Len(b) = 1 /\ a[1] = x /\ a[2] = y /\ b[1] = z
  BY <1>1
<1>7. Len(c) = 3 /\ c[1] = x /\ c[2] = y /\ c[3] = z
  <2>1. /\ 1 \in 1..3 /\ 2 \in 1..3 /\ 3 \in 1..3 /\ 1 <= 2 /\ 2 <= 2 /\ ~(3 <= 2) /\ 3 - 2 = 1
        /\ 2 + 1 = 3
    OBVIOUS
  <2> QED
    BY <1>4, <1>5, <1>6, <2>1
<1>8. c = <<x, y, z>>
  <2>1. DOMAIN c = 1..3 /\ c = [k \in 1..3 |-> c[k]]
    <3>1. c \in Seq(S)
      BY <1>4
    <3>2. DOMAIN c = 1..Len(c) /\ c = [k \in 1..Len(c) |-> c[k]]
      BY <3>1
    <3>3. Len(c) = 3
      BY <1>7
    <3> QED
      BY <3>2, <3>3
  <2>2. PICK t : t = <<x, y, z>>
    OBVIOUS
  <2>3. DOMAIN t = 1..3 /\ t = [k \in 1..3 |-> t[k]] /\ t[1] = x /\ t[2] = y /\ t[3] = z
    BY <2>2
  <2>4. \A k \in 1..3 : c[k] = t[k]
    BY <1>7, <2>3
  <2> QED
    BY <2>1, <2>2, <2>3, <2>4
<1> QED
  BY <1>1, <1>3, <1>8, PairIsJoined

FileFrame(known) == [function : Int, ip : Int, locals : Seq(FileValue(known))]
FrameBack(known, f) ==
  /\ SerializeFrame(f) \in Seq(Int)
  /\ \A data, p : Lies(data, p, SerializeFrame(f)) =>
       /\ SkipFrameEntry(data, p) = p + Len(SerializeFrame(f))
       /\ ReadFrame(data, p, known) = Done(p + Len(SerializeFrame(f)), f)

LEMMA FrameReadsBack ==
  ASSUME NEW known, known \subseteq Int, NEW f \in FileFrame(known)
  PROVE  FrameBack(known, f)
<1>1. PICK a \in Int, b \in Int, s \in Seq(FileValue(known)) : f = [function |-> a, ip |-> b, locals |-> s]
  BY DEF FileFrame
<1>2. PICK l : l = Counted(WriteValueRef, s)
  OBVIOUS
<1>3. ValuesBack(known, s) /\ l \in Seq(Int)
  BY <1>2, ValuesReadBack DEF ValuesBack
<1>4. PICK ws : ws = <<<<a>>, <<b>>, l>>
  OBVIOUS
<1>5. ws[1] = <<a>> /\ ws[2] = <<b>> /\ ws[3] = l /\ Len(ws[1]) = 1 /\ Len(ws[2]) = 1
  BY <1>4
<1>6. PICK w : w = SerializeFrame(f)
  OBVIOUS
<1>7. IsJoin(3, ws, w)
  <2>1. ws[1] \in Seq(Int) /\ ws[2] \in Seq(Int)
    BY <1>5
  <2>2. IsJoin(1, ws, ws[1])
    BY <2>1, JoinOne
  <2>3. IsJoin(2, ws, ws[1] \o ws[2])
    BY <2>1, <2>2, JoinNext
  <2>4. IsJoin(3, ws, (ws[1] \o ws[2]) \o ws[3])
    BY <1>3, <1>5, <2>3, JoinNext
  <2>5. w = (ws[1] \o ws[2]) \o ws[3]
    <3>1. w = <<a, b>> \o l
      BY <1>1, <1>2, <1>6 DEF SerializeFrame
    <3>2. <<a, b>> = <<a>> \o <<b>>
      BY PairIsJoined
    <3> QED
      BY <1>5, <3>1, <3>2
  <2> QED
    BY <2>4, <2>5
<1>8. ASSUME NEW data, NEW p, Lies(data, p, w)
      PROVE  SkipFrameEntry(data, p) = p + Len(w) /\ ReadFrame(data, p, known) = Done(p + Len(w), f)
  <2>1. PICK read, xs : /\ read = [k \in Nat |-> [q \in Int |-> ReadFramePart(data, q, known, k)]]
                        /\ xs = <<a, b, s>>
    OBVIOUS
  <2>2. IsSequence(xs) /\ Len(xs) = 3 /\ xs[1] = a /\ xs[2] = b /\ xs[3] = s
    <3>1. xs \in Seq({a, b, s})
      BY <2>1
    <3> QED
      BY <2>1, <3>1 DEF IsSequence
  <2>3. ASSUME NEW k \in 1..3, NEW q, Lies(data, q, ws[k])
        PROVE  read[k][q] = Done(q + Len(ws[k]), xs[k])
    <3>1. q \in Int /\ read[k][q] = ReadFramePart(data, q, known, k)
      BY <2>1, <2>3 DEF Lies
    <3>2. CASE k < 3
      <4>1. PICK x : ws[k] = <<x>> /\ xs[k] = x
        BY <1>5, <2>2, <3>2
      <4>2. ReadField(data, q) = Done(q + 1, xs[k])
        BY <2>3, <4>1, FieldRead
      <4>3. Len(ws[k]) = 1
        BY <4>1
      <4> QED
        BY <3>1, <3>2, <4>2, <4>3 DEF ReadFramePart
    <3>3. CASE k = 3
      <4>1. ReadValues(data, q, known) = Done(q + Len(l), s)
        BY <1>2, <1>3, <1>5, <2>3, <3>3 DEF ValuesBack
      <4>2. read[k][q] = ReadValues(data, q, known)
        BY <3>1, <3>3 DEF ReadFramePart
      <4> QED
        BY <1>5, <2>2, <3>3, <4>1, <4>2
    <3> QED
      BY <3>2, <3>3
  <2>4. ReadMany(3, p, read) = Done(p + Len(w), xs)
    <3>1. PartsBack(data, 3, ws, read, xs)
      BY <2>2, <2>3 DEF PartsBack
    <3> QED
      BY <1>7, <1>8, <3>1, PartsRead
  <2>5. p + Len(w) \in Nat
    BY <1>7, <1>8, LiesEnds DEF IsJoin
  <2>6. ReadFrame(data, p, known) = Done(p + Len(w), f)
    <3>1. BuildFrame(xs) = f
      BY <1>1, <2>2 DEF BuildFrame
    <3> QED
      BY <2>1, <2>4, <2>5, <3>1, DoneIs DEF ReadFrame, Entry
  <2>7. SkipFrameEntry(data, p) = p + Len(w)
    <3>1. PICK at : Lay(at, data, p, 3, ws, w)
      BY <1>7, <1>8 DEF IsJoin
    <3>2. /\ at[0] = p /\ at[3] = p + Len(w) /\ at[1] = at[0] + 1 /\ at[2] = at[1] + 1
          /\ at[3] = at[2] + Len(l) /\ Lies(data, at[2], l)
      <4>1. 1 \in 1..3 /\ 2 \in 1..3 /\ 3 \in 1..3 /\ 1 - 1 = 0 /\ 2 - 1 = 1 /\ 3 - 1 = 2
        OBVIOUS
      <4> QED
        BY <1>5, <3>1, <4>1 DEF Lay
    <3>3. p \in Nat
      BY <1>8 DEF Lies
    <3>4. at[2] = p + 2 /\ At(p, p + 2) = p + 2
      BY <3>2, <3>3 DEF At
    <3>5. SkipValues(data, at[2]) = at[2] + Len(l)
      BY <1>2, <1>3, <3>2 DEF ValuesBack
    <3> QED
      BY <3>2, <3>4, <3>5 DEF SkipFrameEntry
  <2> QED
    BY <2>6, <2>7
<1> QED
  BY <1>6, <1>7, <1>8 DEF FrameBack, IsJoin

FramesBack(known, s) ==
  /\ Counted(SerializeFrame, s) \in Seq(Int)
  /\ \A data, p : Lies(data, p, Counted(SerializeFrame, s)) =>
       /\ CountAt(data, p, s)
       /\ SkipCounted(data, p, SkipFrameEntry) = p + Len(Counted(SerializeFrame, s))
       /\ ReadFrames(data, p, known) = Done(p + Len(Counted(SerializeFrame, s)), s)

LEMMA FramesReadBack ==
  ASSUME NEW known, known \subseteq Int, NEW s \in Seq(FileFrame(known))
  PROVE  FramesBack(known, s)
<1>1. PICK ws : ws = [k \in DOMAIN s |-> SerializeFrame(s[k])]
  OBVIOUS
<1>2. ASSUME NEW data
      PROVE  CountBack(data, ws, s, [q \in Int |-> SkipFrameEntry(data, q)],
                       [q \in Int |-> ReadFrame(data, q, known)])
  <2>1. PICK skip, read : /\ skip = [q \in Int |-> SkipFrameEntry(data, q)]
                          /\ read = [q \in Int |-> ReadFrame(data, q, known)]
    OBVIOUS
  <2>2. ASSUME NEW k \in DOMAIN s PROVE EntryBack(data, ws[k], s[k], skip, read)
    <3>1. ws[k] = SerializeFrame(s[k]) /\ s[k] \in FileFrame(known)
      BY <1>1
    <3>2. FrameBack(known, s[k])
      BY <3>1, FrameReadsBack
    <3> QED
      BY <2>1, <3>1, <3>2 DEF EntryBack, FrameBack
  <2>3. ListBack(data, ws, s, skip, read)
    BY <1>1, <2>2 DEF ListBack, IsSequence
  <2> QED
    BY <2>1, <2>3, ListIsBack
<1>3. Counted(SerializeFrame, s) = Numbered(ws) /\ Numbered(ws) \in Seq(Int)
  BY <1>1, <1>2 DEF Counted, Each, Numbered, Flat, CountBack
<1>4. ASSUME NEW data, NEW p, Lies(data, p, Numbered(ws))
      PROVE  /\ CountAt(data, p, s)
             /\ SkipCounted(data, p, SkipFrameEntry) = p + Len(Numbered(ws))
             /\ ReadFrames(data, p, known) = Done(p + Len(Numbered(ws)), s)
  BY <1>2, <1>4 DEF CountBack, SkipCounted, ReadFrames, ReadCounted
<1> QED
  BY <1>3, <1>4 DEF FramesBack

\* The handles that a snapshot can have; positions are u64s other than u64::MAX.
FileHandle ==
  [id : Int, kind : Int, strategy : Int, params : Seq(Int),
   cached : {<<>>} \cup {<<bytes>> : bytes \in Seq(Int)},
   position : {<<>>} \cup {<<x>> : x \in Int \ {AllOnes}}]
HandleBack(h) ==
  /\ SerializeIoHandleSnapshot(h) \in Seq(Int)
  /\ \A data, p : Lies(data, p, SerializeIoHandleSnapshot(h)) =>
       /\ SkipIoEntry(data, p) = p + Len(SerializeIoHandleSnapshot(h))
       /\ DeserializeIoHandleSnapshot(data, p) = Done(p + Len(SerializeIoHandleSnapshot(h)), h)

\* The result of the last write, if it is there.
CachedBack(data, p, o) ==
  /\ ReadCached(data, p) = Done(p + Len(Option(o)), o)
  /\ SkipCached(data, p) = p + Len(Option(o)) + 1
LEMMA CachedReadsBack ==
  \A o \in {<<>>} \cup {<<bytes>> : bytes \in Seq(Int)} :
    Option(o) \in Seq(Int) /\ \A data, p : Lies(data, p, Option(o)) => CachedBack(data, p, o)
<1> SUFFICES ASSUME NEW o \in {<<>>} \cup {<<bytes>> : bytes \in Seq(Int)}
             PROVE  /\ Option(o) \in Seq(Int)
                    /\ \A data, p : Lies(data, p, Option(o)) => CachedBack(data, p, o)
  OBVIOUS
<1>1. CASE o = <<>>
  <2>1. Option(o) = <<AllOnes>> /\ AllOnes \in Int
    BY <1>1 DEF Option, AllOnes
  <2>2. <<AllOnes>> \in Seq(Int) /\ Len(<<AllOnes>>) = 1
    BY <2>1
  <2>3. ASSUME NEW data, NEW p, Lies(data, p, <<AllOnes>>)
        PROVE  ReadCached(data, p) = Done(p + 1, o) /\ SkipCached(data, p) = p + 1 + 1
    <3>1. data[p] = AllOnes /\ Field(data, p) = p + 1 /\ p > 0 /\ p \in Nat /\ p \in DOMAIN data
      BY <2>3, LiesField
    <3>2. ~(Field(data, p) < 0) /\ p + 2 + 0 = p + 1 + 1
      BY <3>1
    <3> QED
      BY <1>1, <3>1, <3>2 DEF ReadCached, SkipCached, At
  <2> QED
    BY <2>1, <2>2, <2>3 DEF CachedBack
<1>2. CASE o # <<>>
  <2>1. PICK w \in Seq(Int) : o = <<w>>
    BY <1>2
  <2>2. Option(o) = Run(w)
    BY <1>2, <2>1 DEF Option
  <2>3. PICK n \in Nat : n = Len(w)
    OBVIOUS
  <2>4. Run(w) \in Seq(Int) /\ Len(Run(w)) = n + 1
    <3>1. Run(w) \in Seq(Int)
      BY RunReadsBack
    <3>2. PICK a : a = <<n>>
      OBVIOUS
    <3>3. a \in Seq(Int)
      BY <3>2
    <3>4. Len(a \o w) = Len(a) + Len(w)
      BY <3>3
    <3>5. Len(a) = 1
      BY <3>2
    <3> QED
      BY <2>3, <3>1, <3>2, <3>4, <3>5 DEF Run
  <2>5. ASSUME NEW data, NEW p, Lies(data, p, Run(w)) PROVE CachedBack(data, p, o)
    <3>1. RunBack(data, p, w)
      BY <2>5, RunReadsBack
    <3>2. /\ Field(data, p) = p + 1 /\ p \in DOMAIN data /\ data[p] = n
          /\ ReadRun(data, p) = Done(p + Len(Run(w)), w)
      BY <2>3, <3>1 DEF RunBack
    <3>3. p \in Nat /\ n # AllOnes
      BY <2>5 DEF Lies, AllOnes
    <3>4. ~(p + Len(Run(w)) < 0) /\ ~(Field(data, p) < 0) /\ p + 2 + n = p + Len(Run(w)) + 1
      <4>1. PICK q \in Nat, l \in Nat : q = p /\ l = Len(Run(w)) /\ l = n + 1
        BY <2>4, <3>3
      <4>2. ~(q + l < 0) /\ ~(q + 1 < 0) /\ q + 2 + n = q + l + 1
        BY <4>1
      <4> QED
        BY <3>2, <4>1, <4>2
    <3>5. ReadCached(data, p) = Done(p + Len(Run(w)), <<w>>)
      <4>1. ~(data[p] = AllOnes)
        BY <3>2, <3>3
      <4>2. PICK r : r = ReadRun(data, p)
        OBVIOUS
      <4>3. r = Done(p + Len(Run(w)), w)
        BY <3>2, <4>2
      <4>4. r.at = p + Len(Run(w)) /\ r.val = w
        BY <4>3, DoneIs
      <4>5. ReadCached(data, p) = Entry(r, LAMBDA bytes : <<bytes>>)
        BY <4>1, <4>2 DEF ReadCached
      <4> QED
        BY <3>4, <4>4, <4>5 DEF Entry
    <3>6. SkipCached(data, p) = p + 2 + n
      BY <3>2, <3>3, <3>4 DEF SkipCached, At
    <3> QED
      BY <2>1, <2>2, <3>4, <3>5, <3>6 DEF CachedBack
  <2> QED
    BY <2>2, <2>4, <2>5
<1> QED
  BY <1>1, <1>2

LEMMA HandleReadsBack == \A h \in FileHandle : HandleBack(h)
<1> SUFFICES ASSUME NEW h \in FileHandle PROVE HandleBack(h)
  OBVIOUS
<1>1. PICK a \in Int, b \in Int, c \in Int, d \in Seq(Int),
           o \in {<<>>} \cup {<<bytes>> : bytes \in Seq(Int)},
           pos \in {<<>>} \cup {<<x>> : x \in Int \ {AllOnes}} :
        h = [id |-> a, kind |-> b, strategy |-> c, params |-> d, cached |-> o, position |-> pos]
  BY DEF FileHandle
<1>2. PICK x \in Int : /\ (IF pos = <<>> THEN <<AllOnes>> ELSE pos) = <<x>>
                       /\ pos = IF x = AllOnes THEN <<>> ELSE <<x>>
  <2>1. CASE pos = <<>>
    BY <2>1 DEF AllOnes
  <2>2. CASE pos # <<>>
    <3>1. PICK y \in Int \ {AllOnes} : pos = <<y>>
      BY <2>2
    <3> QED
      BY <2>2, <3>1
  <2> QED
    BY <2>1, <2>2
<1>3. PICK ws : ws = <<<<a>>, <<b>>, <<c>>, Run(d), Option(o), <<x>>>>
  OBVIOUS
<1>4. /\ ws[1] = <<a>> /\ ws[2] = <<b>> /\ ws[3] = <<c>> /\ ws[4] = Run(d) /\ ws[5] = Option(o)
      /\ ws[6] = <<x>>
  BY <1>3
<1>5. ws[1] \in Seq(Int) /\ ws[2] \in Seq(Int) /\ ws[3] \in Seq(Int) /\ ws[6] \in Seq(Int)
  BY <1>4
<1>6. ws[4] \in Seq(Int) /\ ws[5] \in Seq(Int)
  BY <1>4, RunReadsBack, CachedReadsBack
<1>7. Len(ws[1]) = 1 /\ Len(ws[2]) = 1 /\ Len(ws[3]) = 1 /\ Len(ws[6]) = 1
  BY <1>4
<1>8. PICK w : w = SerializeIoHandleSnapshot(h)
  OBVIOUS
<1>9. IsJoin(6, ws, w)
  <2>1. IsJoin(1, ws, ws[1])
    BY <1>5, JoinOne
  <2>2. IsJoin(2, ws, ws[1] \o ws[2])
    BY <1>5, <2>1, JoinNext
  <2>3. IsJoin(3, ws, (ws[1] \o ws[2]) \o ws[3])
    BY <1>5, <2>2, JoinNext
  <2>4. IsJoin(4, ws, ((ws[1] \o ws[2]) \o ws[3]) \o ws[4])
    BY <1>6, <2>3, JoinNext
  <2>5. IsJoin(5, ws, (((ws[1] \o ws[2]) \o ws[3]) \o ws[4]) \o ws[5])
    BY <1>6, <2>4, JoinNext
  <2>6. IsJoin(6, ws, ((((ws[1] \o ws[2]) \o ws[3]) \o ws[4]) \o ws[5]) \o ws[6])
    BY <1>5, <2>5, JoinNext
  <2>7. w = ((((<<a, b, c>>) \o ws[4]) \o ws[5]) \o ws[6])
    <3>1. h.id = a /\ h.kind = b /\ h.strategy = c /\ h.params = d /\ h.cached = o /\ h.position = pos
      BY <1>1
    <3>2. <<h.id, h.kind, h.strategy>> = <<a, b, c>>
      BY <3>1
    <3>3. (IF h.position = <<>> THEN <<AllOnes>> ELSE h.position) = ws[6]
      BY <1>2, <1>4, <3>1
    <3>4. Run(h.params) = ws[4] /\ Option(h.cached) = ws[5]
      BY <1>4, <3>1
    <3> QED
      BY <1>8, <3>2, <3>3, <3>4, Zenon DEF SerializeIoHandleSnapshot
  <2>8. <<a, b, c>> = (ws[1] \o ws[2]) \o ws[3]
    <3>1. <<a, b, c>> = (<<a>> \o <<b>>) \o <<c>>
      BY TripleIsJoined
    <3>2. ws[1] = <<a>> /\ ws[2] = <<b>> /\ ws[3] = <<c>>
      BY <1>4
    <3> QED
      BY <3>1, <3>2, Zenon
  <2> QED
    BY <2>6, <2>7, <2>8
<1>10. ASSUME NEW data, NEW p, Lies(data, p, w)
       PROVE  /\ SkipIoEntry(data, p) = p + Len(w)
              /\ DeserializeIoHandleSnapshot(data, p) = Done(p + Len(w), h)
  <2>1. PICK read, xs : /\ read = [k \in Nat |-> [q \in Int |-> ReadHandlePart(data, q, k)]]
                        /\ xs = <<a, b, c, d, o, x>>
    OBVIOUS
  <2>2. /\ IsSequence(xs) /\ Len(xs) = 6 /\ xs[1] = a /\ xs[2] = b /\ xs[3] = c /\ xs[4] = d
        /\ xs[5] = o /\ xs[6] = x
    <3>1. xs \in Seq({a, b, c, d, o, x})
      BY <2>1
    <3> QED
      BY <2>1, <3>1 DEF IsSequence
  <2>3. ASSUME NEW k \in 1..6, NEW q, Lies(data, q, ws[k])
        PROVE  read[k][q] = Done(q + Len(ws[k]), xs[k])
    <3>1. q \in Int /\ read[k][q] = ReadHandlePart(data, q, k)
      BY <2>1, <2>3 DEF Lies
    <3>2. CASE k \in {1, 2, 3, 6}
      <4>1. PICK y : ws[k] = <<y>> /\ xs[k] = y
        BY <1>4, <2>2, <3>2
      <4>2. ReadField(data, q) = Done(q + 1, xs[k])
        BY <2>3, <4>1, FieldRead
      <4>3. Len(ws[k]) = 1
        BY <4>1
      <4> QED
        BY <3>1, <3>2, <4>2, <4>3 DEF ReadHandlePart
    <3>3. CASE k = 4
      <4>1. ReadRun(data, q) = Done(q + Len(ws[4]), d)
        BY <1>4, <2>3, <3>3, RunReadsBack DEF RunBack
      <4>2. read[k][q] = ReadRun(data, q)
        BY <3>1, <3>3 DEF ReadHandlePart
      <4> QED
        BY <2>2, <3>3, <4>1, <4>2
    <3>4. CASE k = 5
      <4>1. ReadCached(data, q) = Done(q + Len(ws[5]), o)
        BY <1>4, <2>3, <3>4, CachedReadsBack DEF CachedBack
      <4>2. read[k][q] = ReadCached(data, q)
        BY <3>1, <3>4 DEF ReadHandlePart
      <4> QED
        BY <2>2, <3>4, <4>1, <4>2
    <3> QED
      BY <3>2, <3>3, <3>4
  <2>4. ReadMany(6, p, read) = Done(p + Len(w), xs)
    <3>1. PartsBack(data, 6, ws, read, xs)
      BY <2>2, <2>3 DEF PartsBack
    <3> QED
      BY <1>9, <1>10, <3>1, PartsRead
  <2>5. p + Len(w) \in Nat
    BY <1>9, <1>10, LiesEnds DEF IsJoin
  <2>6. DeserializeIoHandleSnapshot(data, p) = Done(p + Len(w), h)
    <3>1. BuildHandle(xs) = h
      BY <1>1, <1>2, <2>2 DEF BuildHandle
    <3> QED
      BY <2>1, <2>4, <2>5, <3>1, DoneIs DEF DeserializeIoHandleSnapshot, Entry
  <2>7. SkipIoEntry(data, p) = p + Len(w)
    <3>1. PICK at : Lay(at, data, p, 6, ws, w)
      BY <1>9, <1>10 DEF IsJoin
    <3>2. /\ at[0] = p /\ at[6] = p + Len(w) /\ at[1] = at[0] + 1 /\ at[2] = at[1] + 1
          /\ at[3] = at[2] + 1 /\ at[4] = at[3] + Len(ws[4]) /\ Lies(data, at[3], ws[4])
          /\ at[5] = at[4] + Len(ws[5]) /\ Lies(data, at[4], ws[5]) /\ at[6] = at[5] + 1
      <4>1. /\ 1 \in 1..6 /\ 2 \in 1..6 /\ 3 \in 1..6 /\ 4 \in 1..6 /\ 5 \in 1..6 /\ 6 \in 1..6
            /\ 1 - 1 = 0 /\ 2 - 1 = 1 /\ 3 - 1 = 2 /\ 4 - 1 = 3 /\ 5 - 1 = 4 /\ 6 - 1 = 5
        OBVIOUS
      <4> QED
        BY <1>7, <3>1, <4>1 DEF Lay
    <3>3. p \in Nat
      BY <1>10 DEF Lies
    <3>4. at[3] = p + 3
      BY <3>2, <3>3
    <3>5. SkipRun(data, at[3]) = at[4]
      BY <1>4, <3>2, RunReadsBack DEF RunBack
    <3>6. SkipCached(data, at[4]) = at[5] + 1
      BY <1>4, <3>2, CachedReadsBack DEF CachedBack
    <3> QED
      BY <3>2, <3>4, <3>5, <3>6 DEF SkipIoEntry
  <2> QED
    BY <2>6, <2>7
<1> QED
  BY <1>8, <1>9, <1>10 DEF HandleBack, IsJoin

HandlesBack(s) ==
  /\ Counted(SerializeIoHandleSnapshot, s) \in Seq(Int)
  /\ \A data, p : Lies(data, p, Counted(SerializeIoHandleSnapshot, s)) =>
       /\ CountAt(data, p, s)
       /\ SkipCounted(data, p, SkipIoEntry) = p + Len(Counted(SerializeIoHandleSnapshot, s))
       /\ ReadHandles(data, p) = Done(p + Len(Counted(SerializeIoHandleSnapshot, s)), s)

LEMMA HandlesReadBack == \A s \in Seq(FileHandle) : HandlesBack(s)
<1> SUFFICES ASSUME NEW s \in Seq(FileHandle) PROVE HandlesBack(s)
  OBVIOUS
<1>1. PICK ws : ws = [k \in DOMAIN s |-> SerializeIoHandleSnapshot(s[k])]
  OBVIOUS
<1>2. ASSUME NEW data
      PROVE  CountBack(data, ws, s, [q \in Int |-> SkipIoEntry(data, q)],
                       [q \in Int |-> DeserializeIoHandleSnapshot(data, q)])
  <2>1. PICK skip, read : /\ skip = [q \in Int |-> SkipIoEntry(data, q)]
                          /\ read = [q \in Int |-> DeserializeIoHandleSnapshot(data, q)]
    OBVIOUS
  <2>2. ASSUME NEW k \in DOMAIN s PROVE EntryBack(data, ws[k], s[k], skip, read)
    <3>1. ws[k] = SerializeIoHandleSnapshot(s[k]) /\ s[k] \in FileHandle
      BY <1>1
    <3>2. HandleBack(s[k])
      BY <3>1, HandleReadsBack
    <3> QED
      BY <2>1, <3>1, <3>2 DEF EntryBack, HandleBack
  <2>3. ListBack(data, ws, s, skip, read)
    BY <1>1, <2>2 DEF ListBack, IsSequence
  <2> QED
    BY <2>1, <2>3, ListIsBack
<1>3. Counted(SerializeIoHandleSnapshot, s) = Numbered(ws) /\ Numbered(ws) \in Seq(Int)
  BY <1>1, <1>2 DEF Counted, Each, Numbered, Flat, CountBack
<1>4. ASSUME NEW data, NEW p, Lies(data, p, Numbered(ws))
      PROVE  /\ CountAt(data, p, s)
             /\ SkipCounted(data, p, SkipIoEntry) = p + Len(Numbered(ws))
             /\ ReadHandles(data, p) = Done(p + Len(Numbered(ws)), s)
  BY <1>2, <1>4 DEF CountBack, SkipCounted, ReadHandles, ReadCounted
<1> QED
  BY <1>3, <1>4 DEF HandlesBack

\* The tasks that a snapshot can have: the pc of a Yielded task, and of no other.
FileTask(known) ==
  {t \in [id : Int, parent : Seq(Int), status : Int, pc : Seq(Int), children : Seq(Int),
          stack : Seq(FileValue(known)), frames : Seq(FileFrame(known)), handles : Seq(FileHandle)] :
     Len(t.pc) = Pc(t.status)}
TaskBack(known, t) ==
  /\ SerializeTaskSnapshot(t) \in Seq(Int)
  /\ \A data, p : Lies(data, p, SerializeTaskSnapshot(t)) =>
       /\ SkipTaskEntry(data, p) = p + Len(SerializeTaskSnapshot(t))
       /\ ReadTask(data, p, known) = Done(p + Len(SerializeTaskSnapshot(t)), t)

StatusBack(data, p, status, pc) ==
  /\ ReadStatus(data, p) = Done(p + Len(<<status>> \o pc), <<status, pc>>)
  /\ SkipStatus(data, p) = p + Len(<<status>> \o pc)
LEMMA StatusReadsBack ==
  \A status \in Int : \A pc \in Seq(Int) : Len(pc) = Pc(status) =>
    /\ <<status>> \o pc \in Seq(Int)
    /\ \A data, p : Lies(data, p, <<status>> \o pc) => StatusBack(data, p, status, pc)
<1> SUFFICES ASSUME NEW status \in Int, NEW pc \in Seq(Int), Len(pc) = Pc(status)
             PROVE  /\ <<status>> \o pc \in Seq(Int)
                    /\ \A data, p : Lies(data, p, <<status>> \o pc) => StatusBack(data, p, status, pc)
  OBVIOUS
<1>1. PICK n \in Nat : n = Len(pc) /\ n = Pc(status)
  OBVIOUS
<1>2. <<status>> \in Seq(Int) /\ <<status>> \o pc \in Seq(Int)
  OBVIOUS
<1>3. ASSUME NEW data, NEW p, Lies(data, p, <<status>> \o pc) PROVE StatusBack(data, p, status, pc)
  <2>1. First(data, p, status, pc)
    BY <1>3, LiesFirst
  <2>2. /\ Field(data, p) = p + 1 /\ data[p] = status /\ p \in Nat /\ p > 0
        /\ Lies(data, p + 1, pc) /\ p + 1 + n = p + Len(<<status>> \o pc) /\ ~(Field(data, p) < 0)
        /\ ~(p + 1 + n < 0)
    BY <1>1, <2>1 DEF First
  <2>3. ReadUnits(data, p + 1, n) = Done(p + 1 + n, pc)
    BY <1>1, <2>2, UnitsRead
  <2>4. ReadStatus(data, p) = Done(p + 1 + n, <<status, pc>>)
    BY <1>1, <2>2, <2>3, DoneIs DEF ReadStatus, Entry
  <2>5. SkipStatus(data, p) = p + 1 + n
    BY <1>1, <2>2 DEF SkipStatus, At
  <2> QED
    BY <2>2, <2>4, <2>5 DEF StatusBack
<1> QED
  BY <1>2, <1>3

LEMMA TaskReadsBack ==
  ASSUME NEW known, known \subseteq Int, NEW t \in FileTask(known)
  PROVE  TaskBack(known, t)
<1>1. PICK a \in Int, b \in Seq(Int), c \in Int, pc \in Seq(Int), d \in Seq(Int),
           s \in Seq(FileValue(known)), f \in Seq(FileFrame(known)), h \in Seq(FileHandle) :
        /\ t = [id |-> a, parent |-> b, status |-> c, pc |-> pc, children |-> d,
                stack |-> s, frames |-> f, handles |-> h]
        /\ Len(pc) = Pc(c)
  BY DEF FileTask
<1>2. PICK stat, vals, frms, hands :
        /\ stat = <<c>> \o pc /\ vals = Counted(WriteValueRef, s)
        /\ frms = Counted(SerializeFrame, f) /\ hands = Counted(SerializeIoHandleSnapshot, h)
  OBVIOUS
<1>3. /\ stat \in Seq(Int)
      /\ \A data, p : Lies(data, p, stat) => ReadStatus(data, p) = Done(p + Len(stat), <<c, pc>>)
      /\ \A data, p : Lies(data, p, stat) => SkipStatus(data, p) = p + Len(stat)
  BY <1>1, <1>2, StatusReadsBack DEF StatusBack
<1>4. /\ vals \in Seq(Int)
      /\ \A data, p : Lies(data, p, vals) => ReadValues(data, p, known) = Done(p + Len(vals), s)
      /\ \A data, p : Lies(data, p, vals) => SkipValues(data, p) = p + Len(vals)
  <2>1. ValuesBack(known, s)
    BY ValuesReadBack
  <2> QED
    BY <1>2, <2>1 DEF ValuesBack
<1>5. /\ frms \in Seq(Int)
      /\ \A data, p : Lies(data, p, frms) => ReadFrames(data, p, known) = Done(p + Len(frms), f)
      /\ \A data, p : Lies(data, p, frms) => SkipCounted(data, p, SkipFrameEntry) = p + Len(frms)
  <2>1. FramesBack(known, f)
    BY FramesReadBack
  <2> QED
    BY <1>2, <2>1 DEF FramesBack
<1>6. /\ hands \in Seq(Int)
      /\ \A data, p : Lies(data, p, hands) => ReadHandles(data, p) = Done(p + Len(hands), h)
      /\ \A data, p : Lies(data, p, hands) => SkipCounted(data, p, SkipIoEntry) = p + Len(hands)
  <2>1. HandlesBack(h)
    BY HandlesReadBack
  <2> QED
    BY <1>2, <2>1 DEF HandlesBack
<1>7. PICK ws : ws = <<<<a>>, Run(b), stat, Run(d), vals, frms, hands>>
  OBVIOUS
<1>8. /\ ws[1] = <<a>> /\ ws[2] = Run(b) /\ ws[3] = stat /\ ws[4] = Run(d) /\ ws[5] = vals
      /\ ws[6] = frms /\ ws[7] = hands
  BY <1>7
<1>9. ws[1] \in Seq(Int) /\ Len(ws[1]) = 1
  BY <1>8
<1>10. /\ ws[2] \in Seq(Int) /\ ws[3] \in Seq(Int) /\ ws[4] \in Seq(Int) /\ ws[5] \in Seq(Int)
       /\ ws[6] \in Seq(Int) /\ ws[7] \in Seq(Int)
  BY <1>3, <1>4, <1>5, <1>6, <1>8, RunReadsBack
<1>11. PICK w : w = SerializeTaskSnapshot(t)
  OBVIOUS
<1>12. IsJoin(7, ws, w)
  <2>1. IsJoin(1, ws, ws[1])
    BY <1>9, JoinOne
  <2>2. IsJoin(2, ws, ws[1] \o ws[2])
    BY <1>10, <2>1, JoinNext
  <2>3. IsJoin(3, ws, (ws[1] \o ws[2]) \o ws[3])
    BY <1>10, <2>2, JoinNext
  <2>4. IsJoin(4, ws, ((ws[1] \o ws[2]) \o ws[3]) \o ws[4])
    BY <1>10, <2>3, JoinNext
  <2>5. IsJoin(5, ws, (((ws[1] \o ws[2]) \o ws[3]) \o ws[4]) \o ws[5])
    BY <1>10, <2>4, JoinNext
  <2>6. IsJoin(6, ws, ((((ws[1] \o ws[2]) \o ws[3]) \o ws[4]) \o ws[5]) \o ws[6])
    BY <1>10, <2>5, JoinNext
  <2>7. IsJoin(7, ws, (((((ws[1] \o ws[2]) \o ws[3]) \o ws[4]) \o ws[5]) \o ws[6]) \o ws[7])
    BY <1>10, <2>6, JoinNext
  <2>8. w = (((((ws[1] \o ws[2]) \o ws[3]) \o ws[4]) \o ws[5]) \o ws[6]) \o ws[7]
    BY <1>1, <1>2, <1>8, <1>11 DEF SerializeTaskSnapshot
  <2> QED
    BY <2>7, <2>8
<1>13. ASSUME NEW data, NEW p, Lies(data, p, w)
       PROVE  /\ SkipTaskEntry(data, p) = p + Len(w)
              /\ ReadTask(data, p, known) = Done(p + Len(w), t)
  <2>1. PICK read, xs : /\ read = [k \in Nat |-> [q \in Int |-> ReadTaskPart(data, q, known, k)]]
                        /\ xs = <<a, b, <<c, pc>>, d, s, f, h>>
    OBVIOUS
  <2>2. /\ IsSequence(xs) /\ Len(xs) = 7 /\ xs[1] = a /\ xs[2] = b /\ xs[3] = <<c, pc>> /\ xs[4] = d
        /\ xs[5] = s /\ xs[6] = f /\ xs[7] = h
    <3>1. xs \in Seq({a, b, <<c, pc>>, d, s, f, h})
      BY <2>1
    <3> QED
      BY <2>1, <3>1 DEF IsSequence
  <2>3. ASSUME NEW k \in 1..7, NEW q, Lies(data, q, ws[k])
        PROVE  read[k][q] = Done(q + Len(ws[k]), xs[k])
    <3>1. q \in Int /\ read[k][q] = ReadTaskPart(data, q, known, k)
      <4>1. q \in Int
        BY <2>3 DEF Lies
      <4> QED
        BY <2>1, <4>1
    <3>2. CASE k = 1
      <4>1. ReadField(data, q) = Done(q + 1, a)
        BY <1>8, <2>3, <3>2, FieldRead
      <4>2. read[k][q] = ReadField(data, q)
        BY <3>1, <3>2 DEF ReadTaskPart
      <4> QED
        BY <1>9, <2>2, <3>2, <4>1, <4>2
    <3>3. CASE k \in {2, 4}
      <4>1. PICK y \in Seq(Int) : ws[k] = Run(y) /\ xs[k] = y
        <5>1. CASE k = 2
          <6>1. b \in Seq(Int) /\ ws[k] = Run(b) /\ xs[k] = b
            BY <1>1, <1>8, <2>2, <5>1
          <6> QED
            BY <6>1
        <5>2. CASE k = 4
          <6>1. d \in Seq(Int) /\ ws[k] = Run(d) /\ xs[k] = d
            BY <1>1, <1>8, <2>2, <5>2
          <6> QED
            BY <6>1
        <5> QED
          BY <3>3, <5>1, <5>2
      <4>2. ReadRun(data, q) = Done(q + Len(ws[k]), y)
        BY <2>3, <4>1, RunReadsBack DEF RunBack
      <4>3. read[k][q] = ReadRun(data, q)
        <5>1. ReadTaskPart(data, q, known, 2) = ReadRun(data, q)
          BY DEF ReadTaskPart
        <5>2. ReadTaskPart(data, q, known, 4) = ReadRun(data, q)
          BY DEF ReadTaskPart
        <5> QED
          BY <3>1, <3>3, <5>1, <5>2
      <4> QED
        BY <4>1, <4>2, <4>3
    <3>4. CASE k = 3
      <4>1. ReadStatus(data, q) = Done(q + Len(ws[k]), xs[k])
        BY <1>3, <1>8, <2>2, <2>3, <3>4
      <4> QED
        BY <3>1, <3>4, <4>1 DEF ReadTaskPart
    <3>5. CASE k = 5
      <4>1. ReadValues(data, q, known) = Done(q + Len(ws[k]), xs[k])
        BY <1>4, <1>8, <2>2, <2>3, <3>5
      <4> QED
        BY <3>1, <3>5, <4>1 DEF ReadTaskPart
    <3>6. CASE k = 6
      <4>1. ReadFrames(data, q, known) = Done(q + Len(ws[k]), xs[k])
        BY <1>5, <1>8, <2>2, <2>3, <3>6
      <4> QED
        BY <3>1, <3>6, <4>1 DEF ReadTaskPart
    <3>7. CASE k = 7
      <4>1. ReadHandles(data, q) = Done(q + Len(ws[k]), xs[k])
        BY <1>6, <1>8, <2>2, <2>3, <3>7
      <4> QED
        BY <3>1, <3>7, <4>1 DEF ReadTaskPart
    <3> QED
      BY <3>2, <3>3, <3>4, <3>5, <3>6, <3>7
  <2>4. ReadMany(7, p, read) = Done(p + Len(w), xs)
    <3>1. PartsBack(data, 7, ws, read, xs)
      BY <2>2, <2>3 DEF PartsBack
    <3> QED
      BY <1>12, <1>13, <3>1, PartsRead
  <2>5. p + Len(w) \in Nat
    BY <1>12, <1>13, LiesEnds DEF IsJoin
  <2>6. ReadTask(data, p, known) = Done(p + Len(w), t)
    <3>1. BuildTask(xs) = t
      <4>1. xs[3][1] = c /\ xs[3][2] = pc
        BY <2>2
      <4> QED
        BY <1>1, <2>2, <4>1 DEF BuildTask
    <3>2. PICK r : r = ReadMany(7, p, read)
      OBVIOUS
    <3>3. ~(r.at < 0) /\ r.at = p + Len(w) /\ r.val = xs
      BY <2>4, <2>5, <3>2, DoneIs
    <3>4. ReadTask(data, p, known) = Done(r.at, BuildTask(r.val))
      BY <2>1, <3>2, <3>3 DEF ReadTask, Entry
    <3> QED
      BY <3>1, <3>3, <3>4
  <2>7. SkipTaskEntry(data, p) = p + Len(w)
    <3>1. PICK at : Lay(at, data, p, 7, ws, w)
      BY <1>12, <1>13 DEF IsJoin
    <3>2. /\ at[0] = p /\ at[7] = p + Len(w) /\ at[1] = at[0] + 1
          /\ at[2] = at[1] + Len(Run(b)) /\ Lies(data, at[1], Run(b))
          /\ at[3] = at[2] + Len(stat) /\ Lies(data, at[2], stat)
          /\ at[4] = at[3] + Len(Run(d)) /\ Lies(data, at[3], Run(d))
          /\ at[5] = at[4] + Len(vals) /\ Lies(data, at[4], vals)
          /\ at[6] = at[5] + Len(frms) /\ Lies(data, at[5], frms)
          /\ at[7] = at[6] + Len(hands) /\ Lies(data, at[6], hands)
      <4>1. /\ 1 \in 1..7 /\ 2 \in 1..7 /\ 3 \in 1..7 /\ 4 \in 1..7 /\ 5 \in 1..7 /\ 6 \in 1..7
            /\ 7 \in 1..7 /\ 1 - 1 = 0 /\ 2 - 1 = 1 /\ 3 - 1 = 2 /\ 4 - 1 = 3 /\ 5 - 1 = 4
            /\ 6 - 1 = 5 /\ 7 - 1 = 6
        OBVIOUS
      <4> QED
        BY <1>8, <1>9, <3>1, <4>1 DEF Lay
    <3>3. SkipRun(data, p + 1) = at[2]
      BY <3>2, RunReadsBack DEF RunBack
    <3>4. SkipRun(data, at[3]) = at[4]
      <4>1. PICK x, y : x = at[3] /\ y = at[4]
        OBVIOUS
      <4>2. Lies(data, x, Run(d)) /\ y = x + Len(Run(d))
        BY <3>2, <4>1
      <4>3. SkipRun(data, x) = x + Len(Run(d))
        BY <4>2, RunReadsBack DEF RunBack
      <4> QED
        BY <4>1, <4>2, <4>3
    <3>5. SkipStatus(data, at[2]) = at[3] /\ SkipValues(data, at[4]) = at[5]
      BY <1>3, <1>4, <3>2
    <3>6. /\ SkipCounted(data, at[5], SkipFrameEntry) = at[6]
          /\ SkipCounted(data, at[6], SkipIoEntry) = at[7]
      BY <1>5, <1>6, <3>2
    <3> QED
      BY <3>2, <3>3, <3>4, <3>5, <3>6 DEF SkipTaskEntry
  <2> QED
    BY <2>6, <2>7
<1> QED
  BY <1>11, <1>12, <1>13 DEF TaskBack, IsJoin

ReadEntries(data, p, known) == ReadCounted(data, p, LAMBDA q : ReadTask(data, q, known))
TasksBack(known, s) ==
  /\ Counted(SerializeTaskSnapshot, s) \in Seq(Int)
  /\ \A data, p : Lies(data, p, Counted(SerializeTaskSnapshot, s)) =>
       /\ CountAt(data, p, s)
       /\ SkipCounted(data, p, SkipTaskEntry) = p + Len(Counted(SerializeTaskSnapshot, s))
       /\ ReadEntries(data, p, known) = Done(p + Len(Counted(SerializeTaskSnapshot, s)), s)

LEMMA TasksReadBack ==
  ASSUME NEW known, known \subseteq Int, NEW s \in Seq(FileTask(known))
  PROVE  TasksBack(known, s)
<1>1. PICK ws : ws = [k \in DOMAIN s |-> SerializeTaskSnapshot(s[k])]
  OBVIOUS
<1>2. ASSUME NEW data
      PROVE  CountBack(data, ws, s, [q \in Int |-> SkipTaskEntry(data, q)],
                       [q \in Int |-> ReadTask(data, q, known)])
  <2>1. PICK skip, read : /\ skip = [q \in Int |-> SkipTaskEntry(data, q)]
                          /\ read = [q \in Int |-> ReadTask(data, q, known)]
    OBVIOUS
  <2>2. ASSUME NEW k \in DOMAIN s PROVE EntryBack(data, ws[k], s[k], skip, read)
    <3>1. ws[k] = SerializeTaskSnapshot(s[k]) /\ s[k] \in FileTask(known)
      BY <1>1
    <3>2. TaskBack(known, s[k])
      BY <3>1, TaskReadsBack
    <3> QED
      BY <2>1, <3>1, <3>2 DEF EntryBack, TaskBack
  <2>3. ListBack(data, ws, s, skip, read)
    BY <1>1, <2>2 DEF ListBack, IsSequence
  <2> QED
    BY <2>1, <2>3, ListIsBack
<1>3. Counted(SerializeTaskSnapshot, s) = Numbered(ws) /\ Numbered(ws) \in Seq(Int)
  BY <1>1, <1>2 DEF Counted, Each, Numbered, Flat, CountBack
<1>4. ASSUME NEW data, NEW p, Lies(data, p, Numbered(ws))
      PROVE  /\ CountAt(data, p, s)
             /\ SkipCounted(data, p, SkipTaskEntry) = p + Len(Numbered(ws))
             /\ ReadEntries(data, p, known) = Done(p + Len(Numbered(ws)), s)
  BY <1>2, <1>4 DEF CountBack, SkipCounted, ReadEntries, ReadCounted
<1> QED
  BY <1>3, <1>4 DEF TasksBack

-----------------------------------------------------------------------------
(* The heap section, of which an object may refer to the objects before it.*)

FileHeap(objects) ==
  IsSequence(objects) /\ \A k \in DOMAIN objects : objects[k] \in FileObject(1..k - 1)
ObjectsBack(objects) ==
  /\ \A data, p : Lies(data, p, Each(SerializeHeapObject, objects)) =>
       Times(Len(objects), p, [q \in Int |-> SkipHeapObject(data, q)])
         = p + Len(Each(SerializeHeapObject, objects))
  /\ \A data : Lies(data, 1, Each(SerializeHeapObject, objects)) =>
       RestoredObjects(data, Len(objects)) = Done(1 + Len(Each(SerializeHeapObject, objects)), objects)

\* What the objects are written as.
ObjectFields(objects) == [k \in DOMAIN objects |-> SerializeHeapObject(objects[k])]
\* Objects that refer to others anywhere are passed over all the same.
AnyHeap(known, objects) == IsSequence(objects) /\ \A k \in DOMAIN objects : objects[k] \in FileObject(known)
HeapWritten(objects) ==
  /\ Each(SerializeHeapObject, objects) = Flat(ObjectFields(objects))
  /\ ObjectFields(objects) \in Seq(Seq(Int)) /\ Len(ObjectFields(objects)) = Len(objects)
  /\ DOMAIN objects = 1..Len(objects) /\ Len(objects) \in Nat
  /\ Each(SerializeHeapObject, objects) \in Seq(Int)
  /\ \A data, p : Lies(data, p, Each(SerializeHeapObject, objects)) =>
       Times(Len(objects), p, [q \in Int |-> SkipHeapObject(data, q)])
         = p + Len(Each(SerializeHeapObject, objects))

LEMMA ObjectsPassed ==
  \A known, objects : known \subseteq Int /\ AnyHeap(known, objects) => HeapWritten(objects)
<1> SUFFICES ASSUME NEW known, NEW objects, known \subseteq Int, AnyHeap(known, objects)
             PROVE  HeapWritten(objects)
  OBVIOUS
<1>1. PICK ws : ws = ObjectFields(objects)
  OBVIOUS
<1>2. ASSUME NEW k \in DOMAIN objects
      PROVE  ws[k] = SerializeHeapObject(objects[k]) /\ ObjectBack(known, objects[k])
  <2>1. objects[k] \in FileObject(known)
    BY DEF AnyHeap
  <2> QED
    BY <1>1, <2>1, ObjectReadsBack DEF ObjectFields
<1>3. \A k \in DOMAIN objects : ws[k] \in Seq(Int)
  BY <1>2 DEF ObjectBack
<1>4. IsSequence(objects) /\ ws = [k \in DOMAIN objects |-> ws[k]]
  BY <1>1 DEF ObjectFields, AnyHeap
<1>5. /\ ws \in Seq(Seq(Int)) /\ Len(ws) = Len(objects)
      /\ DOMAIN objects = 1..Len(objects) /\ Len(objects) \in Nat
  BY <1>3, <1>4, SameLength
<1>6. Each(SerializeHeapObject, objects) = Flat(ws)
  BY <1>1 DEF Each, Flat, ObjectFields
<1>7. Flat(ws) \in Seq(Int)
  BY <1>5, Flattened DEF Flat
<1>8. ASSUME NEW data, NEW p, Lies(data, p, Flat(ws))
      PROVE  Times(Len(objects), p, [q \in Int |-> SkipHeapObject(data, q)]) = p + Len(Flat(ws))
  <2>1. PICK skip : skip = [q \in Int |-> SkipHeapObject(data, q)]
    OBVIOUS
  <2>2. ASSUME NEW k \in 1..Len(ws), NEW q \in Int, Lies(data, q, ws[k])
        PROVE  skip[q] = q + Len(ws[k])
    <3>1. ws[k] = SerializeHeapObject(objects[k]) /\ ObjectBack(known, objects[k])
      BY <1>2, <1>5
    <3> QED
      BY <2>1, <2>2, <3>1 DEF ObjectBack
  <2>3. Passes(skip, data, ws)
    BY <2>2 DEF Passes
  <2> QED
    BY <1>5, <1>8, <2>1, <2>3, TimesPasses
<1> QED
  BY <1>1, <1>5, <1>6, <1>7, <1>8 DEF HeapWritten

LEMMA ObjectsReadBack ==
  \A objects : FileHeap(objects) => HeapWritten(objects) /\ ObjectsBack(objects)
<1> SUFFICES ASSUME NEW objects, FileHeap(objects) PROVE HeapWritten(objects) /\ ObjectsBack(objects)
  OBVIOUS
<1>1. AnyHeap(Int, objects)
  <2>1. ASSUME NEW k \in DOMAIN objects PROVE objects[k] \in FileObject(Int)
    <3>1. objects[k] \in FileObject(1..k - 1)
      BY DEF FileHeap
    <3>2. FileValue(1..k - 1) \subseteq FileValue(Int)
      BY DEF FileValue
    <3>3. Seq(FileValue(1..k - 1)) \subseteq Seq(FileValue(Int))
      BY <3>2
    <3> QED
      BY <3>1, <3>3 DEF FileObject
  <2> QED
    BY <2>1 DEF AnyHeap, FileHeap
<1>2. HeapWritten(objects)
  BY <1>1, ObjectsPassed
<1>3. PICK ws, n : ws = ObjectFields(objects) /\ n = Len(objects)
  OBVIOUS
<1>4. /\ Each(SerializeHeapObject, objects) = Flat(ws) /\ ws \in Seq(Seq(Int)) /\ Len(ws) = n
      /\ DOMAIN objects = 1..n /\ n \in Nat
  BY <1>2, <1>3 DEF HeapWritten
<1>5. ASSUME NEW data, Lies(data, 1, Flat(ws))
      PROVE  RestoredObjects(data, n) = Done(1 + Len(Flat(ws)), objects)
  <2>1. PICK read : read = [k \in Nat |-> [p \in Int |-> ReadHeapObject(data, p, 1..k - 1)]]
    OBVIOUS
  <2>2. ASSUME NEW k \in 1..n, NEW q \in Int, Lies(data, q, ws[k])
        PROVE  read[k][q] = Done(q + Len(ws[k]), objects[k])
    <3>1. ws[k] = SerializeHeapObject(objects[k])
      BY <1>3, <1>4 DEF ObjectFields
    <3>2. objects[k] \in FileObject(1..k - 1) /\ 1..k - 1 \subseteq Int
      <4>1. k \in DOMAIN objects /\ k \in Nat
        BY <1>4
      <4>2. 1..k - 1 \subseteq Int
        BY <4>1
      <4> QED
        BY <4>1, <4>2, Zenon DEF FileHeap
    <3>3. ObjectBack(1..k - 1, objects[k])
      BY <3>2, ObjectReadsBack
    <3>4. ReadHeapObject(data, q, 1..k - 1) = Done(q + Len(ws[k]), objects[k])
      BY <2>2, <3>1, <3>3 DEF ObjectBack
    <3>5. k \in Nat
      BY <1>4
    <3> QED
      BY <2>1, <3>4, <3>5
  <2>3. Makes(read, data, ws, objects)
    BY <1>3, <1>4, <2>2 DEF Makes, FileHeap
  <2>4. ReadMany(n, 1, read) = Done(1 + Len(Flat(ws)), objects)
    BY <1>4, <1>5, <2>3, ReadManyMakes
  <2> QED
    BY <2>1, <2>4 DEF RestoredObjects
<1> QED
  BY <1>2, <1>3, <1>4, <1>5 DEF ObjectsBack, HeapWritten

-----------------------------------------------------------------------------
(* Files cut short.                                                        *)

\* d is what there is of w.
Begins(d, w) ==
  /\ IsSequence(d) /\ Len(d) \in Nat /\ DOMAIN d = 1..Len(d)
  /\ \A k \in 1..Len(d) : d[k] = w[k]
\* An error, or a position that the file does not have.
Lost(d, p) == p \in Int /\ (p < 0 \/ p > Len(d) + 1)
\* What was to lead to q does so where d goes as far, and is lost otherwise.
Leads(d, p, q) == IF q <= Len(d) + 1 THEN p = q ELSE Lost(d, p)

LEMMA StillLies ==
  \A d, w, p : \A x \in Seq(Int) :
    Begins(d, w) /\ Lies(w, p, x) /\ p + Len(x) <= Len(d) + 1 => Lies(d, p, x)
<1> SUFFICES ASSUME NEW d, NEW w, NEW p, NEW x \in Seq(Int), Begins(d, w), Lies(w, p, x),
                    p + Len(x) <= Len(d) + 1
             PROVE  Lies(d, p, x)
  OBVIOUS
<1>0. Len(d) \in Nat /\ Len(x) \in Nat
  BY DEF Begins
<1>1. PICK n \in Nat, l \in Nat : n = Len(x) /\ l = Len(d)
  BY <1>0
<1>2. p \in Nat \ {0} /\ p + n <= l + 1 /\ \A k \in 1..n : w[p + k - 1] = x[k]
  BY <1>1 DEF Lies
<1>3. ASSUME NEW k \in 1..n PROVE d[p + k - 1] = x[k]
  <2>1. p + k - 1 \in 1..l
    BY <1>2
  <2>2. d[p + k - 1] = w[p + k - 1]
    BY <1>1, <2>1 DEF Begins
  <2> QED
    BY <1>2, <2>2
<1> QED
  BY <1>1, <1>2, <1>3 DEF Lies, Begins

\* A field beyond the end is not there.
LEMMA FieldLost ==
  \A d, w, p : Begins(d, w) /\ Lost(d, p) =>
    Field(d, p) < 0 /\ \A q : At(Field(d, p), q) = Field(d, p) /\ Lost(d, Field(d, p))
<1> SUFFICES ASSUME NEW d, NEW w, NEW p, Begins(d, w), Lost(d, p)
             PROVE  Field(d, p) < 0 /\ \A q : At(Field(d, p), q) = Field(d, p) /\ Lost(d, Field(d, p))
  OBVIOUS
<1>1. Field(d, p) \in Int /\ Field(d, p) < 0
  <2>1. CASE p < 0
    BY <2>1 DEF Field, Present, At, Lost
  <2>2. CASE ~(p < 0)
    <3>1. PICK l \in Nat : l = Len(d) /\ DOMAIN d = 1..l
      BY DEF Begins
    <3>2. p \notin 1..l
      BY <2>2, <3>1 DEF Lost
    <3> QED
      BY <2>2, <3>1, <3>2 DEF Field, Present, At, Eof
  <2> QED
    BY <2>1, <2>2
<1> QED
  BY <1>1 DEF At, Lost

\* A field is there, as it was written, or not.
FieldThere(d, w, p) == p \in DOMAIN d /\ p <= Len(d) /\ d[p] = w[p] /\ Field(d, p) = p + 1
FieldGone(d, p) == p > Len(d) /\ Field(d, p) < 0 /\ \A q : Lost(d, At(Field(d, p), q))
LEMMA FieldCut ==
  \A d, w : \A p \in Nat \ {0} : Begins(d, w) => FieldThere(d, w, p) \/ FieldGone(d, p)
<1> SUFFICES ASSUME NEW d, NEW w, NEW p \in Nat \ {0}, Begins(d, w)
             PROVE  FieldThere(d, w, p) \/ FieldGone(d, p)
  OBVIOUS
<1>1. PICK l \in Nat : l = Len(d) /\ DOMAIN d = 1..l
  BY DEF Begins
<1>2. CASE p <= l
  <2>1. p \in 1..l
    BY <1>2
  <2> QED
    BY <1>1, <1>2, <2>1 DEF Begins, FieldThere, Field, Present, At
<1>3. CASE p > l
  <2>1. p \notin 1..l
    BY <1>3
  <2>2. Field(d, p) = Eof /\ Eof \in Int /\ Eof < 0
    BY <1>1, <2>1 DEF Field, Present, At, Eof
  <2> QED
    BY <1>1, <1>3, <2>2 DEF FieldGone, At, Lost
<1> QED
  BY <1>2, <1>3

\* The positions that a loop comes to.
LoopsOver(f, n, p, skip) == f[0] = p /\ \A k \in 1..n : f[k] = Then(f[k - 1], skip)
LoopTo(n, p, skip) == \E f : LoopsOver(f, n, p, skip) /\ Times(n, p, skip) = f[n]
LEMMA TimesIs == \A n \in Nat : \A p, skip : LoopTo(n, p, skip)
<1> SUFFICES ASSUME NEW n \in Nat, NEW p, NEW skip PROVE LoopTo(n, p, skip)
  OBVIOUS
<1> DEFINE Eqn(f, m) == f = [k \in 0..m |-> IF k = 0 THEN p ELSE Then(f[k - 1], skip)]
           Z == {m \in 0..n : \E f : Eqn(f, m)}
           after == CHOOSE f : Eqn(f, n)
<1>1. 0 \in Z
  <2>1. PICK f : f = [k \in 0..0 |-> p]
    OBVIOUS
  <2>2. Eqn(f, 0)
    <3>1. \A k \in 0..0 : k = 0
      OBVIOUS
    <3>2. [k \in 0..0 |-> p] = [k \in 0..0 |-> IF k = 0 THEN p ELSE Then(f[k - 1], skip)]
      BY <3>1
    <3> QED
      BY <2>1, <3>2
  <2> QED
    BY <2>2
<1>2. ASSUME NEW m \in 1..n, m - 1 \in Z PROVE m \in Z
  <2>1. PICK f : Eqn(f, m - 1)
    BY <1>2
  <2>2. PICK x : x = Then(f[m - 1], skip)
    OBVIOUS
  <2>3. PICK g : g = [k \in 0..m |-> IF k = m THEN x ELSE f[k]]
    OBVIOUS
  <2>4. ASSUME NEW k \in 0..m PROVE g[k] = IF k = 0 THEN p ELSE Then(g[k - 1], skip)
    <3>1. CASE k = m
      <4>1. k - 1 \in 0..m /\ k - 1 # m /\ k # 0
        BY <3>1
      <4> QED
        BY <2>2, <2>3, <3>1, <4>1
    <3>2. CASE k # m
      <4>1. k \in 0..m - 1 /\ g[k] = f[k]
        BY <2>3, <3>2
      <4>2. f[k] = IF k = 0 THEN p ELSE Then(f[k - 1], skip)
        BY <2>1, <4>1
      <4>3. k # 0 => k - 1 \in 0..m /\ k - 1 # m
        BY <3>2
      <4>4. k # 0 => g[k - 1] = f[k - 1]
        BY <2>3, <4>3
      <4> QED
        BY <4>1, <4>2, <4>4
    <3> QED
      BY <3>1, <3>2
  <2>5. g = [k \in 0..m |-> g[k]]
    BY <2>3
  <2>6. Eqn(g, m)
    BY <2>4, <2>5
  <2> HIDE DEF Eqn
  <2> QED
    BY <2>6
<1> HIDE DEF Z
<1>3. \A k \in 0..n : k \in Z
  BY <1>1, <1>2, StepByStep
<1>4. \E f : Eqn(f, n)
  <2>1. n \in Z
    BY <1>3
  <2> HIDE DEF Eqn
  <2> QED
    BY <2>1 DEF Z
<1>5. Eqn(after, n)
  <2> HIDE DEF Eqn
  <2> QED
    BY <1>4
<1>6. Times(n, p, skip) = after[n]
  BY DEF Times
<1> HIDE DEF after
<1>7. LoopsOver(after, n, p, skip)
  BY <1>5 DEF LoopsOver
<1> QED
  BY <1>6, <1>7 DEF LoopTo

\* A loop over what was written, in what there is of it.
CutPasses(d, w, skip, ws) ==
  /\ \A k \in 1..Len(ws) : \A q \in Nat : Lies(w, q, ws[k]) => Leads(d, skip[q], q + Len(ws[k]))
  /\ \A q \in Nat : Lost(d, q) => Lost(d, skip[q])
LEMMA TimesCut ==
  \A d, w, p, skip : \A ws \in Seq(Seq(Int)) :
    Begins(d, w) /\ Lies(w, p, Flat(ws)) /\ CutPasses(d, w, skip, ws)
      => Leads(d, Times(Len(ws), p, skip), p + Len(Flat(ws)))
<1> SUFFICES ASSUME NEW d, NEW w, NEW p, NEW skip, NEW ws \in Seq(Seq(Int)),
                    Begins(d, w), Lies(w, p, Flat(ws)), CutPasses(d, w, skip, ws)
             PROVE  Leads(d, Times(Len(ws), p, skip), p + Len(Flat(ws)))
  OBVIOUS
<1>1. PICK at : IsChain(at, w, p, ws)
  BY LiesList
<1>0. Len(d) \in Nat /\ Len(ws) \in Nat
  BY DEF Begins
<1>2. PICK n \in Nat, l \in Nat : n = Len(ws) /\ l = Len(d)
  BY <1>0
<1>3. /\ at \in [0..n -> Nat] /\ at[0] = p /\ at[n] = p + Len(Flat(ws))
      /\ \A k \in 1..n : at[k] = at[k - 1] + Len(ws[k]) /\ Lies(w, at[k - 1], ws[k])
  BY <1>1, <1>2 DEF IsChain
<1>4. PICK f : LoopsOver(f, n, p, skip) /\ Times(n, p, skip) = f[n]
  BY TimesIs DEF LoopTo
<1>5. Leads(d, f[0], at[0])
  <2>1. PICK q \in Nat : q = p /\ f[0] = q /\ at[0] = q
    BY <1>3, <1>4 DEF LoopsOver
  <2>2. Leads(d, q, q)
    BY <1>2 DEF Leads, Lost
  <2> QED
    BY <2>1, <2>2
<1>6. ASSUME NEW k \in 1..n, Leads(d, f[k - 1], at[k - 1]) PROVE Leads(d, f[k], at[k])
  <2>1. PICK a \in Nat, b \in Nat, m \in Nat :
          a = at[k - 1] /\ b = at[k] /\ m = Len(ws[k]) /\ b = a + m
    <3>1. k - 1 \in 0..n /\ k \in 0..n /\ at[k - 1] \in Nat /\ at[k] \in Nat
      BY <1>3
    <3>2. Len(ws[k]) \in Nat
      BY <1>2
    <3> QED
      BY <1>3, <3>1, <3>2
  <2>2. f[k] = Then(f[k - 1], skip) /\ Leads(d, f[k - 1], a)
    BY <1>4, <1>6, <2>1 DEF LoopsOver
  <2>3. /\ Lies(w, a, ws[k]) => Leads(d, skip[a], b)
        /\ Lies(w, a, ws[k])
        /\ \A q \in Nat : Lost(d, q) => Lost(d, skip[q])
    BY <1>2, <1>3, <2>1 DEF CutPasses
  <2>4. CASE a <= l + 1
    <3>1. f[k - 1] = a /\ ~(a < 0)
      BY <1>2, <2>2, <2>4 DEF Leads
    <3> QED
      BY <2>1, <2>2, <2>3, <3>1 DEF Then
  <2>5. CASE ~(a <= l + 1)
    <3>1. Lost(d, f[k - 1])
      BY <1>2, <2>2, <2>5 DEF Leads
    <3>2. Lost(d, f[k])
      <4>1. CASE f[k - 1] < 0
        BY <2>2, <3>1, <4>1 DEF Then
      <4>2. CASE ~(f[k - 1] < 0)
        <5>1. f[k - 1] \in Nat
          BY <3>1, <4>2 DEF Lost
        <5> QED
          BY <2>2, <2>3, <3>1, <4>2, <5>1 DEF Then
      <4> QED
        BY <4>1, <4>2
    <3>3. ~(b <= l + 1)
      BY <2>1, <2>5
    <3> QED
      BY <1>2, <2>1, <3>2, <3>3 DEF Leads
  <2> QED
    BY <2>4, <2>5
<1>7. Leads(d, f[n], at[n])
  <2> DEFINE Z == {k \in 0..n : Leads(d, f[k], at[k])}
  <2>1. 0 \in Z
    BY <1>5
  <2>2. \A k \in 1..n : k - 1 \in Z => k \in Z
    BY <1>6
  <2>3. \A k \in 0..n : k \in Z
    <3> HIDE DEF Z
    <3> QED
      BY <2>1, <2>2, StepByStep
  <2> QED
    BY <2>3
<1> QED
  BY <1>2, <1>3, <1>4, <1>7

LEMMA NumberedCut ==
  \A d, w, p, skip : \A ws \in Seq(Seq(Int)) :
    Begins(d, w) /\ Lies(w, p, Numbered(ws)) /\ CutPasses(d, w, skip, ws)
      => Leads(d, At(Field(d, p), Times(d[p], p + 1, skip)), p + Len(Numbered(ws)))
<1> SUFFICES ASSUME NEW d, NEW w, NEW p, NEW skip, NEW ws \in Seq(Seq(Int)),
                    Begins(d, w), Lies(w, p, Numbered(ws)), CutPasses(d, w, skip, ws)
             PROVE  Leads(d, At(Field(d, p), Times(d[p], p + 1, skip)), p + Len(Numbered(ws)))
  OBVIOUS
<1>1. /\ w[p] = Len(ws) /\ p \in Nat \ {0} /\ Lies(w, p + 1, Flat(ws))
      /\ p + 1 + Len(Flat(ws)) = p + Len(Numbered(ws))
  BY NumberedLies
<1>2. CASE FieldThere(d, w, p)
  <2>1. Leads(d, Times(d[p], p + 1, skip), p + Len(Numbered(ws)))
    <3>1. d[p] = Len(ws)
      BY <1>1, <1>2 DEF FieldThere
    <3>2. Leads(d, Times(Len(ws), p + 1, skip), p + 1 + Len(Flat(ws)))
      BY <1>1, TimesCut
    <3> QED
      BY <1>1, <3>1, <3>2
  <2>2. ~(Field(d, p) < 0)
    BY <1>1, <1>2 DEF FieldThere
  <2> QED
    BY <2>1, <2>2 DEF At
<1>3. CASE FieldGone(d, p)
  <2>1. ~(p + Len(Numbered(ws)) <= Len(d) + 1)
    <3>1. PICK m \in Nat, l \in Nat : m = Len(Flat(ws)) /\ l = Len(d)
      <4>1. Flat(ws) \in Seq(Int)
        BY Flattened DEF Flat
      <4>2. Len(Flat(ws)) \in Nat /\ Len(d) \in Nat
        BY <4>1 DEF Begins
      <4> QED
        BY <4>2
    <3>2. p > l
      BY <1>3, <3>1 DEF FieldGone
    <3>3. ~(p + 1 + m <= l + 1)
      BY <1>1, <3>2
    <3> QED
      BY <1>1, <3>1, <3>3
  <2> QED
    BY <1>3, <2>1 DEF Leads, FieldGone
<1> QED
  BY <1>1, <1>2, <1>3, FieldCut

\* An entry that leads on from q does so from wherever what is before it leads.
LEMMA Onward ==
  \A d, p, a, b : \A q \in Nat : \A n \in Nat :
    /\ Len(d) \in Nat /\ Leads(d, p, q) /\ Leads(d, a, q + n)
    /\ p = q => b = a
    /\ Lost(d, p) => Lost(d, b)
    => Leads(d, b, q + n)
<1> SUFFICES ASSUME NEW d, NEW p, NEW a, NEW b, NEW q \in Nat, NEW n \in Nat,
                    Len(d) \in Nat, Leads(d, p, q), Leads(d, a, q + n),
                    p = q => b = a, Lost(d, p) => Lost(d, b)
             PROVE  Leads(d, b, q + n)
  OBVIOUS
<1>1. CASE q <= Len(d) + 1
  BY <1>1 DEF Leads
<1>2. CASE ~(q <= Len(d) + 1)
  <2>1. ~(q + n <= Len(d) + 1)
    BY <1>2
  <2> QED
    BY <1>2, <2>1 DEF Leads
<1> QED
  BY <1>1, <1>2

\* What is lost stays lost.
SkipsLose(d, p) ==
  /\ Lost(d, SkipRun(d, p)) /\ Lost(d, SkipValue(d, p)) /\ Lost(d, SkipValues(d, p))
  /\ Lost(d, SkipHeapObject(d, p)) /\ Lost(d, SkipCached(d, p)) /\ Lost(d, SkipStatus(d, p))
  /\ Lost(d, SkipCounted(d, p, SkipFrameEntry)) /\ Lost(d, SkipCounted(d, p, SkipIoEntry))
EntriesLose(d, p) ==
  /\ Lost(d, SkipFrameEntry(d, p)) /\ Lost(d, SkipIoEntry(d, p)) /\ Lost(d, SkipTaskEntry(d, p))
LEMMA StaysLost == \A d, w, p : Begins(d, w) /\ Lost(d, p) => SkipsLose(d, p)
<1> SUFFICES ASSUME NEW d, NEW w, NEW p, Begins(d, w), Lost(d, p) PROVE SkipsLose(d, p)
  OBVIOUS
<1>1. \A q : Lost(d, At(Field(d, p), q))
  BY FieldLost
<1> QED
  BY <1>1 DEF SkipsLose, SkipRun, SkipValue, SkipValues, SkipHeapObject, SkipCached, SkipStatus, SkipCounted
LEMMA EntryLost == \A d, w : \A p \in Nat : Begins(d, w) /\ Lost(d, p) => EntriesLose(d, p)
<1> SUFFICES ASSUME NEW d, NEW w, NEW p \in Nat, Begins(d, w), Lost(d, p) PROVE EntriesLose(d, p)
  OBVIOUS
<1>1. Lost(d, p + 1) /\ Lost(d, p + 2) /\ Lost(d, p + 3)
  <2>1. Len(d) \in Nat
    BY DEF Begins
  <2> QED
    BY <2>1 DEF Lost
<1>2. Lost(d, SkipFrameEntry(d, p))
  <2>1. At(p, p + 2) = p + 2
    BY DEF At
  <2> QED
    BY <1>1, <2>1, StaysLost DEF SkipFrameEntry, SkipsLose
<1>3. Lost(d, SkipIoEntry(d, p))
  <2>1. Lost(d, SkipRun(d, p + 3))
    BY <1>1, StaysLost DEF SkipsLose
  <2> QED
    BY <2>1, StaysLost DEF SkipIoEntry, SkipsLose
<1>4. Lost(d, SkipTaskEntry(d, p))
  <2>1. PICK a, b, c, e, f :
          /\ a = SkipRun(d, p + 1) /\ b = SkipStatus(d, a) /\ c = SkipRun(d, b)
          /\ e = SkipValues(d, c) /\ f = SkipCounted(d, e, SkipFrameEntry)
    BY Zenon
  <2>2. Lost(d, a)
    BY <1>1, <2>1, StaysLost DEF SkipsLose
  <2>3. Lost(d, b)
    BY <2>1, <2>2, StaysLost DEF SkipsLose
  <2>4. Lost(d, c)
    BY <2>1, <2>3, StaysLost DEF SkipsLose
  <2>5. Lost(d, e)
    BY <2>1, <2>4, StaysLost DEF SkipsLose
  <2>6. Lost(d, f)
    BY <2>1, <2>5, StaysLost DEF SkipsLose
  <2>7. Lost(d, SkipCounted(d, f, SkipIoEntry))
    BY <2>6, StaysLost DEF SkipsLose
  <2> QED
    BY <2>1, <2>7 DEF SkipTaskEntry
<1> QED
  BY <1>2, <1>3, <1>4 DEF EntriesLose

\* A number and as many units.
LEMMA RunCut ==
  \A d, w, p : \A x \in Seq(Int) :
    Begins(d, w) /\ Lies(w, p, Run(x)) => Leads(d, SkipRun(d, p), p + Len(Run(x)))
<1> SUFFICES ASSUME NEW d, NEW w, NEW p, NEW x \in Seq(Int), Begins(d, w), Lies(w, p, Run(x))
             PROVE  Leads(d, SkipRun(d, p), p + Len(Run(x)))
  OBVIOUS
<1>1. RunBack(w, p, x) /\ Run(x) \in Seq(Int)
  BY RunReadsBack
<1>2. PICK n \in Nat, m \in Nat, l \in Nat : n = Len(x) /\ m = Len(Run(x)) /\ l = Len(d)
  <2>1. Len(x) \in Nat /\ Len(Run(x)) \in Nat /\ Len(d) \in Nat
    BY <1>1 DEF Begins
  <2> QED
    BY <2>1
<1>3. w[p] = n /\ p \in Nat \ {0} /\ p + 1 + n = p + m
  <2>1. w[p] = n /\ Field(w, p) = p + 1 /\ SkipRun(w, p) = p + m
    BY <1>1, <1>2 DEF RunBack
  <2>2. p \in Nat \ {0}
    BY DEF Lies
  <2>3. ~(Field(w, p) < 0)
    BY <2>1, <2>2
  <2> QED
    BY <2>1, <2>2, <2>3 DEF SkipRun, At
<1>4. CASE FieldThere(d, w, p)
  <2>1. SkipRun(d, p) = p + m
    <3>1. d[p] = n /\ ~(Field(d, p) < 0)
      BY <1>3, <1>4 DEF FieldThere
    <3> QED
      BY <1>3, <3>1 DEF SkipRun, At
  <2> QED
    BY <1>2, <1>3, <2>1 DEF Leads, Lost
<1>5. CASE FieldGone(d, p)
  <2>1. ~(p + m <= l + 1)
    BY <1>2, <1>3, <1>5 DEF FieldGone
  <2> QED
    BY <1>2, <1>5, <2>1 DEF Leads, FieldGone, SkipRun
<1> QED
  BY <1>3, <1>4, <1>5, FieldCut

LEMMA ValueCut ==
  ASSUME NEW known, known \subseteq Int, NEW v \in FileValue(known), NEW d, NEW w, NEW p,
         Begins(d, w), Lies(w, p, WriteValueRef(v))
  PROVE  Leads(d, SkipValue(d, p), p + Len(WriteValueRef(v)))
<1>1. PICK x : x = WriteValueRef(v)
  OBVIOUS
<1>2. x \in Seq(Int) /\ \A data, q : Lies(data, q, x) => SkipValue(data, q) = q + Len(x)
  BY <1>1, ValueReadsBack DEF ValueBack
<1>3. PICK n \in Nat, l \in Nat : n = Len(x) /\ l = Len(d)
  <2>1. Len(x) \in Nat /\ Len(d) \in Nat
    BY <1>2 DEF Begins
  <2> QED
    BY <2>1
<1>4. p \in Nat \ {0} /\ n > 0
  <2>1. WriteValueRef(v) = <<TagOf.Null>> \/ WriteValueRef(v) = <<TagOf[v.t], v.v>>
    BY DEF WriteValueRef
  <2>2. Len(x) = 1 \/ Len(x) = 2
    BY <1>1, <2>1
  <2> QED
    BY <1>3, <2>2 DEF Lies
<1>5. CASE FieldThere(d, w, p)
  <2>1. w[p] = d[p] /\ Field(d, p) = Field(w, p)
    <3>1. p \in DOMAIN w
      BY <1>1, <1>3, <1>4 DEF Lies
    <3> QED
      BY <1>4, <1>5, <3>1 DEF FieldThere, Field, Present, At
  <2>2. SkipValue(d, p) = SkipValue(w, p)
    BY <2>1 DEF SkipValue
  <2>3. SkipValue(d, p) = p + n
    BY <1>1, <1>2, <1>3, <2>2
  <2> QED
    BY <1>1, <1>3, <1>4, <2>3 DEF Leads, Lost
<1>6. CASE FieldGone(d, p)
  <2>1. ~(p + n <= l + 1)
    BY <1>3, <1>4, <1>6 DEF FieldGone
  <2> QED
    BY <1>1, <1>3, <1>6, <2>1 DEF Leads, FieldGone, SkipValue
<1> QED
  BY <1>4, <1>5, <1>6, FieldCut

\* A list of entries, each of which is passed over or lost.
EntriesCut(d, w, ws, s, skip) ==
  /\ IsSequence(s) /\ ws = [k \in DOMAIN s |-> ws[k]]
  /\ \A k \in DOMAIN s : ws[k] \in Seq(Int) /\
       \A q \in Nat : Lies(w, q, ws[k]) => Leads(d, skip[q], q + Len(ws[k]))
  /\ \A q \in Nat : Lost(d, q) => Lost(d, skip[q])
LEMMA ListCut ==
  \A d, w, ws, s, skip, p :
    Begins(d, w) /\ EntriesCut(d, w, ws, s, skip) /\ Lies(w, p, Numbered(ws))
      => Leads(d, At(Field(d, p), Times(d[p], p + 1, skip)), p + Len(Numbered(ws)))
<1> SUFFICES ASSUME NEW d, NEW w, NEW ws, NEW s, NEW skip, NEW p,
                    Begins(d, w), EntriesCut(d, w, ws, s, skip), Lies(w, p, Numbered(ws))
             PROVE  Leads(d, At(Field(d, p), Times(d[p], p + 1, skip)), p + Len(Numbered(ws)))
  OBVIOUS
<1>1. ws \in Seq(Seq(Int)) /\ Len(ws) = Len(s) /\ DOMAIN s = 1..Len(s)
  BY SameLength DEF EntriesCut
<1>2. CutPasses(d, w, skip, ws)
  BY <1>1 DEF CutPasses, EntriesCut
<1> QED
  BY <1>1, <1>2, NumberedCut

LEMMA ValuesCut ==
  ASSUME NEW known, known \subseteq Int, NEW s \in Seq(FileValue(known)), NEW d, NEW w, NEW p,
         Begins(d, w), Lies(w, p, Counted(WriteValueRef, s))
  PROVE  Leads(d, SkipValues(d, p), p + Len(Counted(WriteValueRef, s)))
<1>1. PICK ws : ws = [k \in DOMAIN s |-> WriteValueRef(s[k])]
  OBVIOUS
<1>2. PICK skip : skip = [q \in Int |-> SkipValue(d, q)]
  OBVIOUS
<1>3. EntriesCut(d, w, ws, s, skip)
  <2>1. ASSUME NEW k \in DOMAIN s
        PROVE  ws[k] \in Seq(Int) /\
                 \A q \in Nat : Lies(w, q, ws[k]) => Leads(d, skip[q], q + Len(ws[k]))
    <3>1. ws[k] = WriteValueRef(s[k]) /\ s[k] \in FileValue(known)
      BY <1>1
    <3>2. ws[k] \in Seq(Int)
      BY <3>1, ValueReadsBack DEF ValueBack
    <3>3. ASSUME NEW q \in Nat, Lies(w, q, ws[k]) PROVE Leads(d, skip[q], q + Len(ws[k]))
      <4>1. Leads(d, SkipValue(d, q), q + Len(ws[k]))
        BY <3>1, <3>3, ValueCut
      <4> QED
        BY <1>2, <4>1
    <3> QED
      BY <3>2, <3>3
  <2>2. ASSUME NEW q \in Nat, Lost(d, q) PROVE Lost(d, skip[q])
    <3>1. Lost(d, SkipValue(d, q))
      BY <2>2, StaysLost DEF SkipsLose
    <3> QED
      BY <1>2, <3>1
  <2>3. IsSequence(s) /\ ws = [k \in DOMAIN s |-> ws[k]]
    BY <1>1 DEF IsSequence
  <2> QED
    BY <2>1, <2>2, <2>3 DEF EntriesCut
<1>4. Counted(WriteValueRef, s) = Numbered(ws)
  <2>1. Len(ws) = Len(s)
    BY <1>3, SameLength DEF EntriesCut
  <2> QED
    BY <1>1, <2>1 DEF Counted, Each, Numbered, Flat
<1>5. Leads(d, At(Field(d, p), Times(d[p], p + 1, skip)), p + Len(Numbered(ws)))
  BY <1>3, <1>4, ListCut
<1> QED
  BY <1>2, <1>4, <1>5 DEF SkipValues, SkipCounted

LEMMA ObjectCut ==
  ASSUME NEW known, known \subseteq Int, NEW obj \in FileObject(known), NEW d, NEW w, NEW p,
         Begins(d, w), Lies(w, p, SerializeHeapObject(obj))
  PROVE  Leads(d, SkipHeapObject(d, p), p + Len(SerializeHeapObject(obj)))
<1>1. PICK tag, body : /\ tag = TagOf[obj.kind]
                       /\ body = IF obj.kind = "String" THEN Run(obj.data)
                                 ELSE Counted(WriteValueRef, obj.data)
  OBVIOUS
<1>2. /\ obj.kind \in {"String", "List"}
      /\ obj.kind = "String" => tag = 4 /\ obj.data \in Seq(Int)
      /\ obj.kind = "List" => tag = 5 /\ obj.data \in Seq(FileValue(known))
  BY <1>1, TagFacts DEF FileObject
<1>3. tag \in Int /\ SerializeHeapObject(obj) = <<tag>> \o body
  <2>1. SerializeHeapObject(obj) = <<tag>> \o body
    BY <1>1 DEF SerializeHeapObject
  <2>2. tag \in Int
    BY <1>2
  <2> QED
    BY <2>1, <2>2
<1>4. body \in Seq(Int)
  <2>1. CASE obj.kind = "String"
    BY <1>1, <1>2, <2>1, RunReadsBack
  <2>2. CASE obj.kind = "List"
    <3>1. ValuesBack(known, obj.data) /\ body = Counted(WriteValueRef, obj.data)
      BY <1>1, <1>2, <2>2, ValuesReadBack
    <3> QED
      BY <3>1 DEF ValuesBack
  <2> QED
    BY <1>2, <2>1, <2>2
<1>5. First(w, p, tag, body)
  BY <1>3, <1>4, LiesFirst
<1>6. PICK n \in Nat, l \in Nat : n = Len(body) /\ l = Len(d)
  <2>1. Len(body) \in Nat /\ Len(d) \in Nat
    BY <1>4 DEF Begins
  <2> QED
    BY <2>1
<1>7. w[p] = tag /\ p \in Nat \ {0} /\ Lies(w, p + 1, body) /\ p + Len(<<tag>> \o body) = (p + 1) + n
  BY <1>5, <1>6 DEF First
<1>8. CASE FieldThere(d, w, p)
  <2>1. d[p] = tag /\ ~(Field(d, p) < 0)
    BY <1>7, <1>8 DEF FieldThere
  <2>2. CASE obj.kind = "String"
    <3>1. body = Run(obj.data) /\ tag = 4 /\ obj.data \in Seq(Int)
      BY <1>1, <1>2, <2>2
    <3>2. Leads(d, SkipRun(d, p + 1), (p + 1) + n)
      BY <1>6, <1>7, <3>1, RunCut
    <3>3. SkipHeapObject(d, p) = SkipRun(d, p + 1)
      BY <2>1, <3>1, TagFacts DEF SkipHeapObject, At
    <3> QED
      BY <1>3, <1>7, <3>2, <3>3
  <2>3. CASE obj.kind = "List"
    <3>1. body = Counted(WriteValueRef, obj.data) /\ tag = 5 /\ obj.data \in Seq(FileValue(known))
      BY <1>1, <1>2, <2>3
    <3>2. Leads(d, SkipValues(d, p + 1), (p + 1) + n)
      BY <1>6, <1>7, <3>1, ValuesCut
    <3>3. SkipHeapObject(d, p) = SkipValues(d, p + 1)
      BY <2>1, <3>1, TagFacts DEF SkipHeapObject, At
    <3> QED
      BY <1>3, <1>7, <3>2, <3>3
  <2> QED
    BY <1>2, <2>2, <2>3
<1>9. CASE FieldGone(d, p)
  <2>1. ~((p + 1) + n <= l + 1)
    BY <1>6, <1>7, <1>9 DEF FieldGone
  <2>2. Lost(d, SkipHeapObject(d, p))
    BY <1>9 DEF FieldGone, SkipHeapObject
  <2> QED
    BY <1>3, <1>6, <1>7, <2>1, <2>2 DEF Leads
<1> QED
  BY <1>7, <1>8, <1>9, FieldCut

LEMMA FrameCut ==
  ASSUME NEW known, known \subseteq Int, NEW f \in FileFrame(known), NEW d, NEW w, NEW p,
         Begins(d, w), Lies(w, p, SerializeFrame(f))
  PROVE  Leads(d, SkipFrameEntry(d, p), p + Len(SerializeFrame(f)))
<1>1. PICK a \in Int, b \in Int, s \in Seq(FileValue(known)) : f = [function |-> a, ip |-> b, locals |-> s]
  BY DEF FileFrame
<1>2. PICK h, l : h = <<a, b>> /\ l = Counted(WriteValueRef, s)
  OBVIOUS
<1>3. h \in Seq(Int) /\ Len(h) = 2
  BY <1>2
<1>4. l \in Seq(Int)
  BY <1>2, ValuesReadBack DEF ValuesBack
<1>5. SerializeFrame(f) = h \o l
  BY <1>1, <1>2 DEF SerializeFrame
<1>6. Splits(w, p, h, l)
  BY <1>3, <1>4, <1>5, LiesJoined
<1>7. Lies(w, p + 2, l) /\ p + Len(h \o l) = (p + 2) + Len(l) /\ p \in Nat
  <2>1. p \in Nat
    BY DEF Lies
  <2> QED
    BY <1>3, <1>6, <2>1 DEF Splits
<1>8. Leads(d, SkipValues(d, p + 2), (p + 2) + Len(l))
  BY <1>2, <1>7, ValuesCut
<1>9. SkipFrameEntry(d, p) = SkipValues(d, p + 2)
  <2>1. At(p, p + 2) = p + 2
    BY <1>7 DEF At
  <2> QED
    BY <2>1 DEF SkipFrameEntry
<1> QED
  BY <1>5, <1>7, <1>8, <1>9

LEMMA FramesCut ==
  ASSUME NEW known, known \subseteq Int, NEW s \in Seq(FileFrame(known)), NEW d, NEW w, NEW p,
         Begins(d, w), Lies(w, p, Counted(SerializeFrame, s))
  PROVE  Leads(d, SkipCounted(d, p, SkipFrameEntry), p + Len(Counted(SerializeFrame, s)))
<1>1. PICK ws : ws = [k \in DOMAIN s |-> SerializeFrame(s[k])]
  OBVIOUS
<1>2. PICK skip : skip = [q \in Int |-> SkipFrameEntry(d, q)]
  OBVIOUS
<1>3. EntriesCut(d, w, ws, s, skip)
  <2>1. ASSUME NEW k \in DOMAIN s
        PROVE  ws[k] \in Seq(Int) /\
                 \A q \in Nat : Lies(w, q, ws[k]) => Leads(d, skip[q], q + Len(ws[k]))
    <3>1. ws[k] = SerializeFrame(s[k]) /\ s[k] \in FileFrame(known)
      BY <1>1
    <3>2. ws[k] \in Seq(Int)
      BY <3>1, FrameReadsBack DEF FrameBack
    <3>3. ASSUME NEW q \in Nat, Lies(w, q, ws[k]) PROVE Leads(d, skip[q], q + Len(ws[k]))
      <4>1. Leads(d, SkipFrameEntry(d, q), q + Len(ws[k]))
        BY <3>1, <3>3, FrameCut
      <4> QED
        BY <1>2, <4>1
    <3> QED
      BY <3>2, <3>3
  <2>2. ASSUME NEW q \in Nat, Lost(d, q) PROVE Lost(d, skip[q])
    <3>1. Lost(d, SkipFrameEntry(d, q))
      BY <2>2, EntryLost DEF EntriesLose
    <3> QED
      BY <1>2, <3>1
  <2>3. IsSequence(s) /\ ws = [k \in DOMAIN s |-> ws[k]]
    BY <1>1 DEF IsSequence
  <2> QED
    BY <2>1, <2>2, <2>3 DEF EntriesCut
<1>4. Counted(SerializeFrame, s) = Numbered(ws)
  <2>1. Len(ws) = Len(s)
    BY <1>3, SameLength DEF EntriesCut
  <2> QED
    BY <1>1, <2>1 DEF Counted, Each, Numbered, Flat
<1>5. Leads(d, At(Field(d, p), Times(d[p], p + 1, skip)), p + Len(Numbered(ws)))
  BY <1>3, <1>4, ListCut
<1> QED
  BY <1>2, <1>4, <1>5 DEF SkipCounted

\* The cached bytes of a handle, and the position after them.
LEMMA CachedCut ==
  \A d, w, p : \A o \in {<<>>} \cup {<<bytes>> : bytes \in Seq(Int)} :
    Begins(d, w) /\ Lies(w, p, Option(o)) => Leads(d, SkipCached(d, p), (p + Len(Option(o))) + 1)
<1> SUFFICES ASSUME NEW d, NEW w, NEW p, NEW o \in {<<>>} \cup {<<bytes>> : bytes \in Seq(Int)},
                    Begins(d, w), Lies(w, p, Option(o))
             PROVE  Leads(d, SkipCached(d, p), (p + Len(Option(o))) + 1)
  OBVIOUS
<1>1. Option(o) \in Seq(Int) /\ SkipCached(w, p) = (p + Len(Option(o))) + 1
  <2>1. Option(o) \in Seq(Int) /\ CachedBack(w, p, o)
    BY CachedReadsBack
  <2>2. SkipCached(w, p) = p + Len(Option(o)) + 1
    BY <2>1 DEF CachedBack
  <2> QED
    BY <2>1, <2>2
<1>2. PICK n \in Nat, l \in Nat : n = Len(Option(o)) /\ l = Len(d)
  <2>1. Len(Option(o)) \in Nat /\ Len(d) \in Nat
    BY <1>1 DEF Begins
  <2> QED
    BY <2>1
<1>3. p \in Nat \ {0} /\ n > 0
  <2>1. Option(o) = <<AllOnes>> \/ Option(o) = Run(o[1])
    BY DEF Option
  <2>2. CASE Option(o) = <<AllOnes>>
    BY <1>2, <2>2 DEF Lies
  <2>3. CASE Option(o) = Run(o[1]) /\ o # <<>>
    <3>1. PICK x \in Seq(Int) : o = <<x>>
      BY <2>3
    <3>2. Lies(w, p, Run(x)) /\ Len(Run(x)) = n
      BY <1>2, <2>3, <3>1
    <3>3. Field(w, p) = p + 1 /\ SkipRun(w, p) = p + n /\ w[p] = Len(x)
      BY <3>2, RunReadsBack DEF RunBack
    <3>4. p \in Nat \ {0}
      BY DEF Lies
    <3>5. ~(Field(w, p) < 0)
      BY <3>3, <3>4
    <3>6. p + n = p + 1 + Len(x) /\ Len(x) \in Nat
      BY <3>3, <3>5 DEF SkipRun, At
    <3> QED
      BY <3>4, <3>6
  <2> QED
    BY <2>1, <2>2, <2>3 DEF Option
<1>4. CASE FieldThere(d, w, p)
  <2>1. w[p] = d[p] /\ Field(d, p) = Field(w, p)
    <3>1. p \in DOMAIN w
      BY <1>2, <1>3 DEF Lies
    <3> QED
      BY <1>3, <1>4, <3>1 DEF FieldThere, Field, Present, At
  <2>2. SkipCached(d, p) = SkipCached(w, p)
    BY <2>1 DEF SkipCached
  <2>3. SkipCached(d, p) = (p + n) + 1
    BY <1>1, <1>2, <2>2
  <2> QED
    BY <1>2, <1>3, <2>3 DEF Leads, Lost
<1>5. CASE FieldGone(d, p)
  <2>1. ~((p + n) + 1 <= l + 1)
    BY <1>2, <1>3, <1>5 DEF FieldGone
  <2> QED
    BY <1>2, <1>5, <2>1 DEF Leads, FieldGone, SkipCached
<1> QED
  BY <1>3, <1>4, <1>5, FieldCut

LEMMA HandleCut ==
  ASSUME NEW h \in FileHandle, NEW d, NEW w, NEW p,
         Begins(d, w), Lies(w, p, SerializeIoHandleSnapshot(h))
  PROVE  Leads(d, SkipIoEntry(d, p), p + Len(SerializeIoHandleSnapshot(h)))
<1>1. /\ h.id \in Int /\ h.kind \in Int /\ h.strategy \in Int /\ h.params \in Seq(Int)
      /\ h.cached \in {<<>>} \cup {<<bytes>> : bytes \in Seq(Int)}
      /\ h.position \in {<<>>} \cup {<<x>> : x \in Int \ {AllOnes}}
  BY DEF FileHandle
<1>2. PICK a, b, c, e : /\ a = <<h.id, h.kind, h.strategy>> /\ b = Run(h.params) /\ c = Option(h.cached)
                        /\ e = IF h.position = <<>> THEN <<AllOnes>> ELSE h.position
  OBVIOUS
<1>3. a \in Seq(Int) /\ Len(a) = 3 /\ b \in Seq(Int) /\ c \in Seq(Int)
  <2>1. a \in Seq(Int) /\ Len(a) = 3
    BY <1>1, <1>2
  <2>2. b \in Seq(Int)
    BY <1>1, <1>2, RunReadsBack
  <2>3. c \in Seq(Int)
    BY <1>1, <1>2, CachedReadsBack
  <2> QED
    BY <2>1, <2>2, <2>3
<1>4. e \in Seq(Int) /\ Len(e) = 1
  <2>1. CASE h.position = <<>>
    BY <1>2, <2>1 DEF AllOnes
  <2>2. CASE h.position # <<>>
    <3>1. PICK x \in Int : h.position = <<x>>
      BY <1>1, <2>2
    <3> QED
      BY <1>2, <2>2, <3>1
  <2> QED
    BY <2>1, <2>2
<1>5. PICK u, v, x : u = a \o b /\ v = u \o c /\ x = v \o e
  OBVIOUS
<1>6. u \in Seq(Int) /\ v \in Seq(Int) /\ x \in Seq(Int)
  BY <1>3, <1>4, <1>5
<1>7. SerializeIoHandleSnapshot(h) = x
  BY <1>2, <1>5 DEF SerializeIoHandleSnapshot
<1>8. Splits(w, p, v, e)
  BY <1>4, <1>5, <1>6, <1>7, LiesJoined
<1>9. Splits(w, p, u, c)
  <2>1. Lies(w, p, v)
    BY <1>8 DEF Splits
  <2> QED
    BY <1>3, <1>5, <1>6, <2>1, LiesJoined
<1>10. Splits(w, p, a, b)
  <2>1. Lies(w, p, u)
    BY <1>9 DEF Splits
  <2> QED
    BY <1>3, <1>5, <2>1, LiesJoined
<1>11. PICK q, r : q = p + Len(u) /\ r = p + Len(x)
  OBVIOUS
<1>12. Lies(w, p + 3, b) /\ q = (p + 3) + Len(b) /\ Lies(w, q, c) /\ r = (q + Len(c)) + 1
  <2>1. Lies(w, p + 3, b) /\ q = (p + 3) + Len(b)
    BY <1>3, <1>5, <1>10, <1>11 DEF Splits
  <2>2. Lies(w, q, c) /\ p + Len(v) = q + Len(c) /\ r = (p + Len(v)) + 1
    BY <1>4, <1>5, <1>8, <1>9, <1>11 DEF Splits
  <2> QED
    BY <2>1, <2>2
<1>13. Leads(d, SkipRun(d, p + 3), q)
  BY <1>1, <1>2, <1>12, RunCut
<1>14. Leads(d, SkipCached(d, q), (q + Len(c)) + 1)
  BY <1>1, <1>2, <1>12, CachedCut
<1>15. PICK n \in Nat : n = Len(c) + 1
  BY <1>3
<1>16. q \in Nat /\ Len(d) \in Nat /\ (q + Len(c)) + 1 = q + n
  <2>1. q \in Nat /\ Len(c) \in Nat
    BY <1>3, <1>12 DEF Lies
  <2>2. Len(d) \in Nat
    BY DEF Begins
  <2> QED
    BY <1>15, <2>1, <2>2
<1>17. PICK s : s = SkipRun(d, p + 3)
  OBVIOUS
<1>18. Lost(d, s) => Lost(d, SkipCached(d, s))
  BY StaysLost DEF SkipsLose
<1>19. Leads(d, SkipCached(d, s), q + n)
  BY <1>13, <1>14, <1>16, <1>17, <1>18, Onward
<1> QED
  BY <1>7, <1>11, <1>12, <1>16, <1>17, <1>19 DEF SkipIoEntry

LEMMA HandlesCut ==
  ASSUME NEW s \in Seq(FileHandle), NEW d, NEW w, NEW p,
         Begins(d, w), Lies(w, p, Counted(SerializeIoHandleSnapshot, s))
  PROVE  Leads(d, SkipCounted(d, p, SkipIoEntry), p + Len(Counted(SerializeIoHandleSnapshot, s)))
<1>1. PICK ws : ws = [k \in DOMAIN s |-> SerializeIoHandleSnapshot(s[k])]
  OBVIOUS
<1>2. PICK skip : skip = [q \in Int |-> SkipIoEntry(d, q)]
  OBVIOUS
<1>3. EntriesCut(d, w, ws, s, skip)
  <2>1. ASSUME NEW k \in DOMAIN s
        PROVE  ws[k] \in Seq(Int) /\
                 \A q \in Nat : Lies(w, q, ws[k]) => Leads(d, skip[q], q + Len(ws[k]))
    <3>1. ws[k] = SerializeIoHandleSnapshot(s[k]) /\ s[k] \in FileHandle
      BY <1>1
    <3>2. ws[k] \in Seq(Int)
      BY <3>1, HandleReadsBack DEF HandleBack
    <3>3. ASSUME NEW q \in Nat, Lies(w, q, ws[k]) PROVE Leads(d, skip[q], q + Len(ws[k]))
      <4>1. Leads(d, SkipIoEntry(d, q), q + Len(ws[k]))
        BY <3>1, <3>3, HandleCut
      <4> QED
        BY <1>2, <4>1
    <3> QED
      BY <3>2, <3>3
  <2>2. ASSUME NEW q \in Nat, Lost(d, q) PROVE Lost(d, skip[q])
    <3>1. Lost(d, SkipIoEntry(d, q))
      BY <2>2, EntryLost DEF EntriesLose
    <3> QED
      BY <1>2, <3>1
  <2>3. IsSequence(s) /\ ws = [k \in DOMAIN s |-> ws[k]]
    BY <1>1 DEF IsSequence
  <2> QED
    BY <2>1, <2>2, <2>3 DEF EntriesCut
<1>4. Counted(SerializeIoHandleSnapshot, s) = Numbered(ws)
  <2>1. Len(ws) = Len(s)
    BY <1>3, SameLength DEF EntriesCut
  <2> QED
    BY <1>1, <2>1 DEF Counted, Each, Numbered, Flat
<1>5. Leads(d, At(Field(d, p), Times(d[p], p + 1, skip)), p + Len(Numbered(ws)))
  BY <1>3, <1>4, ListCut
<1> QED
  BY <1>2, <1>4, <1>5 DEF SkipCounted

LEMMA StatusCut ==
  \A d, w, p : \A status \in Int : \A pc \in Seq(Int) :
    Begins(d, w) /\ Len(pc) = Pc(status) /\ Lies(w, p, <<status>> \o pc)
      => Leads(d, SkipStatus(d, p), p + Len(<<status>> \o pc))
<1> SUFFICES ASSUME NEW d, NEW w, NEW p, NEW status \in Int, NEW pc \in Seq(Int),
                    Begins(d, w), Len(pc) = Pc(status), Lies(w, p, <<status>> \o pc)
             PROVE  Leads(d, SkipStatus(d, p), p + Len(<<status>> \o pc))
  OBVIOUS
<1>1. PICK x : x = <<status>> \o pc
  OBVIOUS
<1>2. x \in Seq(Int) /\ SkipStatus(w, p) = p + Len(x)
  BY <1>1, StatusReadsBack DEF StatusBack
<1>3. PICK n \in Nat, l \in Nat : n = Len(x) /\ l = Len(d)
  <2>1. Len(x) \in Nat /\ Len(d) \in Nat
    BY <1>2 DEF Begins
  <2> QED
    BY <2>1
<1>4. p \in Nat \ {0} /\ n > 0
  <2>1. First(w, p, status, pc)
    BY LiesFirst
  <2>2. p + 1 + Len(pc) = p + n /\ p \in Nat \ {0} /\ Len(pc) \in Nat
    BY <1>1, <1>3, <2>1 DEF First
  <2> QED
    BY <2>2
<1>5. CASE FieldThere(d, w, p)
  <2>1. w[p] = d[p] /\ Field(d, p) = Field(w, p)
    <3>1. p \in DOMAIN w
      BY <1>1, <1>3, <1>4 DEF Lies
    <3> QED
      BY <1>4, <1>5, <3>1 DEF FieldThere, Field, Present, At
  <2>2. SkipStatus(d, p) = SkipStatus(w, p)
    BY <2>1 DEF SkipStatus
  <2>3. SkipStatus(d, p) = p + n
    BY <1>2, <1>3, <2>2
  <2> QED
    BY <1>1, <1>3, <1>4, <2>3 DEF Leads, Lost
<1>6. CASE FieldGone(d, p)
  <2>1. ~(p + n <= l + 1)
    BY <1>3, <1>4, <1>6 DEF FieldGone
  <2> QED
    BY <1>1, <1>3, <1>6, <2>1 DEF Leads, FieldGone, SkipStatus
<1> QED
  BY <1>4, <1>5, <1>6, FieldCut

LEMMA TaskCut ==
  ASSUME NEW known, known \subseteq Int, NEW t \in FileTask(known), NEW d, NEW w, NEW p,
         Begins(d, w), Lies(w, p, SerializeTaskSnapshot(t))
  PROVE  Leads(d, SkipTaskEntry(d, p), p + Len(SerializeTaskSnapshot(t)))
<1>1. /\ t.id \in Int /\ t.parent \in Seq(Int) /\ t.status \in Int /\ t.pc \in Seq(Int)
      /\ Len(t.pc) = Pc(t.status) /\ t.children \in Seq(Int) /\ t.stack \in Seq(FileValue(known))
      /\ t.frames \in Seq(FileFrame(known)) /\ t.handles \in Seq(FileHandle)
  BY DEF FileTask
<1>2. PICK x1, x2, x3, x4, x5, x6, x7 :
        /\ x1 = <<t.id>> /\ x2 = Run(t.parent) /\ x3 = <<t.status>> \o t.pc /\ x4 = Run(t.children)
        /\ x5 = Counted(WriteValueRef, t.stack) /\ x6 = Counted(SerializeFrame, t.frames)
        /\ x7 = Counted(SerializeIoHandleSnapshot, t.handles)
  OBVIOUS
<1>3. x1 \in Seq(Int) /\ Len(x1) = 1 /\ x2 \in Seq(Int) /\ x3 \in Seq(Int) /\ x4 \in Seq(Int)
  <2>1. x1 \in Seq(Int) /\ Len(x1) = 1
    BY <1>1, <1>2
  <2>2. x2 \in Seq(Int) /\ x4 \in Seq(Int)
    BY <1>1, <1>2, RunReadsBack
  <2>3. x3 \in Seq(Int)
    BY <1>1, <1>2, StatusReadsBack
  <2> QED
    BY <2>1, <2>2, <2>3
<1>4. x5 \in Seq(Int) /\ x6 \in Seq(Int) /\ x7 \in Seq(Int)
  <2>1. x5 \in Seq(Int)
    BY <1>1, <1>2, ValuesReadBack DEF ValuesBack
  <2>2. x6 \in Seq(Int)
    BY <1>1, <1>2, FramesReadBack DEF FramesBack
  <2>3. x7 \in Seq(Int)
    BY <1>1, <1>2, HandlesReadBack DEF HandlesBack
  <2> QED
    BY <2>1, <2>2, <2>3
<1>5. PICK u2, u3, u4, u5, u6, u7 :
        /\ u2 = x1 \o x2 /\ u3 = u2 \o x3 /\ u4 = u3 \o x4 /\ u5 = u4 \o x5 /\ u6 = u5 \o x6
        /\ u7 = u6 \o x7
  OBVIOUS
<1>6. /\ u2 \in Seq(Int) /\ u3 \in Seq(Int) /\ u4 \in Seq(Int) /\ u5 \in Seq(Int) /\ u6 \in Seq(Int)
  BY <1>3, <1>4, <1>5
<1>7. SerializeTaskSnapshot(t) = u7
  BY <1>2, <1>5 DEF SerializeTaskSnapshot
<1>8. PICK q1, q2, q3, q4, q5, q6, q7 :
        /\ q1 = p + Len(x1) /\ q2 = p + Len(u2) /\ q3 = p + Len(u3) /\ q4 = p + Len(u4)
        /\ q5 = p + Len(u5) /\ q6 = p + Len(u6) /\ q7 = p + Len(u7)
  OBVIOUS
<1>9. Lies(w, p, u6) /\ Lies(w, q6, x7) /\ q7 = q6 + Len(x7)
  <2>1. Lies(w, p, u7) /\ u6 \in Seq(Int) /\ x7 \in Seq(Int) /\ u7 = u6 \o x7
    BY <1>3, <1>4, <1>5, <1>6, <1>7, <1>7
  <2>2. Splits(w, p, u6, x7)
    BY <2>1, LiesJoined
  <2> QED
    BY <1>3, <1>8, <2>1, <2>2 DEF Splits
<1>10. Lies(w, p, u5) /\ Lies(w, q5, x6) /\ q6 = q5 + Len(x6)
  <2>1. Lies(w, p, u6) /\ u5 \in Seq(Int) /\ x6 \in Seq(Int) /\ u6 = u5 \o x6
    BY <1>3, <1>4, <1>5, <1>6, <1>7, <1>9
  <2>2. Splits(w, p, u5, x6)
    BY <2>1, LiesJoined
  <2> QED
    BY <1>3, <1>8, <2>1, <2>2 DEF Splits
<1>11. Lies(w, p, u4) /\ Lies(w, q4, x5) /\ q5 = q4 + Len(x5)
  <2>1. Lies(w, p, u5) /\ u4 \in Seq(Int) /\ x5 \in Seq(Int) /\ u5 = u4 \o x5
    BY <1>3, <1>4, <1>5, <1>6, <1>7, <1>10
  <2>2. Splits(w, p, u4, x5)
    BY <2>1, LiesJoined
  <2> QED
    BY <1>3, <1>8, <2>1, <2>2 DEF Splits
<1>12. Lies(w, p, u3) /\ Lies(w, q3, x4) /\ q4 = q3 + Len(x4)
  <2>1. Lies(w, p, u4) /\ u3 \in Seq(Int) /\ x4 \in Seq(Int) /\ u4 = u3 \o x4
    BY <1>3, <1>4, <1>5, <1>6, <1>7, <1>11
  <2>2. Splits(w, p, u3, x4)
    BY <2>1, LiesJoined
  <2> QED
    BY <1>3, <1>8, <2>1, <2>2 DEF Splits
<1>13. Lies(w, p, u2) /\ Lies(w, q2, x3) /\ q3 = q2 + Len(x3)
  <2>1. Lies(w, p, u3) /\ u2 \in Seq(Int) /\ x3 \in Seq(Int) /\ u3 = u2 \o x3
    BY <1>3, <1>4, <1>5, <1>6, <1>7, <1>12
  <2>2. Splits(w, p, u2, x3)
    BY <2>1, LiesJoined
  <2> QED
    BY <1>3, <1>8, <2>1, <2>2 DEF Splits
<1>14. Lies(w, q1, x2) /\ q2 = q1 + Len(x2) /\ q1 = p + 1
  <2>1. Lies(w, p, u2) /\ x1 \in Seq(Int) /\ x2 \in Seq(Int) /\ u2 = x1 \o x2
    BY <1>3, <1>4, <1>5, <1>6, <1>7, <1>13
  <2>2. Splits(w, p, x1, x2)
    BY <2>1, LiesJoined
  <2> QED
    BY <1>3, <1>8, <2>1, <2>2 DEF Splits
<1>15. /\ q2 \in Nat /\ q3 \in Nat /\ q4 \in Nat /\ q5 \in Nat /\ q6 \in Nat /\ Len(d) \in Nat
  BY <1>9, <1>10, <1>11, <1>12, <1>13 DEF Lies, Begins
<1>16. /\ Len(x3) \in Nat /\ Len(x4) \in Nat /\ Len(x5) \in Nat /\ Len(x6) \in Nat /\ Len(x7) \in Nat
  BY <1>3, <1>4
<1>17. PICK a, b, c, e, f :
         /\ a = SkipRun(d, p + 1) /\ b = SkipStatus(d, a) /\ c = SkipRun(d, b)
         /\ e = SkipValues(d, c) /\ f = SkipCounted(d, e, SkipFrameEntry)
  BY Zenon
<1>18. Leads(d, a, q2)
  BY <1>1, <1>2, <1>14, <1>17, RunCut
<1>19. Leads(d, b, q3)
  <2>1. Leads(d, SkipStatus(d, q2), q2 + Len(x3))
    BY <1>1, <1>2, <1>13, StatusCut
  <2>2. Lost(d, a) => Lost(d, b)
    BY <1>17, StaysLost DEF SkipsLose
  <2>3. a = q2 => b = SkipStatus(d, q2)
    BY <1>17
  <2>4. Leads(d, b, q2 + Len(x3))
    BY <1>15, <1>16, <1>18, <2>1, <2>2, <2>3, Onward
  <2> QED
    BY <1>13, <2>4
<1>20. Leads(d, c, q4)
  <2>1. Leads(d, SkipRun(d, q3), q3 + Len(x4))
    BY <1>1, <1>2, <1>12, RunCut
  <2>2. Lost(d, b) => Lost(d, c)
    BY <1>17, StaysLost DEF SkipsLose
  <2>3. b = q3 => c = SkipRun(d, q3)
    BY <1>17
  <2>4. Leads(d, c, q3 + Len(x4))
    BY <1>15, <1>16, <1>19, <2>1, <2>2, <2>3, Onward
  <2> QED
    BY <1>12, <2>4
<1>21. Leads(d, e, q5)
  <2>1. Leads(d, SkipValues(d, q4), q4 + Len(x5))
    BY <1>1, <1>2, <1>11, ValuesCut
  <2>2. Lost(d, c) => Lost(d, e)
    BY <1>17, StaysLost DEF SkipsLose
  <2>3. c = q4 => e = SkipValues(d, q4)
    BY <1>17
  <2>4. Leads(d, e, q4 + Len(x5))
    BY <1>15, <1>16, <1>20, <2>1, <2>2, <2>3, Onward
  <2> QED
    BY <1>11, <2>4
<1>22. Leads(d, f, q6)
  <2>1. Leads(d, SkipCounted(d, q5, SkipFrameEntry), q5 + Len(x6))
    BY <1>1, <1>2, <1>10, FramesCut
  <2>2. Lost(d, e) => Lost(d, f)
    BY <1>17, StaysLost DEF SkipsLose
  <2>3. e = q5 => f = SkipCounted(d, q5, SkipFrameEntry)
    BY <1>17
  <2>4. Leads(d, f, q5 + Len(x6))
    BY <1>15, <1>16, <1>21, <2>1, <2>2, <2>3, Onward
  <2> QED
    BY <1>10, <2>4
<1>23. PICK g : g = SkipCounted(d, f, SkipIoEntry)
  OBVIOUS
<1>24. Leads(d, g, q7)
  <2>1. Leads(d, SkipCounted(d, q6, SkipIoEntry), q6 + Len(x7))
    BY <1>1, <1>2, <1>9, HandlesCut
  <2>2. Lost(d, f) => Lost(d, g)
    BY <1>23, StaysLost DEF SkipsLose
  <2>3. f = q6 => g = SkipCounted(d, q6, SkipIoEntry)
    BY <1>23
  <2>4. Leads(d, g, q6 + Len(x7))
    BY <1>15, <1>16, <1>22, <2>1, <2>2, <2>3, Onward
  <2> QED
    BY <1>9, <2>4
<1>25. SkipTaskEntry(d, p) = g
  BY <1>17, <1>23 DEF SkipTaskEntry
<1> QED
  BY <1>7, <1>8, <1>24, <1>25

LEMMA TasksCut ==
  ASSUME NEW known, known \subseteq Int, NEW s \in Seq(FileTask(known)), NEW d, NEW w, NEW p,
         Begins(d, w), Lies(w, p, Counted(SerializeTaskSnapshot, s))
  PROVE  Leads(d, SkipCounted(d, p, SkipTaskEntry), p + Len(Counted(SerializeTaskSnapshot, s)))
<1>1. PICK ws : ws = [k \in DOMAIN s |-> SerializeTaskSnapshot(s[k])]
  OBVIOUS
<1>2. PICK skip : skip = [q \in Int |-> SkipTaskEntry(d, q)]
  OBVIOUS
<1>3. EntriesCut(d, w, ws, s, skip)
  <2>1. ASSUME NEW k \in DOMAIN s
        PROVE  ws[k] \in Seq(Int) /\
                 \A q \in Nat : Lies(w, q, ws[k]) => Leads(d, skip[q], q + Len(ws[k]))
    <3>1. ws[k] = SerializeTaskSnapshot(s[k]) /\ s[k] \in FileTask(known)
      BY <1>1
    <3>2. ws[k] \in Seq(Int)
      BY <3>1, TaskReadsBack DEF TaskBack
    <3>3. ASSUME NEW q \in Nat, Lies(w, q, ws[k]) PROVE Leads(d, skip[q], q + Len(ws[k]))
      <4>1. Leads(d, SkipTaskEntry(d, q), q + Len(ws[k]))
        BY <3>1, <3>3, TaskCut
      <4> QED
        BY <1>2, <4>1
    <3> QED
      BY <3>2, <3>3
  <2>2. ASSUME NEW q \in Nat, Lost(d, q) PROVE Lost(d, skip[q])
    <3>1. Lost(d, SkipTaskEntry(d, q))
      BY <2>2, EntryLost DEF EntriesLose
    <3> QED
      BY <1>2, <3>1
  <2>3. IsSequence(s) /\ ws = [k \in DOMAIN s |-> ws[k]]
    BY <1>1 DEF IsSequence
  <2> QED
    BY <2>1, <2>2, <2>3 DEF EntriesCut
<1>4. Counted(SerializeTaskSnapshot, s) = Numbered(ws)
  <2>1. Len(ws) = Len(s)
    BY <1>3, SameLength DEF EntriesCut
  <2> QED
    BY <1>1, <2>1 DEF Counted, Each, Numbered, Flat
<1>5. Leads(d, At(Field(d, p), Times(d[p], p + 1, skip)), p + Len(Numbered(ws)))
  BY <1>3, <1>4, ListCut
<1> QED
  BY <1>2, <1>4, <1>5 DEF SkipCounted

LEMMA ObjectsCut ==
  ASSUME NEW known, known \subseteq Int, NEW objects, AnyHeap(known, objects), NEW d, NEW w, NEW p,
         Begins(d, w), Lies(w, p, Each(SerializeHeapObject, objects))
  PROVE  Leads(d, Times(Len(objects), p, [q \in Int |-> SkipHeapObject(d, q)]),
               p + Len(Each(SerializeHeapObject, objects)))
<1>1. PICK ws : ws = ObjectFields(objects)
  OBVIOUS
<1>2. PICK skip : skip = [q \in Int |-> SkipHeapObject(d, q)]
  OBVIOUS
<1>3. /\ Each(SerializeHeapObject, objects) = Flat(ws) /\ ws \in Seq(Seq(Int))
      /\ Len(ws) = Len(objects) /\ DOMAIN objects = 1..Len(objects)
  BY <1>1, ObjectsPassed DEF HeapWritten
<1>4. CutPasses(d, w, skip, ws)
  <2>1. ASSUME NEW k \in 1..Len(ws), NEW q \in Nat, Lies(w, q, ws[k])
        PROVE  Leads(d, skip[q], q + Len(ws[k]))
    <3>1. ws[k] = SerializeHeapObject(objects[k]) /\ objects[k] \in FileObject(known)
      BY <1>1, <1>3 DEF AnyHeap, ObjectFields
    <3>2. Leads(d, SkipHeapObject(d, q), q + Len(ws[k]))
      BY <2>1, <3>1, ObjectCut
    <3> QED
      BY <1>2, <3>2
  <2>2. ASSUME NEW q \in Nat, Lost(d, q) PROVE Lost(d, skip[q])
    <3>1. Lost(d, SkipHeapObject(d, q))
      BY <2>2, StaysLost DEF SkipsLose
    <3> QED
      BY <1>2, <3>1
  <2> QED
    BY <2>1, <2>2 DEF CutPasses
<1> QED
  BY <1>2, <1>3, <1>4, TimesCut

-----------------------------------------------------------------------------
(* Files of several sections.                                              *)

\* b comes after a.
Comes(c, a, b) ==
  /\ IsSequence(c) /\ Len(c) = Len(a) + Len(b)
  /\ \A k \in 1..Len(a) : c[k] = a[k]
  /\ Lies(c, Len(a) + 1, b)
  /\ \A p, w : Lies(a, p, w) /\ IsSequence(w) => Lies(c, p, w)
LEMMA Appended ==
  \A X : \A a \in Seq(X) : \A b \in Seq(X) : a \o b \in Seq(X) /\ Comes(a \o b, a, b)
<1> SUFFICES ASSUME NEW X, NEW a \in Seq(X), NEW b \in Seq(X)
             PROVE  a \o b \in Seq(X) /\ Comes(a \o b, a, b)
  OBVIOUS
<1>1. PICK c : c = a \o b
  OBVIOUS
<1>2. c \in Seq(X) /\ Len(c) = Len(a) + Len(b)
  BY <1>1
<1>3. \A k \in 1..Len(a) + Len(b) : c[k] = IF k <= Len(a) THEN a[k] ELSE b[k - Len(a)]
  BY <1>1
<1>4. PICK la \in Nat, lb \in Nat : la = Len(a) /\ lb = Len(b)
  OBVIOUS
<1>5. Len(c) = la + lb /\ DOMAIN c = 1..la + lb /\ DOMAIN a = 1..la
  <2>1. DOMAIN c = 1..Len(c)
    BY <1>2
  <2> QED
    BY <1>2, <1>4, <2>1
<1>6. \A k \in 1..la : c[k] = a[k]
  BY <1>3, <1>4
<1>7. \A k \in 1..lb : c[(la + 1) + k - 1] = b[k]
  <2>1. ASSUME NEW k \in 1..lb PROVE c[(la + 1) + k - 1] = b[k]
    <3>1. (la + 1) + k - 1 = la + k /\ la + k \in 1..la + lb /\ ~(la + k <= la) /\ la + k - la = k
      OBVIOUS
    <3> QED
      BY <1>3, <1>4, <3>1
  <2> QED
    BY <2>1
<1>8. Lies(c, la + 1, b)
  <2>1. IsSequence(c)
    BY <1>2 DEF IsSequence
  <2> QED
    BY <1>4, <1>5, <1>7, <2>1 DEF Lies
<1>9. ASSUME NEW p, NEW w, Lies(a, p, w), IsSequence(w) PROVE Lies(c, p, w)
  <2>1. PICK lw \in Nat : lw = Len(w)
    BY <1>9 DEF IsSequence
  <2>2. p \in Nat \ {0} /\ p + lw <= la + 1 /\ \A k \in 1..lw : a[p + k - 1] = w[k]
    BY <1>4, <1>9, <2>1 DEF Lies
  <2>3. ASSUME NEW k \in 1..lw PROVE c[p + k - 1] = w[k]
    <3>1. p + k - 1 \in 1..la
      BY <2>2
    <3> QED
      BY <1>6, <2>2, <3>1
  <2>4. p + lw <= la + lb + 1
    BY <2>2
  <2>5. IsSequence(c)
    BY <1>2 DEF IsSequence
  <2> QED
    BY <1>5, <2>1, <2>2, <2>3, <2>4, <2>5 DEF Lies
<1> QED
  BY <1>1, <1>2, <1>4, <1>6, <1>8, <1>9 DEF Comes, IsSequence

\* The snapshots that can be written: references are to objects that are there.
Positions(s) == 1..Len(s.objects)
IsFileSnapshot(s) ==
  /\ s = [hash |-> s.hash, time |-> s.time, objects |-> s.objects, frames |-> s.frames,
          stack |-> s.stack, handles |-> s.handles, tasks |-> s.tasks]
  /\ AnyHeap(Positions(s), s.objects)
  /\ s.frames \in Seq(FileFrame(Positions(s))) /\ s.stack \in Seq(FileValue(Positions(s)))
  /\ s.handles \in Seq(FileHandle) /\ s.tasks \in Seq(FileTask(Positions(s)))

\* The sections of a file.
HeapPart(s) == Each(SerializeHeapObject, s.objects)
FramesPart(s) == Counted(SerializeFrame, s.frames)
StackPart(s) == Counted(WriteValueRef, s.stack)
IoPart(s) == Counted(SerializeIoHandleSnapshot, s.handles)
TasksPart(s) == Counted(SerializeTaskSnapshot, s.tasks)

PartsAre(s) ==
  /\ Positions(s) \subseteq Int /\ Len(s.objects) \in Nat
  /\ HeapWritten(s.objects) /\ HeapPart(s) \in Seq(Int)
  /\ FramesBack(Positions(s), s.frames) /\ FramesPart(s) \in Seq(Int)
  /\ ValuesBack(Positions(s), s.stack) /\ StackPart(s) \in Seq(Int)
  /\ HandlesBack(s.handles) /\ IoPart(s) \in Seq(Int)
  /\ TasksBack(Positions(s), s.tasks) /\ TasksPart(s) \in Seq(Int)
LEMMA PartsOfFile == \A s : IsFileSnapshot(s) => PartsAre(s)
<1> SUFFICES ASSUME NEW s, IsFileSnapshot(s) PROVE PartsAre(s)
  OBVIOUS
<1>1. IsSequence(s.objects)
  BY DEF IsFileSnapshot, AnyHeap
<1>2. Len(s.objects) \in Nat
  BY <1>1 DEF IsSequence
<1>3. Positions(s) \subseteq Int
  BY <1>2 DEF Positions
<1>4. HeapWritten(s.objects)
  BY <1>3, ObjectsPassed DEF IsFileSnapshot
<1>5. FramesBack(Positions(s), s.frames)
  BY <1>3, FramesReadBack DEF IsFileSnapshot
<1>6. ValuesBack(Positions(s), s.stack)
  BY <1>3, ValuesReadBack DEF IsFileSnapshot
<1>7. HandlesBack(s.handles)
  BY HandlesReadBack DEF IsFileSnapshot
<1>8. TasksBack(Positions(s), s.tasks)
  BY <1>3, TasksReadBack DEF IsFileSnapshot
<1>9. HeapPart(s) \in Seq(Int)
  BY <1>4 DEF HeapWritten, HeapPart
<1>10. FramesPart(s) \in Seq(Int)
  BY <1>5 DEF FramesBack, FramesPart
<1>11. StackPart(s) \in Seq(Int)
  BY <1>6 DEF ValuesBack, StackPart
<1>12. IoPart(s) \in Seq(Int)
  BY <1>7 DEF HandlesBack, IoPart
<1>13. TasksPart(s) \in Seq(Int)
  BY <1>8 DEF TasksBack, TasksPart
<1> QED
  BY <1>2, <1>3, <1>4, <1>5, <1>6, <1>7, <1>8, <1>9, <1>10, <1>11, <1>12, <1>13 DEF PartsAre

\* e are the ends of the sections of the file data.
Laid(s, data, e) ==
  /\ IsSequence(data) /\ Len(data) \in Nat
  /\ data[1] = MAGIC /\ data[2] = VERSION /\ data[3] = s.hash /\ data[4] = s.time
  /\ data[5] = Len(s.objects) /\ data[6] = Len(s.frames) /\ data[7] = Len(s.stack)
  /\ data[8] = Len(s.handles) /\ data[9] = Len(s.tasks)
  /\ e[1] = 10 + Len(HeapPart(s)) /\ e[2] = e[1] + Len(FramesPart(s))
  /\ e[3] = e[2] + Len(StackPart(s)) /\ e[4] = e[3] + Len(IoPart(s))
  /\ e[5] = e[4] + Len(TasksPart(s)) /\ e[5] = Len(data) + 1
  /\ \A k \in 1..5 : e[k] \in Nat /\ e[k] > 9
  /\ Lies(data, 10, HeapPart(s)) /\ Lies(data, e[1], FramesPart(s))
  /\ Lies(data, e[2], StackPart(s)) /\ Lies(data, e[3], IoPart(s)) /\ Lies(data, e[4], TasksPart(s))

LEMMA FileLaid == \A s : IsFileSnapshot(s) => \E e : Laid(s, WriteToFile(s), e)
<1> SUFFICES ASSUME NEW s, IsFileSnapshot(s) PROVE \E e : Laid(s, WriteToFile(s), e)
  OBVIOUS
<1>1. PartsAre(s)
  BY PartsOfFile
<1>2. PICK X : X = Int \cup {MAGIC, s.hash, s.time}
  OBVIOUS
<1>3. PICK w0, w1, w2, w3, w4, w5 :
        /\ w0 = Header(s) /\ w1 = HeapPart(s) /\ w2 = FramesPart(s) /\ w3 = StackPart(s)
        /\ w4 = IoPart(s) /\ w5 = TasksPart(s)
  OBVIOUS
<1>4. \A w \in Seq(Int) : w \in Seq(X)
  BY <1>2
<1>5. /\ w1 \in Seq(X) /\ w2 \in Seq(X) /\ w3 \in Seq(X) /\ w4 \in Seq(X) /\ w5 \in Seq(X)
  BY <1>1, <1>3, <1>4 DEF PartsAre
<1>6. /\ w0 \in Seq(X) /\ Len(w0) = 9 /\ w0[1] = MAGIC /\ w0[2] = VERSION
      /\ w0[3] = s.hash /\ w0[4] = s.time /\ w0[5] = Len(s.objects) /\ w0[6] = Len(s.frames)
      /\ w0[7] = Len(s.stack) /\ w0[8] = Len(s.handles) /\ w0[9] = Len(s.tasks)
  <2>0. PICK a, b : a = s.hash /\ b = s.time
    OBVIOUS
  <2>1. PICK c, d, f, g, h \in Int :
          /\ c = Len(s.objects) /\ d = Len(s.frames) /\ f = Len(s.stack) /\ g = Len(s.handles)
          /\ h = Len(s.tasks)
    <3>1. Len(s.frames) \in Nat /\ Len(s.stack) \in Nat /\ Len(s.handles) \in Nat /\ Len(s.tasks) \in Nat
      BY DEF IsFileSnapshot
    <3>2. Len(s.objects) \in Nat
      BY <1>1 DEF PartsAre
    <3>3. /\ Len(s.objects) \in Int /\ Len(s.frames) \in Int /\ Len(s.stack) \in Int
          /\ Len(s.handles) \in Int /\ Len(s.tasks) \in Int
      BY <3>1, <3>2
    <3> QED
      BY <3>3, Zenon
  <2>2. w0 = <<MAGIC, VERSION, a, b, c, d, f, g, h>>
    BY <1>3, <2>0, <2>1 DEF Header
  <2>3. MAGIC \in X /\ VERSION \in X /\ a \in X /\ b \in X /\ \A x \in Int : x \in X
    BY <1>2, <2>0 DEF VERSION
  <2>4. w0 \in Seq(X)
    BY <2>2, <2>3
  <2> QED
    BY <2>0, <2>1, <2>2, <2>4
<1>7. PICK d1, d2, d3, d4, d5 :
        d1 = w0 \o w1 /\ d2 = d1 \o w2 /\ d3 = d2 \o w3 /\ d4 = d3 \o w4 /\ d5 = d4 \o w5
  OBVIOUS
<1>8. WriteToFile(s) = d5
  BY <1>3, <1>7 DEF WriteToFile, HeapPart, FramesPart, StackPart, IoPart, TasksPart
<1>9. d1 \in Seq(X) /\ Comes(d1, w0, w1)
  BY <1>5, <1>6, <1>7, Appended
<1>10. d2 \in Seq(X) /\ Comes(d2, d1, w2)
  BY <1>5, <1>7, <1>9, Appended
<1>11. d3 \in Seq(X) /\ Comes(d3, d2, w3)
  BY <1>5, <1>7, <1>10, Appended
<1>12. d4 \in Seq(X) /\ Comes(d4, d3, w4)
  BY <1>5, <1>7, <1>11, Appended
<1>13. d5 \in Seq(X) /\ Comes(d5, d4, w5)
  BY <1>5, <1>7, <1>12, Appended
<1>14. PICK l1 \in Nat, l2 \in Nat, l3 \in Nat, l4 \in Nat, l5 \in Nat :
         l1 = Len(w1) /\ l2 = Len(w2) /\ l3 = Len(w3) /\ l4 = Len(w4) /\ l5 = Len(w5)
  BY <1>5
<1>15. /\ Len(d1) = 9 + l1 /\ Len(d2) = 9 + l1 + l2 /\ Len(d3) = 9 + l1 + l2 + l3
       /\ Len(d4) = 9 + l1 + l2 + l3 + l4 /\ Len(d5) = 9 + l1 + l2 + l3 + l4 + l5
  BY <1>6, <1>9, <1>10, <1>11, <1>12, <1>13, <1>14 DEF Comes
<1>16. \A k \in 1..9 : d5[k] = w0[k]
  <2>1. ASSUME NEW k \in 1..9 PROVE d5[k] = w0[k]
    <3>0. \A a \in Nat : k \in 1..9 + a
      OBVIOUS
    <3>1. /\ k \in 1..Len(w0) /\ k \in 1..Len(d1) /\ k \in 1..Len(d2) /\ k \in 1..Len(d3)
          /\ k \in 1..Len(d4)
      <4>1. PICK a \in Nat, b \in Nat, c \in Nat : a = l1 + l2 /\ b = a + l3 /\ c = b + l4
        OBVIOUS
      <4>2. Len(d2) = 9 + a /\ Len(d3) = 9 + b /\ Len(d4) = 9 + c /\ Len(d1) = 9 + l1
        BY <1>15, <4>1
      <4> QED
        BY <1>6, <3>0, <4>2
    <3> QED
      BY <1>9, <1>10, <1>11, <1>12, <1>13, <3>1 DEF Comes
  <2> QED
    BY <2>1
<1>17. IsSequence(w1) /\ IsSequence(w2) /\ IsSequence(w3) /\ IsSequence(w4) /\ IsSequence(w5)
  BY <1>5 DEF IsSequence
<1>18. Lies(d5, 9 + 1, w1)
  BY <1>6, <1>9, <1>10, <1>11, <1>12, <1>13, <1>17 DEF Comes
<1>19. Lies(d5, Len(d1) + 1, w2)
  BY <1>10, <1>11, <1>12, <1>13, <1>17 DEF Comes
<1>20. Lies(d5, Len(d2) + 1, w3)
  BY <1>11, <1>12, <1>13, <1>17 DEF Comes
<1>21. Lies(d5, Len(d3) + 1, w4)
  BY <1>12, <1>13, <1>17 DEF Comes
<1>22. Lies(d5, Len(d4) + 1, w5)
  BY <1>13 DEF Comes
<1>23. PICK e : e = <<Len(d1) + 1, Len(d2) + 1, Len(d3) + 1, Len(d4) + 1, Len(d5) + 1>>
  OBVIOUS
<1>24. /\ e[1] = Len(d1) + 1 /\ e[2] = Len(d2) + 1 /\ e[3] = Len(d3) + 1 /\ e[4] = Len(d4) + 1
       /\ e[5] = Len(d5) + 1
  BY <1>23
<1>25. /\ e[1] = 10 + l1 /\ e[2] = e[1] + l2 /\ e[3] = e[2] + l3 /\ e[4] = e[3] + l4
       /\ e[5] = e[4] + l5 /\ 9 + 1 = 10
  BY <1>15, <1>24
<1>26. /\ \A k \in 1..5 : e[k] \in Nat /\ e[k] > 9
       /\ Len(d5) \in Nat
  <2>1. \A k \in 1..5 : k = 1 \/ k = 2 \/ k = 3 \/ k = 4 \/ k = 5
    OBVIOUS
  <2>2. /\ e[1] \in Nat /\ e[2] \in Nat /\ e[3] \in Nat /\ e[4] \in Nat /\ e[5] \in Nat
        /\ e[1] > 9 /\ e[2] > 9 /\ e[3] > 9 /\ e[4] > 9 /\ e[5] > 9
    BY <1>15, <1>24
  <2>3. Len(d5) \in Nat
    BY <1>15
  <2> QED
    BY <2>1, <2>2, <2>3
<1>27. d5[1] = MAGIC /\ d5[2] = VERSION /\ d5[3] = s.hash /\ d5[4] = s.time
       /\ d5[5] = Len(s.objects) /\ d5[6] = Len(s.frames) /\ d5[7] = Len(s.stack)
       /\ d5[8] = Len(s.handles) /\ d5[9] = Len(s.tasks)
  <2>1. /\ 1 \in 1..9 /\ 2 \in 1..9 /\ 3 \in 1..9 /\ 4 \in 1..9 /\ 5 \in 1..9 /\ 6 \in 1..9
        /\ 7 \in 1..9 /\ 8 \in 1..9 /\ 9 \in 1..9
    OBVIOUS
  <2> QED
    BY <1>6, <1>16, <2>1
<1>28. Laid(s, d5, e)
  <2>1. IsSequence(d5)
    BY <1>13 DEF IsSequence
  <2>2. Lies(d5, 10, w1) /\ Lies(d5, e[1], w2) /\ Lies(d5, e[2], w3) /\ Lies(d5, e[3], w4)
        /\ Lies(d5, e[4], w5)
    BY <1>18, <1>19, <1>20, <1>21, <1>22, <1>24, <1>25
  <2> QED
    BY <1>3, <1>14, <1>24, <1>25, <1>26, <1>27, <2>1, <2>2 DEF Laid
<1> QED
  BY <1>8, <1>28

\* What reading the file finds in it.
Found(s) ==
  [error |-> 0, hash |-> s.hash, time |-> s.time, heapCount |-> Len(s.objects),
   ioCount |-> Len(s.handles), taskCount |-> Len(s.tasks), heapData |-> HeapPart(s),
   framesData |-> FramesPart(s), stackData |-> StackPart(s), ioSection |-> IoPart(s),
   taskSection |-> IF Len(s.tasks) = 0 THEN <<>> ELSE TasksPart(s)]

\* The ends of the sections, one after the other.
LEMMA EndsAre ==
  \A data : LET end == Ends(data) IN
    /\ end[1] = EndHeap(data) /\ end[2] = EndFrames(data, end[1]) /\ end[3] = EndStack(data, end[2])
    /\ end[4] = EndIo(data, end[3]) /\ end[5] = EndTasks(data, end[4])
<1> SUFFICES ASSUME NEW data
             PROVE  LET end == Ends(data) IN
                    /\ end[1] = EndHeap(data) /\ end[2] = EndFrames(data, end[1])
                    /\ end[3] = EndStack(data, end[2]) /\ end[4] = EndIo(data, end[3])
                    /\ end[5] = EndTasks(data, end[4])
  OBVIOUS
<1> DEFINE Eqn(f) == f = [k \in 1..5 |-> EndOf(data, k, IF k = 1 THEN 0 ELSE f[k - 1])]
           end == CHOOSE f : Eqn(f)
<1>1. Ends(data) = end
  BY DEF Ends
<1>2. \E f : Eqn(f)
  <2>1. PICK a : a = EndHeap(data)
    OBVIOUS
  <2>2. PICK b : b = EndFrames(data, a)
    OBVIOUS
  <2>3. PICK c : c = EndStack(data, b)
    OBVIOUS
  <2>4. PICK d : d = EndIo(data, c)
    OBVIOUS
  <2>5. PICK e : e = EndTasks(data, d)
    OBVIOUS
  <2>6. PICK f : f = [k \in 1..5 |-> CASE k = 1 -> a [] k = 2 -> b [] k = 3 -> c [] k = 4 -> d
                                       [] k = 5 -> e]
    OBVIOUS
  <2>7. f[1] = a /\ f[2] = b /\ f[3] = c /\ f[4] = d
    BY <2>6
  <2>8. ASSUME NEW k \in 1..5 PROVE f[k] = EndOf(data, k, IF k = 1 THEN 0 ELSE f[k - 1])
    <3>1. k = 1 \/ k = 2 \/ k = 3 \/ k = 4 \/ k = 5
      OBVIOUS
    <3>2. 2 - 1 = 1 /\ 3 - 1 = 2 /\ 4 - 1 = 3 /\ 5 - 1 = 4 /\ f[5] = e
      BY <2>6
    <3> QED
      BY <2>1, <2>2, <2>3, <2>4, <2>5, <2>7, <3>1, <3>2 DEF EndOf
  <2>9. Eqn(f)
    BY <2>6, <2>8
  <2> QED
    BY <2>9
<1>3. Eqn(end)
  <2> HIDE DEF Eqn
  <2> QED
    BY <1>2
<1> HIDE DEF end
<1>4. /\ end[1] = EndHeap(data) /\ end[2] = EndFrames(data, end[1]) /\ end[3] = EndStack(data, end[2])
      /\ end[4] = EndIo(data, end[3]) /\ end[5] = EndTasks(data, end[4])
  <2>1. \A k \in 1..5 : end[k] = EndOf(data, k, IF k = 1 THEN 0 ELSE end[k - 1])
    BY <1>3
  <2>2. /\ 1 \in 1..5 /\ 2 \in 1..5 /\ 3 \in 1..5 /\ 4 \in 1..5 /\ 5 \in 1..5
        /\ 2 - 1 = 1 /\ 3 - 1 = 2 /\ 4 - 1 = 3 /\ 5 - 1 = 4
    OBVIOUS
  <2>3. \A p : /\ EndOf(data, 1, p) = EndHeap(data) /\ EndOf(data, 2, p) = EndFrames(data, p)
               /\ EndOf(data, 3, p) = EndStack(data, p) /\ EndOf(data, 4, p) = EndIo(data, p)
               /\ EndOf(data, 5, p) = EndTasks(data, p)
    BY DEF EndOf
  <2> QED
    BY <2>1, <2>2, <2>3
<1> QED
  BY <1>1, <1>4

\* Where a section ends: where it was to, or an error when the file does not go so far.
EndsOr(d, p, q) == IF q <= Len(d) + 1 THEN p = q ELSE p \in Int /\ p < 0

LEMMA SliceCut ==
  \A d, p : \A q \in Nat : Len(d) \in Nat /\ Leads(d, p, q) => EndsOr(d, Slice(d, p), q)
<1> SUFFICES ASSUME NEW d, NEW p, NEW q \in Nat, Len(d) \in Nat, Leads(d, p, q)
             PROVE  EndsOr(d, Slice(d, p), q)
  OBVIOUS
<1>1. CASE q <= Len(d) + 1
  <2>1. p = q /\ ~(p > Len(d) + 1)
    BY <1>1 DEF Leads
  <2> QED
    BY <1>1, <2>1 DEF Slice, EndsOr
<1>2. CASE ~(q <= Len(d) + 1)
  <2>1. p \in Int /\ (p < 0 \/ p > Len(d) + 1)
    BY <1>2 DEF Leads, Lost
  <2>2. Panic \in Int /\ Panic < 0
    BY DEF Panic
  <2> QED
    BY <1>2, <2>1, <2>2 DEF Slice, EndsOr
<1> QED
  BY <1>1, <1>2

\* A loop does not go on from an error.
LEMMA TimesError == \A n \in Nat : \A p \in Int : \A skip : p < 0 => Times(n, p, skip) = p
<1> SUFFICES ASSUME NEW n \in Nat, NEW p \in Int, NEW skip, p < 0 PROVE Times(n, p, skip) = p
  OBVIOUS
<1>1. PICK f : LoopsOver(f, n, p, skip) /\ Times(n, p, skip) = f[n]
  BY TimesIs DEF LoopTo
<1> DEFINE Z == {k \in 0..n : f[k] = p}
<1>2. 0 \in Z
  BY <1>1 DEF LoopsOver
<1>3. ASSUME NEW k \in 1..n, k - 1 \in Z PROVE k \in Z
  <2>1. f[k] = Then(f[k - 1], skip) /\ f[k - 1] = p
    BY <1>1, <1>3 DEF LoopsOver
  <2>2. f[k] = p
    BY <2>1 DEF Then
  <2> QED
    BY <2>2
<1> HIDE DEF Z
<1>4. n \in Z
  <2>1. \A k \in 0..n : k \in Z
    BY <1>2, <1>3, StepByStep
  <2> QED
    BY <2>1
<1> QED
  BY <1>1, <1>4 DEF Z

\* A section that begins with the number of its entries, which the header also has.
Counts(d, w, p, q, n, a, skip) ==
  /\ Begins(d, w) /\ p \in Nat \ {0} /\ q \in Nat /\ n \in Nat /\ w[p] = n /\ p <= q
  /\ EndsOr(d, a, p) /\ Leads(d, At(Field(d, p), Times(d[p], p + 1, skip)), q)
LEMMA CountedCut ==
  \A d, w, p, q, n, a, skip :
    Counts(d, w, p, q, n, a, skip) => EndsOr(d, Slice(d, Times(n, Field(d, a), skip)), q)
<1> SUFFICES ASSUME NEW d, NEW w, NEW p, NEW q, NEW n, NEW a, NEW skip,
                    Counts(d, w, p, q, n, a, skip)
             PROVE  EndsOr(d, Slice(d, Times(n, Field(d, a), skip)), q)
  OBVIOUS
<1>1. /\ Begins(d, w) /\ p \in Nat \ {0} /\ q \in Nat /\ n \in Nat /\ w[p] = n /\ p <= q
      /\ EndsOr(d, a, p) /\ Leads(d, At(Field(d, p), Times(d[p], p + 1, skip)), q)
      /\ Len(d) \in Nat
  BY DEF Counts, Begins
<1>2. ASSUME NEW b \in Int, b < 0, Field(d, a) = b, ~(q <= Len(d) + 1)
      PROVE  EndsOr(d, Slice(d, Times(n, Field(d, a), skip)), q)
  <2>1. Times(n, Field(d, a), skip) = b
    BY <1>1, <1>2, TimesError
  <2>2. Leads(d, b, q)
    BY <1>2 DEF Leads, Lost
  <2> QED
    BY <1>1, <2>1, <2>2, SliceCut
<1>3. CASE p <= Len(d) + 1
  <2>1. a = p
    BY <1>1, <1>3 DEF EndsOr
  <2>2. CASE FieldThere(d, w, p)
    <3>1. d[p] = n /\ Field(d, p) = p + 1 /\ ~(p + 1 < 0)
      BY <1>1, <2>2 DEF FieldThere
    <3>2. Leads(d, Times(n, Field(d, p), skip), q)
      BY <1>1, <3>1 DEF At
    <3> QED
      BY <1>1, <2>1, <3>2, SliceCut
  <2>3. CASE FieldGone(d, p)
    <3>1. PICK b : b = Field(d, p)
      OBVIOUS
    <3>2. b < 0 /\ \A x : Lost(d, At(b, x))
      BY <2>3, <3>1 DEF FieldGone
    <3>3. At(b, 0) = b
      BY <3>2 DEF At
    <3>4. b \in Int
      BY <3>2, <3>3 DEF Lost
    <3>5. ~(q <= Len(d) + 1)
      <4>1. Lost(d, At(Field(d, p), Times(d[p], p + 1, skip)))
        BY <3>1, <3>2
      <4> QED
        BY <1>1, <4>1 DEF Leads, Lost
    <3> QED
      BY <1>2, <2>1, <3>1, <3>2, <3>4, <3>5
  <2> QED
    BY <1>1, <2>2, <2>3, FieldCut
<1>4. CASE ~(p <= Len(d) + 1)
  <2>1. a \in Int /\ a < 0
    BY <1>1, <1>4 DEF EndsOr
  <2>2. Field(d, a) = a
    BY <2>1 DEF Field, Present, At
  <2>3. ~(q <= Len(d) + 1)
    BY <1>1, <1>4
  <2> QED
    BY <1>2, <2>1, <2>2, <2>3
<1> QED
  BY <1>3, <1>4

\* The sections follow one another.
Follow(data, e) ==
  /\ e[1] \in Nat /\ e[2] \in Nat /\ e[3] \in Nat /\ e[4] \in Nat /\ e[5] \in Nat /\ Len(data) \in Nat
  /\ 9 < e[1] /\ e[1] <= e[2] /\ e[2] <= e[3] /\ e[3] <= e[4] /\ e[4] <= e[5]
  /\ e[5] = Len(data) + 1
LEMMA SectionsFollow ==
  \A s, data, e : PartsAre(s) /\ Laid(s, data, e) => Follow(data, e)
<1> SUFFICES ASSUME NEW s, NEW data, NEW e, PartsAre(s), Laid(s, data, e) PROVE Follow(data, e)
  OBVIOUS
<1>1. /\ e[1] \in Nat /\ e[2] \in Nat /\ e[3] \in Nat /\ e[4] \in Nat /\ e[5] \in Nat
      /\ Len(data) \in Nat /\ 9 < e[1]
  <2>1. 1 \in 1..5 /\ 2 \in 1..5 /\ 3 \in 1..5 /\ 4 \in 1..5 /\ 5 \in 1..5
    OBVIOUS
  <2> QED
    BY <2>1 DEF Laid
<1>2. PICK a, b, c, d, f, la, lb, lc, ld :
        /\ a = e[1] /\ b = e[2] /\ c = e[3] /\ d = e[4] /\ f = e[5]
        /\ la = Len(FramesPart(s)) /\ lb = Len(StackPart(s)) /\ lc = Len(IoPart(s))
        /\ ld = Len(TasksPart(s))
  OBVIOUS
<1>3. la \in Nat /\ lb \in Nat /\ lc \in Nat /\ ld \in Nat
  BY <1>2 DEF PartsAre
<1>4. b = a + la /\ c = b + lb /\ d = c + lc /\ f = d + ld /\ f = Len(data) + 1
  BY <1>2 DEF Laid
<1>5. a \in Nat /\ b \in Nat /\ c \in Nat /\ d \in Nat
  BY <1>1, <1>2
<1>6. a <= b /\ b <= c /\ c <= d /\ d <= f
  BY <1>3, <1>4, <1>5
<1> QED
  BY <1>1, <1>2, <1>4, <1>6 DEF Follow

\* The header is whole, and the sections end where they were to or not at all.
HasHeader(d, w) == \A k \in 1..9 : d[k] = w[k]
CutEnds(s, d, e) ==
  LET end == Ends(d) IN
  /\ EndsOr(d, end[1], e[1]) /\ EndsOr(d, end[2], e[2]) /\ EndsOr(d, end[3], e[3])
  /\ EndsOr(d, end[4], e[4])
  /\ IF Len(s.tasks) = 0 THEN end[5] = end[4] ELSE EndsOr(d, end[5], e[5])
LEMMA EndsCut ==
  \A s, d, w, e :
    IsFileSnapshot(s) /\ Laid(s, w, e) /\ Begins(d, w) /\ HasHeader(d, w) => CutEnds(s, d, e)
<1> SUFFICES ASSUME NEW s, NEW d, NEW w, NEW e, IsFileSnapshot(s), Laid(s, w, e),
                    Begins(d, w), HasHeader(d, w)
             PROVE  CutEnds(s, d, e)
  OBVIOUS
<1>1. PartsAre(s)
  BY PartsOfFile
<1>2. Follow(w, e)
  BY <1>1, SectionsFollow
<1>3. /\ Positions(s) \subseteq Int /\ AnyHeap(Positions(s), s.objects) /\ s.frames \in Seq(FileFrame(Positions(s)))
      /\ s.stack \in Seq(FileValue(Positions(s))) /\ s.handles \in Seq(FileHandle)
      /\ s.tasks \in Seq(FileTask(Positions(s))) /\ Len(s.objects) \in Nat
  BY <1>1 DEF IsFileSnapshot, PartsAre
<1>4. /\ d[2] = 3 /\ d[5] = Len(s.objects) /\ d[6] = Len(s.frames) /\ d[7] = Len(s.stack)
      /\ d[8] = Len(s.handles) /\ d[9] = Len(s.tasks)
  <2>1. d[2] = w[2] /\ d[5] = w[5] /\ d[6] = w[6] /\ d[7] = w[7] /\ d[8] = w[8] /\ d[9] = w[9]
    BY DEF HasHeader
  <2> QED
    BY <2>1 DEF Laid, VERSION
<1>5. /\ HeaderSize(d[2]) = 9 /\ 9 + 1 = 10 /\ ~(d[2] < 2)
      /\ Count(d, 8) = Len(s.handles) /\ Count(d, 9) = Len(s.tasks)
  <2>1. HeaderSize(d[2]) = 9
    BY <1>4 DEF HeaderSize
  <2>2. 8 <= 9 /\ 9 <= 9 /\ ~(3 < 2) /\ 9 + 1 = 10
    OBVIOUS
  <2> QED
    BY <1>4, <2>1, <2>2 DEF Count
<1>6. PICK end : end = Ends(d)
  OBVIOUS
<1>7. /\ end[1] = EndHeap(d) /\ end[2] = EndFrames(d, end[1]) /\ end[3] = EndStack(d, end[2])
      /\ end[4] = EndIo(d, end[3]) /\ end[5] = EndTasks(d, end[4])
  BY <1>6, EndsAre
<1>8. Len(d) \in Nat
  BY DEF Begins
<1>9. EndsOr(d, end[1], e[1])
  <2>1. Leads(d, Times(Len(s.objects), 10, [q \in Int |-> SkipHeapObject(d, q)]),
              10 + Len(HeapPart(s)))
    BY <1>3, ObjectsCut DEF Laid, HeapPart
  <2>2. Leads(d, Times(d[5], 10, [q \in Int |-> SkipHeapObject(d, q)]), e[1])
    BY <1>4, <2>1 DEF Laid
  <2>3. EndsOr(d, Slice(d, Times(d[5], 10, [q \in Int |-> SkipHeapObject(d, q)])), e[1])
    BY <1>2, <1>8, <2>2, SliceCut DEF Follow
  <2> QED
    BY <1>5, <1>7, <2>3 DEF EndHeap, Section
<1>10. EndsOr(d, end[2], e[2])
  <2>1. Leads(d, SkipCounted(d, e[1], SkipFrameEntry), e[1] + Len(FramesPart(s)))
    BY <1>3, FramesCut DEF Laid, FramesPart
  <2>2. PICK skip : skip = [q \in Int |-> SkipFrameEntry(d, q)]
    OBVIOUS
  <2>3. Leads(d, At(Field(d, e[1]), Times(d[e[1]], e[1] + 1, skip)), e[2])
    BY <2>1, <2>2 DEF SkipCounted, Laid
  <2>4. w[e[1]] = Len(s.frames)
    BY <1>1 DEF PartsAre, FramesBack, FramesPart, Laid, CountAt
  <2>5. Counts(d, w, e[1], e[2], Len(s.frames), end[1], skip)
    <3>1. e[1] \in Nat \ {0}
      BY <1>2 DEF Follow
    <3> QED
      BY <1>2, <1>3, <1>9, <2>3, <2>4, <3>1 DEF Counts, Follow
  <2>6. EndsOr(d, Slice(d, Times(d[6], Field(d, end[1]), skip)), e[2])
    BY <1>4, <2>5, CountedCut
  <2> QED
    BY <1>7, <2>2, <2>6 DEF EndFrames, CountedSection, Section
<1>11. EndsOr(d, end[3], e[3])
  <2>1. Leads(d, SkipValues(d, e[2]), e[2] + Len(StackPart(s)))
    BY <1>3, ValuesCut DEF Laid, StackPart
  <2>2. PICK skip : skip = [q \in Int |-> SkipValue(d, q)]
    OBVIOUS
  <2>3. Leads(d, At(Field(d, e[2]), Times(d[e[2]], e[2] + 1, skip)), e[3])
    BY <2>1, <2>2 DEF SkipValues, SkipCounted, Laid
  <2>4. w[e[2]] = Len(s.stack)
    BY <1>1 DEF PartsAre, ValuesBack, StackPart, Laid, CountAt
  <2>5. Counts(d, w, e[2], e[3], Len(s.stack), end[2], skip)
    <3>1. e[2] \in Nat \ {0}
      BY <1>2 DEF Follow
    <3> QED
      BY <1>2, <1>3, <1>10, <2>3, <2>4, <3>1 DEF Counts, Follow
  <2>6. EndsOr(d, Slice(d, Times(d[7], Field(d, end[2]), skip)), e[3])
    BY <1>4, <2>5, CountedCut
  <2> QED
    BY <1>7, <2>2, <2>6 DEF EndStack, CountedSection, Section
<1>12. EndsOr(d, end[4], e[4])
  <2>1. Leads(d, SkipCounted(d, e[3], SkipIoEntry), e[3] + Len(IoPart(s)))
    BY <1>3, HandlesCut DEF Laid, IoPart
  <2>2. PICK skip : skip = [q \in Int |-> SkipIoEntry(d, q)]
    OBVIOUS
  <2>3. Leads(d, At(Field(d, e[3]), Times(d[e[3]], e[3] + 1, skip)), e[4])
    BY <2>1, <2>2 DEF SkipCounted, Laid
  <2>4. w[e[3]] = Len(s.handles)
    BY <1>1 DEF PartsAre, HandlesBack, IoPart, Laid, CountAt
  <2>5. Counts(d, w, e[3], e[4], Len(s.handles), end[3], skip)
    <3>1. e[3] \in Nat \ {0}
      BY <1>2 DEF Follow
    <3> QED
      BY <1>2, <1>3, <1>11, <2>3, <2>4, <3>1 DEF Counts, Follow
  <2>6. EndsOr(d, Slice(d, Times(Len(s.handles), Field(d, end[3]), skip)), e[4])
    BY <2>5, CountedCut
  <2> QED
    BY <1>5, <1>7, <2>2, <2>6 DEF EndIo, CountedSection, Section
<1>13. IF Len(s.tasks) = 0 THEN end[5] = end[4] ELSE EndsOr(d, end[5], e[5])
  <2>1. CASE Len(s.tasks) = 0
    BY <1>5, <1>7, <2>1 DEF EndTasks
  <2>2. CASE Len(s.tasks) # 0
    <3>1. Leads(d, SkipCounted(d, e[4], SkipTaskEntry), e[4] + Len(TasksPart(s)))
      BY <1>3, TasksCut DEF Laid, TasksPart
    <3>2. PICK skip : skip = [q \in Int |-> SkipTaskEntry(d, q)]
      OBVIOUS
    <3>3. Leads(d, At(Field(d, e[4]), Times(d[e[4]], e[4] + 1, skip)), e[5])
      BY <3>1, <3>2 DEF SkipCounted, Laid
    <3>4. w[e[4]] = Len(s.tasks)
      BY <1>1 DEF PartsAre, TasksBack, TasksPart, Laid, CountAt
    <3>5. Counts(d, w, e[4], e[5], Len(s.tasks), end[4], skip)
      <4>1. e[4] \in Nat \ {0}
        BY <1>2 DEF Follow
      <4> QED
        BY <1>2, <1>3, <1>12, <3>3, <3>4, <4>1 DEF Counts, Follow
    <3>6. EndsOr(d, Slice(d, Times(Len(s.tasks), Field(d, end[4]), skip)), e[5])
      BY <3>5, CountedCut
    <3> QED
      BY <1>5, <1>7, <2>2, <3>2, <3>6 DEF EndTasks, CountedSection, Section
  <2> QED
    BY <2>1, <2>2
<1> QED
  BY <1>6, <1>9, <1>10, <1>11, <1>12, <1>13 DEF CutEnds

\* How far a file has to go.
Needed(s, e) == IF Len(s.tasks) = 0 THEN e[4] ELSE e[5]

LEMMA HeaderThere == \A d, w : Begins(d, w) /\ Len(d) >= 9 => HasHeader(d, w)
<1> SUFFICES ASSUME NEW d, NEW w, Begins(d, w), Len(d) >= 9 PROVE HasHeader(d, w)
  OBVIOUS
<1>1. PICK l \in Nat : l = Len(d) /\ l >= 9
  BY DEF Begins
<1>2. ASSUME NEW k \in 1..9 PROVE d[k] = w[k]
  <2>1. k \in 1..l
    BY <1>1
  <2> QED
    BY <1>1, <2>1 DEF Begins
<1> QED
  BY <1>2 DEF HasHeader

\* Without all of its header a file is refused.
LEMMA HeaderCut ==
  \A s, d, w, e : Laid(s, w, e) /\ Begins(d, w) /\ Len(d) < 9 => ReadFromBytes(d).error # 0
<1> SUFFICES ASSUME NEW s, NEW d, NEW w, NEW e, Laid(s, w, e), Begins(d, w), Len(d) < 9
             PROVE  ReadFromBytes(d).error # 0
  OBVIOUS
<1>1. PICK l \in Nat : l = Len(d) /\ l < 9
  BY DEF Begins
<1>2. [error |-> Eof].error # 0
  BY DEF Eof
<1>3. CASE d = <<>>
  BY <1>2, <1>3 DEF ReadFromBytes
<1>4. CASE d # <<>>
  <2>1. l # 0
    <3>1. \E X : d \in Seq(X)
      BY DEF Begins, IsSequence
    <3> QED
      BY <1>1, <1>4, <3>1, EmptyList
  <2>2. d[1] = MAGIC
    <3>1. 1 \in 1..l
      BY <2>1
    <3> QED
      BY <1>1, <3>1 DEF Begins, Laid
  <2>3. CASE l < 2
    BY <1>1, <1>2, <1>4, <2>2, <2>3 DEF ReadFromBytes
  <2>4. CASE ~(l < 2)
    <3>1. d[2] = 3
      <4>1. 2 \in 1..l
        BY <2>4
      <4> QED
        BY <1>1, <4>1 DEF Begins, Laid, VERSION
    <3>2. ~(d[2] > VERSION) /\ HeaderSize(d[2]) = 9
      BY <3>1 DEF VERSION, HeaderSize
    <3> QED
      BY <1>1, <1>2, <1>4, <2>2, <2>4, <3>2 DEF ReadFromBytes
  <2> QED
    BY <2>3, <2>4
<1> QED
  BY <1>3, <1>4

\* With it, the rest of the file is cut into sections.
LEMMA HeaderRead ==
  \A s, d, w, e : Laid(s, w, e) /\ Begins(d, w) /\ Len(d) >= 9 => ReadFromBytes(d) = Cut(d, Ends(d))
<1> SUFFICES ASSUME NEW s, NEW d, NEW w, NEW e, Laid(s, w, e), Begins(d, w), Len(d) >= 9
             PROVE  ReadFromBytes(d) = Cut(d, Ends(d))
  OBVIOUS
<1>1. PICK l \in Nat : l = Len(d) /\ l >= 9
  BY DEF Begins
<1>2. d # <<>>
  <2>1. Len(<<>>) = 0
    OBVIOUS
  <2> QED
    BY <1>1, <2>1
<1>3. d[1] = MAGIC /\ d[2] = 3
  <2>1. HasHeader(d, w)
    BY HeaderThere
  <2>2. d[1] = w[1] /\ d[2] = w[2]
    BY <2>1 DEF HasHeader
  <2> QED
    BY <2>2 DEF Laid, VERSION
<1>4. ~(d[2] > VERSION) /\ HeaderSize(d[2]) = 9 /\ ~(l < 2) /\ ~(l < 9)
  BY <1>1, <1>3 DEF VERSION, HeaderSize
<1> QED
  BY <1>1, <1>2, <1>3, <1>4 DEF ReadFromBytes

\* A part that begins at p and ends before q, in what there is of the file.
LEMMA PartFound ==
  \A d, w, p, q : \A x \in Seq(Int) :
    Begins(d, w) /\ Lies(w, p, x) /\ q = p + Len(x) /\ q <= Len(d) + 1 => SubSeq(d, p, q - 1) = x
<1> SUFFICES ASSUME NEW d, NEW w, NEW p, NEW q, NEW x \in Seq(Int), Begins(d, w), Lies(w, p, x),
                    q = p + Len(x), q <= Len(d) + 1
             PROVE  SubSeq(d, p, q - 1) = x
  OBVIOUS
<1>1. Lies(d, p, x)
  BY StillLies
<1> QED
  BY <1>1, SliceIs

\* The section of the tasks is empty when there are none.
LEMMA NothingFound ==
  \A d, w : \A p \in Nat : Begins(d, w) /\ p > 0 /\ p <= Len(d) + 1 => SubSeq(d, p, p - 1) = <<>>
<1> SUFFICES ASSUME NEW d, NEW w, NEW p \in Nat, Begins(d, w), p > 0, p <= Len(d) + 1
             PROVE  SubSeq(d, p, p - 1) = <<>>
  OBVIOUS
<1>1. PICK X : d \in Seq(X)
  BY DEF Begins, IsSequence
<1>2. p - 1 <= Len(d) /\ (p - 1) - p + 1 = 0 /\ p >= 1
  BY <1>1
<1>3. SubSeq(d, p, p - 1) \in Seq(X) /\ Len(SubSeq(d, p, p - 1)) = 0
  BY <1>1, <1>2
<1> QED
  BY <1>3, EmptyList

\* A file cut short is read as the whole of it, or refused.
ReadsCut(s, d, e) ==
  IF Needed(s, e) <= Len(d) + 1 THEN ReadFromBytes(d) = Found(s) ELSE ReadFromBytes(d).error # 0
LEMMA FileCut ==
  \A s, d, w, e : IsFileSnapshot(s) /\ Laid(s, w, e) /\ Begins(d, w) => ReadsCut(s, d, e)
<1> SUFFICES ASSUME NEW s, NEW d, NEW w, NEW e, IsFileSnapshot(s), Laid(s, w, e), Begins(d, w)
             PROVE  ReadsCut(s, d, e)
  OBVIOUS
<1>1. PartsAre(s)
  BY PartsOfFile
<1>2. Follow(w, e)
  BY <1>1, SectionsFollow
<1>3. PICK l \in Nat : l = Len(d)
  BY DEF Begins
<1>4. PICK m \in Nat : m = Needed(s, e) /\ m > 9 /\ e[4] <= m
  <2>1. /\ e[4] \in Nat /\ e[5] \in Nat /\ e[4] <= e[5] /\ 9 < e[4]
    BY <1>2 DEF Follow
  <2> QED
    BY <2>1 DEF Needed
<1>5. PICK end : end = Ends(d)
  OBVIOUS
<1>6. CASE l < 9
  <2>1. ~(m <= l + 1)
    BY <1>4, <1>6
  <2>2. ReadFromBytes(d).error # 0
    BY <1>3, <1>6, HeaderCut
  <2> QED
    BY <1>3, <1>4, <2>1, <2>2 DEF ReadsCut
<1>7. CASE l >= 9
  <2>1. HasHeader(d, w) /\ ReadFromBytes(d) = Cut(d, end)
    BY <1>3, <1>5, <1>7, HeaderThere, HeaderRead
  <2>2. CutEnds(s, d, e)
    BY <2>1, EndsCut
  <2>3. CASE ~(m <= l + 1)
    <3>1. end[5] < 0
      BY <1>3, <1>4, <1>5, <2>2, <2>3 DEF CutEnds, EndsOr, Needed
    <3>2. Cut(d, end) = [error |-> end[5]]
      BY <3>1 DEF Cut
    <3>3. Cut(d, end).error # 0
      BY <3>1, <3>2
    <3> QED
      BY <1>3, <1>4, <2>1, <2>3, <3>3 DEF ReadsCut
  <2>4. CASE m <= l + 1
    <3>1. /\ e[1] \in Nat /\ e[2] \in Nat /\ e[3] \in Nat /\ e[4] \in Nat
          /\ e[1] <= l + 1 /\ e[2] <= l + 1 /\ e[3] <= l + 1 /\ e[4] <= l + 1
          /\ 0 < e[4]
      <4>1. PICK a, b, c, f : a = e[1] /\ b = e[2] /\ c = e[3] /\ f = e[4]
        OBVIOUS
      <4>2. /\ a \in Nat /\ b \in Nat /\ c \in Nat /\ f \in Nat /\ 9 < a
            /\ a <= b /\ b <= c /\ c <= f /\ f <= m
        BY <1>2, <1>4, <4>1 DEF Follow
      <4>3. a <= l + 1 /\ b <= l + 1 /\ c <= l + 1 /\ f <= l + 1 /\ 0 < f
        BY <2>4, <4>2
      <4> QED
        BY <4>1, <4>2, <4>3
    <3>2. end[1] = e[1] /\ end[2] = e[2] /\ end[3] = e[3] /\ end[4] = e[4]
      BY <1>3, <1>5, <2>2, <3>1 DEF CutEnds, EndsOr
    <3>3. /\ d[2] = 3 /\ d[3] = s.hash /\ d[4] = s.time /\ d[5] = Len(s.objects)
          /\ d[8] = Len(s.handles) /\ d[9] = Len(s.tasks)
      <4>1. d[2] = w[2] /\ d[3] = w[3] /\ d[4] = w[4] /\ d[5] = w[5] /\ d[8] = w[8] /\ d[9] = w[9]
        BY <2>1 DEF HasHeader
      <4> QED
        BY <4>1 DEF Laid, VERSION
    <3>4. HeaderSize(d[2]) = 9 /\ Count(d, 8) = Len(s.handles) /\ Count(d, 9) = Len(s.tasks)
      <4>1. HeaderSize(d[2]) = 9
        BY <3>3 DEF HeaderSize
      <4>2. 8 <= 9 /\ 9 <= 9
        OBVIOUS
      <4> QED
        BY <3>3, <4>1, <4>2 DEF Count
    <3>5. /\ HeapPart(s) \in Seq(Int) /\ FramesPart(s) \in Seq(Int) /\ StackPart(s) \in Seq(Int)
          /\ IoPart(s) \in Seq(Int) /\ TasksPart(s) \in Seq(Int)
      BY <1>1 DEF PartsAre
    <3>6. SubSeq(d, 9 + 1, end[1] - 1) = HeapPart(s)
      <4>1. Lies(w, 10, HeapPart(s)) /\ e[1] = 10 + Len(HeapPart(s)) /\ 9 + 1 = 10
        BY DEF Laid
      <4>2. SubSeq(d, 10, e[1] - 1) = HeapPart(s)
        BY <1>3, <3>1, <3>5, <4>1, PartFound
      <4> QED
        BY <3>2, <4>1, <4>2
    <3>7. SubSeq(d, end[1], end[2] - 1) = FramesPart(s)
      <4>1. Lies(w, e[1], FramesPart(s)) /\ e[2] = e[1] + Len(FramesPart(s))
        BY DEF Laid
      <4>2. SubSeq(d, e[1], e[2] - 1) = FramesPart(s)
        BY <1>3, <3>1, <3>5, <4>1, PartFound
      <4> QED
        BY <3>2, <4>2
    <3>8. SubSeq(d, end[2], end[3] - 1) = StackPart(s)
      <4>1. Lies(w, e[2], StackPart(s)) /\ e[3] = e[2] + Len(StackPart(s))
        BY DEF Laid
      <4>2. SubSeq(d, e[2], e[3] - 1) = StackPart(s)
        BY <1>3, <3>1, <3>5, <4>1, PartFound
      <4> QED
        BY <3>2, <4>2
    <3>9. SubSeq(d, end[3], end[4] - 1) = IoPart(s)
      <4>1. Lies(w, e[3], IoPart(s)) /\ e[4] = e[3] + Len(IoPart(s))
        BY DEF Laid
      <4>2. SubSeq(d, e[3], e[4] - 1) = IoPart(s)
        BY <1>3, <3>1, <3>5, <4>1, PartFound
      <4> QED
        BY <3>2, <4>2
    <3>10. /\ end[5] = m
           /\ SubSeq(d, end[4], end[5] - 1) = IF Len(s.tasks) = 0 THEN <<>> ELSE TasksPart(s)
      <4>1. CASE Len(s.tasks) = 0
        <5>1. end[5] = end[4] /\ m = e[4]
          BY <1>4, <1>5, <2>2, <4>1 DEF CutEnds, Needed
        <5>2. SubSeq(d, e[4], e[4] - 1) = <<>>
          BY <1>3, <3>1, NothingFound
        <5> QED
          BY <3>2, <4>1, <5>1, <5>2
      <4>2. CASE Len(s.tasks) # 0
        <5>1. end[5] = e[5] /\ m = e[5]
          BY <1>3, <1>4, <1>5, <2>2, <2>4, <4>2 DEF CutEnds, EndsOr, Needed
        <5>2. Lies(w, e[4], TasksPart(s)) /\ e[5] = e[4] + Len(TasksPart(s))
          BY DEF Laid
        <5>3. SubSeq(d, e[4], e[5] - 1) = TasksPart(s)
          BY <1>3, <2>4, <3>5, <5>1, <5>2, PartFound
        <5> QED
          BY <3>2, <4>2, <5>1, <5>3
      <4> QED
        BY <4>1, <4>2
    <3>11. ~(end[5] < 0)
      BY <3>10
    <3>12. Cut(d, end) = Found(s)
      BY <3>3, <3>4, <3>6, <3>7, <3>8, <3>9, <3>10, <3>11 DEF Cut, Found
    <3> QED
      BY <1>3, <1>4, <2>1, <2>4, <3>12 DEF ReadsCut
  <2> QED
    BY <2>3, <2>4
<1> QED
  BY <1>6, <1>7

\* And the whole of it is read.
LEMMA FileFound == \A s : IsFileSnapshot(s) => ReadFromBytes(WriteToFile(s)) = Found(s)
<1> SUFFICES ASSUME NEW s, IsFileSnapshot(s) PROVE ReadFromBytes(WriteToFile(s)) = Found(s)
  OBVIOUS
<1>1. PICK data : data = WriteToFile(s)
  OBVIOUS
<1>2. PICK e : Laid(s, data, e)
  BY <1>1, FileLaid
<1>3. Begins(data, data)
  <2>1. IsSequence(data) /\ Len(data) \in Nat
    BY <1>2 DEF Laid
  <2>2. DOMAIN data = 1..Len(data)
    BY <2>1 DEF IsSequence
  <2> QED
    BY <2>1, <2>2 DEF Begins
<1>4. Needed(s, e) <= Len(data) + 1
  <2>1. Follow(data, e)
    BY <1>2, PartsOfFile, SectionsFollow
  <2> QED
    BY <2>1 DEF Follow, Needed
<1>5. ReadsCut(s, data, e)
  BY <1>2, <1>3, FileCut
<1> QED
  BY <1>1, <1>4, <1>5 DEF ReadsCut

\* What a crash leaves of the writing of a file is its beginning.
LEMMA PrefixBegins ==
  ASSUME NEW w, IsSequence(w), NEW n \in 0..Len(w)
  PROVE  Begins(SubSeq(w, 1, n), w)
<1>1. PICK X : w \in Seq(X)
  BY DEF IsSequence
<1>2. PICK d : d = SubSeq(w, 1, n)
  OBVIOUS
<1>3. n \in Nat /\ n <= Len(w) /\ Len(w) \in Nat
  BY <1>1
<1>4. d \in Seq(X) /\ Len(d) = n /\ \A k \in 1..n : d[k] = w[k]
  <2>1. 1 \in Nat /\ (n - 1) + 1 = n
    BY <1>3
  <2> QED
    BY <1>1, <1>2, <1>3, <2>1
<1>5. DOMAIN d = 1..n
  BY <1>4
<1> QED
  BY <1>2, <1>3, <1>4, <1>5 DEF Begins, IsSequence

\* Reading the beginning of a file finds what reading all of it finds, or fails.
LEMMA PrefixRead ==
  \A s : IsFileSnapshot(s) =>
    \A n \in 0..Len(WriteToFile(s)) :
      \/ ReadFromBytes(SubSeq(WriteToFile(s), 1, n)) = ReadFromBytes(WriteToFile(s))
      \/ ReadFromBytes(SubSeq(WriteToFile(s), 1, n)).error # 0
<1> SUFFICES ASSUME NEW s, IsFileSnapshot(s), NEW n \in 0..Len(WriteToFile(s))
             PROVE  \/ ReadFromBytes(SubSeq(WriteToFile(s), 1, n)) = ReadFromBytes(WriteToFile(s))
                    \/ ReadFromBytes(SubSeq(WriteToFile(s), 1, n)).error # 0
  OBVIOUS
<1>1. PICK w : w = WriteToFile(s)
  OBVIOUS
<1>2. PICK e : Laid(s, w, e)
  BY <1>1, FileLaid
<1>3. Begins(SubSeq(w, 1, n), w)
  BY <1>1, <1>2, PrefixBegins DEF Laid
<1>4. ReadsCut(s, SubSeq(w, 1, n), e)
  BY <1>2, <1>3, FileCut
<1>5. ReadFromBytes(w) = Found(s)
  BY <1>1, FileFound
<1> QED
  BY <1>1, <1>4, <1>5 DEF ReadsCut

LEMMA LiesItself == \A w \in Seq(Int) : Lies(w, 1, w)
<1> SUFFICES ASSUME NEW w \in Seq(Int) PROVE Lies(w, 1, w)
  OBVIOUS
<1>1. PICK n \in Nat : n = Len(w) /\ DOMAIN w = 1..n
  OBVIOUS
<1>2. \A k \in 1..n : w[1 + k - 1] = w[k]
  <2>1. ASSUME NEW k \in 1..n PROVE w[1 + k - 1] = w[k]
    <3>1. 1 + k - 1 = k
      OBVIOUS
    <3> QED
      BY <3>1
  <2> QED
    BY <2>1
<1>3. IsSequence(w)
  BY DEF IsSequence
<1> QED
  BY <1>1, <1>2, <1>3 DEF Lies

\* What the sections give besides the heap.
RestRead(s, f) ==
  /\ ReadFrames(f.framesData, 1, 1..f.heapCount) = Done(1 + Len(FramesPart(s)), s.frames)
  /\ ReadValues(f.stackData, 1, 1..f.heapCount) = Done(1 + Len(StackPart(s)), s.stack)
  /\ ReadTasks(f).at \in Nat /\ ReadTasks(f).val = s.tasks
  /\ (IF f.ioCount = 0 THEN Done(1, <<>>) ELSE ReadHandles(f.ioSection, 1)).val = s.handles
  /\ 1 + Len(FramesPart(s)) \in Nat /\ 1 + Len(StackPart(s)) \in Nat
LEMMA RestIsRead == \A s : IsFileSnapshot(s) => RestRead(s, Found(s))
<1> SUFFICES ASSUME NEW s, IsFileSnapshot(s) PROVE RestRead(s, Found(s))
  OBVIOUS
<1>1. PICK f : f = Found(s)
  OBVIOUS
<1>2. /\ f.heapCount = Len(s.objects) /\ f.ioCount = Len(s.handles) /\ f.taskCount = Len(s.tasks)
      /\ f.framesData = FramesPart(s) /\ f.stackData = StackPart(s) /\ f.ioSection = IoPart(s)
      /\ f.taskSection = IF Len(s.tasks) = 0 THEN <<>> ELSE TasksPart(s)
  BY <1>1 DEF Found
<1>3. PartsAre(s) /\ 1..f.heapCount = Positions(s)
  BY <1>2, PartsOfFile DEF Positions
<1>4. ReadFrames(f.framesData, 1, Positions(s)) = Done(1 + Len(FramesPart(s)), s.frames)
  <2>1. Lies(FramesPart(s), 1, FramesPart(s))
    BY <1>3, LiesItself DEF PartsAre
  <2> QED
    BY <1>2, <1>3, <2>1 DEF PartsAre, FramesBack, FramesPart
<1>5. ReadValues(f.stackData, 1, Positions(s)) = Done(1 + Len(StackPart(s)), s.stack)
  <2>1. Lies(StackPart(s), 1, StackPart(s))
    BY <1>3, LiesItself DEF PartsAre
  <2> QED
    BY <1>2, <1>3, <2>1 DEF PartsAre, ValuesBack, StackPart
<1>6. (IF f.ioCount = 0 THEN Done(1, <<>>) ELSE ReadHandles(f.ioSection, 1)).val = s.handles
  <2>1. CASE f.ioCount = 0
    <3>1. s.handles = <<>>
      BY <1>2, <2>1, EmptyList DEF IsFileSnapshot
    <3> QED
      BY <2>1, <3>1, DoneIs
  <2>2. CASE f.ioCount # 0
    <3>1. Lies(IoPart(s), 1, IoPart(s))
      BY <1>3, LiesItself DEF PartsAre
    <3>2. ReadHandles(IoPart(s), 1) = Done(1 + Len(IoPart(s)), s.handles)
      BY <1>3, <3>1 DEF PartsAre, HandlesBack, IoPart
    <3> QED
      BY <1>2, <2>2, <3>2, DoneIs
  <2> QED
    BY <2>1, <2>2
<1>7. ReadTasks(f).at \in Nat /\ ReadTasks(f).val = s.tasks
  <2>1. CASE f.taskCount = 0
    <3>1. s.tasks = <<>>
      BY <1>2, <2>1, EmptyList DEF IsFileSnapshot
    <3>2. ReadTasks(f) = Done(1, <<>>)
      BY <2>1 DEF ReadTasks
    <3> QED
      BY <3>1, <3>2, DoneIs
  <2>2. CASE f.taskCount # 0
    <3>1. Lies(TasksPart(s), 1, TasksPart(s))
      BY <1>3, LiesItself DEF PartsAre
    <3>2. ReadEntries(TasksPart(s), 1, Positions(s)) = Done(1 + Len(TasksPart(s)), s.tasks)
      BY <1>3, <3>1 DEF PartsAre, TasksBack, TasksPart
    <3>3. f.taskSection = TasksPart(s)
      BY <1>2, <2>2
    <3>4. ReadTasks(f) = ReadEntries(TasksPart(s), 1, Positions(s))
      BY <1>3, <2>2, <3>3 DEF ReadTasks, ReadEntries, ReadCounted
    <3>5. PICK n \in Nat : n = Len(TasksPart(s))
      BY <1>3 DEF PartsAre
    <3>6. 1 + n \in Nat
      OBVIOUS
    <3> QED
      BY <3>2, <3>4, <3>5, <3>6, DoneIs
  <2> QED
    BY <2>1, <2>2
<1>8. 1 + Len(FramesPart(s)) \in Nat /\ 1 + Len(StackPart(s)) \in Nat
  <2>1. PICK m \in Nat, n \in Nat : m = Len(FramesPart(s)) /\ n = Len(StackPart(s))
    BY <1>3 DEF PartsAre
  <2>2. 1 + m \in Nat /\ 1 + n \in Nat
    OBVIOUS
  <2> QED
    BY <2>1, <2>2
<1> QED
  BY <1>1, <1>3, <1>4, <1>5, <1>6, <1>7, <1>8 DEF RestRead

\* A file whose objects refer to objects before them only is read as what was written.
LEMMA SnapshotReadsBack ==
  \A s : IsFileSnapshot(s) /\ FileHeap(s.objects) => Same(ReadSnapshot(WriteToFile(s)), s)
<1> SUFFICES ASSUME NEW s, IsFileSnapshot(s), FileHeap(s.objects)
             PROVE  Same(ReadSnapshot(WriteToFile(s)), s)
  OBVIOUS
<1>1. PICK f : f = Found(s)
  OBVIOUS
<1>2. RestRead(s, f)
  BY <1>1, RestIsRead
<1>3. /\ f.error = 0 /\ f.heapData = HeapPart(s) /\ f.heapCount = Len(s.objects)
      /\ f.hash = s.hash /\ f.time = s.time
  BY <1>1 DEF Found
<1>4. PartsAre(s)
  BY PartsOfFile
<1>5. PICK heap, frames, stack, tasks, handles :
        /\ heap = RestoredObjects(f.heapData, f.heapCount)
        /\ frames = ReadFrames(f.framesData, 1, 1..f.heapCount)
        /\ stack = ReadValues(f.stackData, 1, 1..f.heapCount) /\ tasks = ReadTasks(f)
        /\ handles = IF f.ioCount = 0 THEN Done(1, <<>>) ELSE ReadHandles(f.ioSection, 1)
  OBVIOUS
<1>6. heap.at \in Nat /\ heap.val = s.objects
  <2>1. Lies(HeapPart(s), 1, HeapPart(s))
    BY <1>4, LiesItself DEF PartsAre
  <2>2. heap = Done(1 + Len(HeapPart(s)), s.objects)
    BY <1>3, <1>5, <2>1, ObjectsReadBack DEF ObjectsBack, HeapPart
  <2>3. PICK n \in Nat : n = Len(HeapPart(s))
    BY <1>4 DEF PartsAre
  <2>4. 1 + n \in Nat
    OBVIOUS
  <2> QED
    BY <2>2, <2>3, <2>4, DoneIs
<1>7. /\ frames.at \in Nat /\ stack.at \in Nat /\ tasks.at \in Nat
      /\ frames.val = s.frames /\ stack.val = s.stack /\ tasks.val = s.tasks /\ handles.val = s.handles
  BY <1>2, <1>5, DoneIs DEF RestRead
<1>8. Parsed(f, heap, frames, stack, tasks, handles)
        = [error |-> 0, hash |-> s.hash, time |-> s.time, objects |-> s.objects, frames |-> s.frames,
           stack |-> s.stack, handles |-> s.handles, tasks |-> s.tasks]
  <2>1. PICK ends : ends = <<heap.at, frames.at, stack.at, tasks.at>>
    OBVIOUS
  <2>2. DOMAIN ends = 1..4 /\ ends[1] \in Nat /\ ends[2] \in Nat /\ ends[3] \in Nat /\ ends[4] \in Nat
    BY <1>6, <1>7, <2>1
  <2>3. {k \in DOMAIN ends : ends[k] < 0} = {}
    <3>1. ASSUME NEW k \in DOMAIN ends PROVE ~(ends[k] < 0)
      <4>1. k = 1 \/ k = 2 \/ k = 3 \/ k = 4
        BY <2>2
      <4>2. ends[k] \in Nat
        BY <2>2, <4>1
      <4> QED
        BY <4>2
    <3> QED
      BY <3>1
  <2> QED
    BY <1>3, <1>6, <1>7, <2>1, <2>3 DEF Parsed
<1>9. ReadSnapshot(WriteToFile(s)) = Parsed(f, heap, frames, stack, tasks, handles)
  BY <1>1, <1>3, <1>5, FileFound DEF ReadSnapshot, ReadSections
<1>10. DOMAIN s = {"hash", "time", "objects", "frames", "stack", "handles", "tasks"}
  BY DEF IsFileSnapshot
<1> QED
  BY <1>8, <1>9, <1>10 DEF Same

-----------------------------------------------------------------------------
(* Sets and sequences of fields.                                           *)

\* What a HashMap lists of finitely many keys is a sequence of them.
LEMMA SetIsListed ==
  ASSUME NEW S, IsFiniteSet(S)
  PROVE  Seqs!SetToSeq(S) \in Seq(S)
<1>1. Cardinality(S) \in Nat /\ ExistsBijection(1..Cardinality(S), S)
  BY FS_CardinalityType
<1>2. \E f \in [1..Cardinality(S) -> S] : Seqs!IsInjective(f)
  BY <1>1 DEF ExistsBijection, Bijection, Injection, IsInjective, Seqs!IsInjective
<1>3. Seqs!Cardinality(S) = Cardinality(S)
  BY DEF Seqs!Cardinality, Cardinality
<1>4. Seqs!SetToSeq(S) \in [1..Cardinality(S) -> S]
  BY <1>2, <1>3 DEF Seqs!SetToSeq
<1> QED
  BY <1>1, <1>4

\* The entries of a list are what the table holds.
LEMMA EachFields ==
  \A S, T, xs, ys :
    xs \in Seq(S) /\ ys = [k \in DOMAIN xs |-> ys[k]] /\ (\A k \in DOMAIN xs : ys[k] \in T)
      => ys \in Seq(T)
OBVIOUS

-----------------------------------------------------------------------------
(* Where reading stops: at the first reference that is not to an object    *)
(* before it.                                                              *)

LEMMA Earliest ==
  ASSUME NEW S, S \subseteq Nat, S # {}
  PROVE  \E m \in S : \A k \in S : ~(k < m)
<1>1. PICK m \in S : \A k \in S : <<k, m>> \notin OpToRel(<, Nat)
  BY NatLessThanWellFounded, WFMin
<1>2. ASSUME NEW k \in S PROVE ~(k < m)
  BY <1>1 DEF OpToRel
<1> QED
  BY <1>2

\* The m-th reading fails, those before it do not.
Stops(n, m, at, read, xs, error) ==
  /\ n \in Nat /\ m \in 1..n /\ error \in Int /\ error < 0
  /\ at \in [0..n -> Nat] /\ IsSequence(xs) /\ Len(xs) = n
  /\ \A k \in 1..m - 1 : read[k][at[k - 1]] = Done(at[k], xs[k])
  /\ read[m][at[m - 1]].at = error

LEMMA ReadManyStops ==
  \A n, m, at, read, xs, error :
    Stops(n, m, at, read, xs, error) => ReadMany(n, at[0], read).at = error
<1> SUFFICES ASSUME NEW n, NEW m, NEW at, NEW read, NEW xs, NEW error,
                    Stops(n, m, at, read, xs, error)
             PROVE  ReadMany(n, at[0], read).at = error
  OBVIOUS
<1>a. /\ n \in Nat /\ m \in 1..n /\ error \in Int /\ error < 0
      /\ at \in [0..n -> Nat] /\ Len(xs) = n
      /\ \A k \in 1..m - 1 : read[k][at[k - 1]] = Done(at[k], xs[k])
      /\ read[m][at[m - 1]].at = error
  BY DEF Stops
<1>b. PICK X : xs \in Seq(X)
  BY DEF Stops, IsSequence
<1> USE <1>a, <1>b
<1>c. PICK last : last = Done(error, Append(SubSeq(xs, 1, m - 1), read[m][at[m - 1]].val))
  OBVIOUS
<1> DEFINE Eqn(f) == f = [k \in 0..n |-> IF k = 0 THEN Done(at[0], <<>>)
                                         ELSE More(f[k - 1], read, k)]
           after == CHOOSE f : Eqn(f)
           g == [k \in 0..n |-> IF k < m THEN Done(at[k], SubSeq(xs, 1, k)) ELSE last]
<1>1. ReadMany(n, at[0], read) = after[n]
  BY DEF ReadMany
<1>0. g[0] = Done(at[0], <<>>)
  <2>1. 0 < m /\ 0 \in 0..n
    OBVIOUS
  <2>2. SubSeq(xs, 1, 0) = <<>>
    OBVIOUS
  <2>3. g[0] = Done(at[0], SubSeq(xs, 1, 0))
    BY <2>1
  <2> QED
    BY <2>2, <2>3, Zenon
<1>2. ASSUME NEW k \in 1..n PROVE More(g[k - 1], read, k) = g[k]
  <2>1. k - 1 \in 0..n /\ k \in 0..n /\ at[k - 1] \in Nat
    OBVIOUS
  <2>2. /\ k <= m => g[k - 1] = Done(at[k - 1], SubSeq(xs, 1, k - 1))
        /\ k < m => g[k] = Done(at[k], SubSeq(xs, 1, k))
        /\ k >= m => g[k] = last
        /\ k > m => g[k - 1] = last
    <3>1. \A j \in 0..n : g[j] = IF j < m THEN Done(at[j], SubSeq(xs, 1, j)) ELSE last
      OBVIOUS
    <3>2. /\ k <= m => k - 1 < m
          /\ k >= m => ~(k < m)
          /\ k > m => ~(k - 1 < m)
      OBVIOUS
    <3> HIDE DEF g
    <3> QED
      BY <2>1, <3>1, <3>2
  <2> HIDE DEF g
  <2>3. \A s : More(Done(at[k - 1], s), read, k) = Joined(s, read[k][at[k - 1]])
    BY <2>1, DoneIs
  <2>4. CASE k < m
    <3>1. read[k][at[k - 1]] = Done(at[k], xs[k])
      BY <2>4
    <3>2. Append(SubSeq(xs, 1, k - 1), xs[k]) = SubSeq(xs, 1, k)
      OBVIOUS
    <3>3. \A s : Joined(s, read[k][at[k - 1]]) = Done(at[k], Append(s, xs[k]))
      BY <3>1, DoneIs
    <3>4. g[k - 1] = Done(at[k - 1], SubSeq(xs, 1, k - 1)) /\ g[k] = Done(at[k], SubSeq(xs, 1, k))
      BY <2>2, <2>4
    <3> QED
      BY <2>3, <3>2, <3>3, <3>4, Zenon
  <2>5. CASE k = m
    <3>1. \A s : Joined(s, read[m][at[m - 1]]) = Done(error, Append(s, read[m][at[m - 1]].val))
      BY DEF Joined
    <3>2. g[k - 1] = Done(at[m - 1], SubSeq(xs, 1, m - 1)) /\ g[k] = last
      BY <2>2, <2>5
    <3>3. More(g[k - 1], read, k) = Joined(SubSeq(xs, 1, m - 1), read[m][at[m - 1]])
      BY <2>3, <2>5, <3>2
    <3> QED
      BY <1>c, <3>1, <3>2, <3>3, Zenon
  <2>6. CASE k > m
    <3>1. last.at < 0
      BY <1>c, DoneIs
    <3>2. More(last, read, k) = last
      BY <3>1 DEF More
    <3> QED
      BY <2>2, <2>6, <3>2
  <2> QED
    BY <2>4, <2>5, <2>6
<1>3. Eqn(g)
  <2>1. ASSUME NEW k \in 0..n
        PROVE  g[k] = IF k = 0 THEN Done(at[0], <<>>) ELSE More(g[k - 1], read, k)
    <3>1. k # 0 => k \in 1..n
      OBVIOUS
    <3> HIDE DEF g
    <3> QED
      BY <1>0, <1>2, <3>1
  <2> QED
    BY <2>1, Zenon
<1>4. Eqn(after)
  <2> HIDE DEF Eqn
  <2> QED
    BY <1>3
<1>5. g[n] = last
  OBVIOUS
<1> HIDE DEF after, g
<1>6. after[0] = g[0]
  BY <1>0, <1>4
<1>7. ASSUME NEW k \in 1..n, after[k - 1] = g[k - 1] PROVE after[k] = g[k]
  BY <1>2, <1>4, <1>7
<1>8. GoAlike(after, g, n)
  BY <1>6, <1>7 DEF GoAlike
<1>9. Alike(after, g, n)
  BY <1>8, SameSteps
<1>10. after[n] = last
  BY <1>5, <1>9 DEF Alike
<1> QED
  BY <1>1, <1>10, <1>c, DoneIs

\* Of the sequences of ws, read makes the elements of xs up to the m-th, where it fails.
Breaks(read, data, ws, xs, m, error) ==
  /\ IsSequence(xs) /\ Len(xs) = Len(ws) /\ m \in 1..Len(ws) /\ error \in Int /\ error < 0
  /\ \A k \in 1..m - 1 : \A q \in Int :
       Lies(data, q, ws[k]) => read[k][q] = Done(q + Len(ws[k]), xs[k])
  /\ \A q \in Int : Lies(data, q, ws[m]) => read[m][q].at = error

LEMMA ReadManyBreaks ==
  \A data, p, read, xs, m, error : \A ws \in Seq(Seq(Int)) :
    Lies(data, p, Flat(ws)) /\ Breaks(read, data, ws, xs, m, error)
      => ReadMany(Len(ws), p, read).at = error
<1> SUFFICES ASSUME NEW data, NEW p, NEW read, NEW xs, NEW m, NEW error, NEW ws \in Seq(Seq(Int)),
                    Lies(data, p, Flat(ws)), Breaks(read, data, ws, xs, m, error)
             PROVE  ReadMany(Len(ws), p, read).at = error
  OBVIOUS
<1>1. PICK at : IsChain(at, data, p, ws)
  BY LiesList
<1>2. PICK n \in Nat : n = Len(ws)
  OBVIOUS
<1>3. at \in [0..n -> Nat] /\ at[0] = p /\ Len(xs) = n /\ m \in 1..n
  BY <1>1, <1>2 DEF IsChain, Breaks
<1>4. ASSUME NEW k \in 1..n PROVE at[k - 1] \in Int /\ Lies(data, at[k - 1], ws[k])
  <2>1. at[k - 1] \in Int
    BY <1>3
  <2> QED
    BY <1>1, <1>2, <2>1 DEF IsChain
<1>5. ASSUME NEW k \in 1..m - 1 PROVE read[k][at[k - 1]] = Done(at[k], xs[k])
  <2>1. k \in 1..n
    BY <1>3
  <2>2. at[k] = at[k - 1] + Len(ws[k])
    BY <1>1, <1>2, <2>1 DEF IsChain
  <2>3. read[k][at[k - 1]] = Done(at[k - 1] + Len(ws[k]), xs[k])
    BY <1>4, <2>1 DEF Breaks
  <2> QED
    BY <2>2, <2>3
<1>6. read[m][at[m - 1]].at = error
  BY <1>3, <1>4 DEF Breaks
<1>7. Stops(n, m, at, read, xs, error)
  BY <1>2, <1>3, <1>5, <1>6 DEF Stops, Breaks
<1> QED
  BY <1>2, <1>3, <1>7, ReadManyStops

\* A reference to an object that is not known.
LEMMA ValueStops ==
  \A known, all, data, p, v :
    /\ all \subseteq Int /\ v \in FileValue(all) /\ v \notin FileValue(known)
    /\ Lies(data, p, WriteValueRef(v))
    => ReadValueRef(data, p, known).at = BadPosition
<1> SUFFICES ASSUME NEW known, NEW all, NEW data, NEW p, NEW v,
                    all \subseteq Int, v \in FileValue(all), v \notin FileValue(known),
                    Lies(data, p, WriteValueRef(v))
             PROVE  ReadValueRef(data, p, known).at = BadPosition
  OBVIOUS
<1>1. /\ v.t \in {"String", "List"} /\ v.v \in all /\ v.v \notin known
      /\ v = [t |-> v.t, v |-> v.v]
  BY DEF FileValue
<1>2. PICK tag, x : tag = TagOf[v.t] /\ x = v.v
  OBVIOUS
<1>3. tag \in {4, 5} /\ tag \in Int /\ x \in Int /\ IsTag(tag) /\ x \notin known
  BY <1>1, <1>2, TagFacts
<1>4. WriteValueRef(v) = <<tag>> \o <<x>>
  BY <1>1, <1>2 DEF WriteValueRef
<1>5. <<x>> \in Seq(Int)
  BY <1>3
<1>6. First(data, p, tag, <<x>>)
  BY <1>3, <1>4, <1>5, LiesFirst
<1>7. p \in Nat /\ p > 0 /\ data[p] = tag /\ Field(data, p) = p + 1 /\ Lies(data, p + 1, <<x>>)
  BY <1>6 DEF First
<1>8. data[p + 1] = x /\ Field(data, p + 1) = p + 2
  BY <1>7, LiesField
<1>9. ReadValueRef(data, p, known) = Failed(BadPosition)
  BY <1>3, <1>7, <1>8, TagFacts DEF ReadValueRef
<1> QED
  BY <1>9 DEF Failed

\* A list with such a reference.
LEMMA ValuesStop ==
  \A known, all, data, p, s :
    /\ known \subseteq Int /\ all \subseteq Int /\ s \in Seq(FileValue(all)) /\ s \notin Seq(FileValue(known))
    /\ Lies(data, p, Counted(WriteValueRef, s))
    => ReadValues(data, p, known).at = BadPosition
<1> SUFFICES ASSUME NEW known, NEW all, NEW data, NEW p, NEW s,
                    known \subseteq Int, all \subseteq Int,
                    s \in Seq(FileValue(all)), s \notin Seq(FileValue(known)),
                    Lies(data, p, Counted(WriteValueRef, s))
             PROVE  ReadValues(data, p, known).at = BadPosition
  OBVIOUS
<1>1. PICK n \in Nat : n = Len(s) /\ DOMAIN s = 1..n
  OBVIOUS
<1>2. PICK Bad : Bad = {k \in 1..n : s[k] \notin FileValue(known)}
  OBVIOUS
<1>3. Bad \subseteq Nat /\ Bad # {}
  <2>1. ASSUME \A k \in 1..n : s[k] \in FileValue(known) PROVE FALSE
    <3>1. s = [k \in 1..n |-> s[k]]
      BY <1>1
    <3>2. s \in Seq(FileValue(known))
      BY <2>1, <3>1
    <3> QED
      BY <3>2
  <2> QED
    BY <1>2, <2>1
<1>4. PICK m \in Bad : \A k \in Bad : ~(k < m)
  BY <1>3, Earliest
<1>5. m \in 1..n /\ s[m] \notin FileValue(known) /\ \A k \in 1..m - 1 : k \in 1..n /\ s[k] \in FileValue(known)
  <2>1. m \in 1..n /\ m \in Nat
    BY <1>2
  <2>2. ASSUME NEW k \in 1..m - 1 PROVE k \in 1..n /\ k < m
    BY <2>1
  <2> QED
    BY <1>2, <1>4, <2>1, <2>2
<1>6. PICK ws : ws = [k \in DOMAIN s |-> WriteValueRef(s[k])]
  OBVIOUS
<1>7. ASSUME NEW k \in DOMAIN s PROVE ws[k] = WriteValueRef(s[k]) /\ ws[k] \in Seq(Int) /\ s[k] \in FileValue(all)
  <2>1. s[k] \in FileValue(all)
    OBVIOUS
  <2> QED
    BY <1>6, <2>1, ValueReadsBack DEF ValueBack
<1>8. IsSequence(s) /\ ws = [k \in DOMAIN s |-> ws[k]]
  BY <1>6 DEF IsSequence
<1>9. ws \in Seq(Seq(Int)) /\ Len(ws) = n
  BY <1>1, <1>7, <1>8, SameLength
<1>10. Counted(WriteValueRef, s) = Numbered(ws)
  BY <1>1, <1>6, <1>9 DEF Counted, Each, Numbered, Flat
<1>11. /\ Field(data, p) = p + 1 /\ data[p] = n /\ p \in Nat /\ p > 0
       /\ Lies(data, p + 1, Flat(ws))
  BY <1>9, <1>10, NumberedLies
<1>12. PICK read : read = [k \in Nat |-> [q \in Int |-> ReadValueRef(data, q, known)]]
  OBVIOUS
<1>13. ASSUME NEW k \in 1..m - 1, NEW q \in Int, Lies(data, q, ws[k])
       PROVE  read[k][q] = Done(q + Len(ws[k]), s[k])
  <2>1. k \in 1..n /\ s[k] \in FileValue(known) /\ k \in Nat
    BY <1>5
  <2>2. ws[k] = WriteValueRef(s[k])
    BY <1>1, <1>7, <2>1
  <2>3. ValueBack(known, s[k])
    BY <2>1, ValueReadsBack
  <2>4. read[k][q] = ReadValueRef(data, q, known)
    BY <1>12, <2>1
  <2> QED
    BY <1>13, <2>2, <2>3, <2>4 DEF ValueBack
<1>14. ASSUME NEW q \in Int, Lies(data, q, ws[m]) PROVE read[m][q].at = BadPosition
  <2>1. m \in DOMAIN s /\ m \in Nat
    BY <1>1, <1>5
  <2>2. ReadValueRef(data, q, known).at = BadPosition
    BY <1>5, <1>7, <1>14, <2>1, ValueStops
  <2> QED
    BY <1>12, <2>1, <2>2
<1>15. BadPosition \in Int /\ BadPosition < 0
  BY DEF BadPosition
<1>16. Breaks(read, data, ws, s, m, BadPosition)
  BY <1>1, <1>5, <1>8, <1>9, <1>13, <1>14, <1>15 DEF Breaks
<1>17. ReadMany(n, p + 1, read).at = BadPosition
  BY <1>9, <1>11, <1>16, ReadManyBreaks
<1>18. ReadValues(data, p, known) = ReadMany(n, p + 1, read)
  BY <1>11, <1>12 DEF ReadValues, ReadCounted
<1> QED
  BY <1>17, <1>18

LEMMA ObjectStops ==
  \A known, all, data, p, obj :
    /\ known \subseteq Int /\ all \subseteq Int /\ obj \in FileObject(all) /\ obj \notin FileObject(known)
    /\ Lies(data, p, SerializeHeapObject(obj))
    => ReadHeapObject(data, p, known).at = BadPosition
<1> SUFFICES ASSUME NEW known, NEW all, NEW data, NEW p, NEW obj,
                    known \subseteq Int, all \subseteq Int,
                    obj \in FileObject(all), obj \notin FileObject(known),
                    Lies(data, p, SerializeHeapObject(obj))
             PROVE  ReadHeapObject(data, p, known).at = BadPosition
  OBVIOUS
<1>1. PICK s, body : s = obj.data /\ body = Counted(WriteValueRef, s)
  OBVIOUS
<1>2. obj.kind = "List" /\ s \in Seq(FileValue(all)) /\ s \notin Seq(FileValue(known))
  BY <1>1 DEF FileObject
<1>3. SerializeHeapObject(obj) = << 5 >> \o body
  BY <1>1, <1>2, TagFacts DEF SerializeHeapObject
<1>4. body \in Seq(Int)
  BY <1>1, <1>2, ValuesReadBack DEF ValuesBack
<1>5. First(data, p, 5, body)
  BY <1>3, <1>4, LiesFirst
<1>6. Field(data, p) = p + 1 /\ data[p] = 5 /\ p \in Nat /\ p > 0 /\ Lies(data, p + 1, body)
  BY <1>5 DEF First
<1>7. ReadValues(data, p + 1, known).at = BadPosition
  BY <1>1, <1>2, <1>6, ValuesStop
<1>8. ReadHeapObject(data, p, known) = Tagged(5, ReadValues(data, p + 1, known))
  BY <1>6, TagFacts DEF ReadHeapObject
<1>9. BadPosition < 0
  BY DEF BadPosition
<1> QED
  BY <1>7, <1>8, <1>9 DEF Tagged

\* The positions known at an object are those before it.
LEMMA ObjectsStop ==
  \A known, objects, data :
    /\ known \subseteq Int /\ AnyHeap(known, objects) /\ ~FileHeap(objects)
    /\ Lies(data, 1, Each(SerializeHeapObject, objects))
    => RestoredObjects(data, Len(objects)).at = BadPosition
<1> SUFFICES ASSUME NEW known, NEW objects, NEW data, known \subseteq Int,
                    AnyHeap(known, objects), ~FileHeap(objects),
                    Lies(data, 1, Each(SerializeHeapObject, objects))
             PROVE  RestoredObjects(data, Len(objects)).at = BadPosition
  OBVIOUS
<1>1. PICK ws, n : ws = ObjectFields(objects) /\ n = Len(objects)
  OBVIOUS
<1>2. /\ Each(SerializeHeapObject, objects) = Flat(ws) /\ ws \in Seq(Seq(Int)) /\ Len(ws) = n
      /\ DOMAIN objects = 1..n /\ n \in Nat
  BY <1>1, ObjectsPassed DEF HeapWritten
<1>3. PICK Bad : Bad = {k \in 1..n : objects[k] \notin FileObject(1..k - 1)}
  OBVIOUS
<1>4. Bad \subseteq Nat /\ Bad # {}
  BY <1>2, <1>3 DEF FileHeap, AnyHeap
<1>5. PICK m \in Bad : \A k \in Bad : ~(k < m)
  BY <1>4, Earliest
<1>6. /\ m \in 1..n /\ objects[m] \notin FileObject(1..m - 1)
      /\ \A k \in 1..m - 1 : k \in 1..n /\ objects[k] \in FileObject(1..k - 1)
  <2>1. m \in 1..n /\ m \in Nat
    BY <1>3
  <2>2. ASSUME NEW k \in 1..m - 1 PROVE k \in 1..n /\ k < m
    BY <1>2, <2>1
  <2> QED
    BY <1>3, <1>5, <2>1, <2>2
<1>7. PICK read : read = [k \in Nat |-> [p \in Int |-> ReadHeapObject(data, p, 1..k - 1)]]
  OBVIOUS
<1>8. ASSUME NEW k \in 1..n, NEW q \in Int
      PROVE  /\ ws[k] = SerializeHeapObject(objects[k]) /\ 1..k - 1 \subseteq Int
             /\ read[k][q] = ReadHeapObject(data, q, 1..k - 1) /\ objects[k] \in FileObject(known)
  <2>1. k \in DOMAIN objects /\ k \in Nat
    BY <1>2
  <2>2. ws[k] = SerializeHeapObject(objects[k])
    BY <1>1, <2>1 DEF ObjectFields
  <2>3. 1..k - 1 \subseteq Int
    BY <2>1
  <2>4. objects[k] \in FileObject(known)
    BY <2>1 DEF AnyHeap
  <2>5. read[k][q] = ReadHeapObject(data, q, 1..k - 1)
    BY <1>7, <2>1
  <2> QED
    BY <2>2, <2>3, <2>4, <2>5
<1>9. ASSUME NEW k \in 1..m - 1, NEW q \in Int, Lies(data, q, ws[k])
      PROVE  read[k][q] = Done(q + Len(ws[k]), objects[k])
  <2>1. k \in 1..n /\ objects[k] \in FileObject(1..k - 1)
    BY <1>6
  <2>2. /\ ws[k] = SerializeHeapObject(objects[k]) /\ 1..k - 1 \subseteq Int
        /\ read[k][q] = ReadHeapObject(data, q, 1..k - 1)
    BY <1>8, <2>1
  <2>3. ObjectBack(1..k - 1, objects[k])
    BY <2>1, <2>2, ObjectReadsBack
  <2> QED
    BY <1>9, <2>2, <2>3 DEF ObjectBack
<1>10. ASSUME NEW q \in Int, Lies(data, q, ws[m]) PROVE read[m][q].at = BadPosition
  <2>1. /\ ws[m] = SerializeHeapObject(objects[m]) /\ 1..m - 1 \subseteq Int
        /\ read[m][q] = ReadHeapObject(data, q, 1..m - 1) /\ objects[m] \in FileObject(known)
    BY <1>6, <1>8
  <2>2. PICK obj, before : obj = objects[m] /\ before = 1..m - 1
    OBVIOUS
  <2>3. /\ before \subseteq Int /\ obj \in FileObject(known) /\ obj \notin FileObject(before)
        /\ Lies(data, q, SerializeHeapObject(obj))
    BY <1>6, <1>10, <2>1, <2>2
  <2>4. ReadHeapObject(data, q, before).at = BadPosition
    BY <2>3, ObjectStops
  <2> QED
    BY <2>1, <2>2, <2>4
<1>11. BadPosition \in Int /\ BadPosition < 0
  BY DEF BadPosition
<1>12. Breaks(read, data, ws, objects, m, BadPosition)
  BY <1>1, <1>2, <1>6, <1>9, <1>10, <1>11 DEF Breaks, AnyHeap
<1>13. ReadMany(n, 1, read).at = BadPosition
  BY <1>2, <1>12, ReadManyBreaks
<1> QED
  BY <1>1, <1>7, <1>13 DEF RestoredObjects

\* A file with such an object is refused with InvalidHeapPosition: the heap is read first.
LEMMA SnapshotStops ==
  \A s : IsFileSnapshot(s) /\ ~FileHeap(s.objects)
           => ReadSnapshot(WriteToFile(s)).error = BadPosition
<1> SUFFICES ASSUME NEW s, IsFileSnapshot(s), ~FileHeap(s.objects)
             PROVE  ReadSnapshot(WriteToFile(s)).error = BadPosition
  OBVIOUS
<1>1. PICK f : f = Found(s)
  OBVIOUS
<1>2. f.error = 0 /\ f.heapData = HeapPart(s) /\ f.heapCount = Len(s.objects)
  BY <1>1 DEF Found
<1>3. PartsAre(s)
  BY PartsOfFile
<1>4. PICK heap, frames, stack, tasks, handles :
        /\ heap = RestoredObjects(f.heapData, f.heapCount)
        /\ frames = ReadFrames(f.framesData, 1, 1..f.heapCount)
        /\ stack = ReadValues(f.stackData, 1, 1..f.heapCount) /\ tasks = ReadTasks(f)
        /\ handles = IF f.ioCount = 0 THEN Done(1, <<>>) ELSE ReadHandles(f.ioSection, 1)
  OBVIOUS
<1>5. heap.at = BadPosition
  <2>1. Lies(HeapPart(s), 1, HeapPart(s))
    BY <1>3, LiesItself DEF PartsAre
  <2>2. AnyHeap(Positions(s), s.objects) /\ Positions(s) \subseteq Int
    BY DEF IsFileSnapshot, Positions
  <2> QED
    BY <1>2, <1>4, <2>1, <2>2, ObjectsStop DEF HeapPart
<1>6. PICK ends, failed : /\ ends = <<heap.at, frames.at, stack.at, tasks.at>>
                          /\ failed = {k \in DOMAIN ends : ends[k] < 0}
  OBVIOUS
<1>7. DOMAIN ends = 1..4 /\ ends[1] = BadPosition /\ BadPosition < 0
  BY <1>5, <1>6 DEF BadPosition
<1>8. 1 \in failed /\ \A k \in failed : k \in 1..4 /\ 1 <= k
  BY <1>6, <1>7
<1>9. Seqs!Min(failed) = 1
  BY <1>8 DEF Seqs!Min
<1>10. Parsed(f, heap, frames, stack, tasks, handles) = [error |-> BadPosition]
  BY <1>6, <1>7, <1>8, <1>9 DEF Parsed
<1>11. ReadSnapshot(WriteToFile(s)) = Parsed(f, heap, frames, stack, tasks, handles)
  BY <1>1, <1>2, <1>4, FileFound DEF ReadSnapshot, ReadSections
<1> QED
  BY <1>10, <1>11
=============================================================================
