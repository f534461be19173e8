-------------------------- MODULE TreeDiff_proofs --------------------------
(***************************************************************************)
(* Theorems about TreeDiff, for any trees.                                 *)
(***************************************************************************)
EXTENDS TreeDiff, PathLemmas, FiniteSetTheorems

-----------------------------------------------------------------------------
(***************************************************************************)
(* The cascade of comparisons in MoveNext, for any keys.                   *)
(***************************************************************************)

\* The sides whose entry is the least of all.
Least(h, key) == {s \in h : \A u \in h : key[s] <= key[u]}

\* Of left and right at most one is greater than the other.
LEMMA ForemostExists ==
  ASSUME NEW h \in SUBSET Side, NEW key \in [h -> Int], h \ {"base"} # {}
  PROVE  Foremost(h, key) # {}
<1>1. h \ {"base"} \subseteq {"left", "right"}
  BY DEF Side
<1>2. CASE "left" \notin h
  BY <1>1, <1>2 DEF Foremost
<1>3. CASE "right" \notin h
  BY <1>1, <1>3 DEF Foremost
<1>4. CASE "left" \in h /\ "right" \in h
  <2>1. key["left"] <= key["right"] \/ key["right"] <= key["left"]
    BY <1>4
  <2>2. QED BY <1>1, <1>4, <2>1 DEF Foremost
<1>5. QED BY <1>2, <1>3, <1>4

\* Comparing left with right and what is foremost with the base gives exactly the
\* sides with the least entry: a row has whatever belongs together, and nothing else.
THEOREM TakenAreLeast ==
  ASSUME NEW h \in SUBSET Side, NEW key \in [h -> Int]
  PROVE  WithBase(h, key) = Least(h, key)
<1> DEFINE f == Foremost(h, key)
<1>1. f \subseteq h \ {"base"}
  BY DEF Foremost
<1>2. \A s \in f : \A u \in h \ {"base"} : key[s] <= key[u]
  BY DEF Foremost
<1>3. CASE "base" \notin h
  BY <1>3 DEF WithBase, Foremost, Least
<1>4. CASE "base" \in h /\ f = {}
  <2>1. h = {"base"}
    BY <1>4, ForemostExists
  <2>2. QED BY <1>4, <2>1 DEF WithBase, Least
<1>5. CASE "base" \in h /\ f # {}
  <2>1. PICK first \in f : TRUE
    BY <1>5
  <2>2. WithBase(h, key) = {s \in f : key[s] <= key["base"]}
                           \cup {s \in {"base"} : \A u \in f : key[s] <= key[u]}
    BY <1>5 DEF WithBase
  <2>3. ASSUME NEW s \in WithBase(h, key) PROVE s \in Least(h, key)
    BY <2>1, <2>2, <2>3, <1>1, <1>2, <1>5 DEF Least
  <2>4. ASSUME NEW s \in Least(h, key) PROVE s \in WithBase(h, key)
    <3>1. CASE s = "base"
      BY <2>2, <2>4, <3>1, <1>1 DEF Least
    <3>2. CASE s # "base"
      BY <2>2, <2>4, <3>2, <1>5 DEF Least, Foremost
    <3>3. QED BY <3>1, <3>2
  <2>5. QED BY <2>3, <2>4
<1>6. QED BY <1>3, <1>4, <1>5

\* MoveNext that has an entry of any side reports one: the enumeration goes on.
THEOREM SomethingIsTaken ==
  ASSUME NEW h \in SUBSET Side, NEW key \in [h -> Int], h # {}
  PROVE  WithBase(h, key) # {}
<1>1. CASE "base" \notin h
  BY <1>1, ForemostExists DEF WithBase
<1>2. CASE "base" \in h /\ Foremost(h, key) = {}
  BY <1>2 DEF WithBase
<1>3. CASE "base" \in h /\ Foremost(h, key) # {}
  <2>1. PICK s \in Foremost(h, key) : TRUE
    BY <1>3
  <2>2. s \in h /\ \A u \in Foremost(h, key) : u \in h /\ key[s] <= key[u]
    BY <2>1 DEF Foremost
  <2>3. key[s] <= key["base"] \/ \A u \in Foremost(h, key) : key["base"] <= key[u]
    BY <2>2, <1>3
  <2>4. QED BY <1>3, <2>1, <2>3 DEF WithBase
<1>4. QED BY <1>1, <1>2, <1>3

-----------------------------------------------------------------------------
(***************************************************************************)
(* Directories, positions in them, and the entries there.                  *)
(***************************************************************************)

Root == {input[s] : input \in Input, s \in Side}

LEMMA DirectoryMeans ==
  ASSUME NEW dir \in Directory
  PROVE  /\ Len(dir) \in Nat /\ DOMAIN dir = 1..Len(dir)
         /\ \A j \in 1..Len(dir) :
              /\ dir[j].key \in Int /\ dir[j].sub \in Directory
              /\ dir[j].kind # "tree" => dir[j].sub = <<>>
<1> DEFINE E == [key : Int, kind : {"blob", "tree", "lost"}, sub : Directory]
<1>1. dir \in Seq(E) /\ \A j \in DOMAIN dir : dir[j].kind # "tree" => dir[j].sub = <<>>
  BY DirectoryAssumption, Zenon
<1>2. \A e \in E : e.key \in Int /\ e.sub \in Directory
  OBVIOUS
<1> HIDE DEF E
<1>3. Len(dir) \in Nat /\ DOMAIN dir = 1..Len(dir) /\ \A j \in 1..Len(dir) : dir[j] \in E
  BY <1>1, LenProperties, ElementOfSeq
<1>4. QED BY <1>1, <1>2, <1>3

LEMMA RootMeans ==
  ASSUME NEW t \in Root
  PROVE  /\ t \in Directory
         /\ \A j \in DOMAIN t : <<j>> \in Place
         /\ \A p \in Place : Leads(t, p) =>
              \A j \in DOMAIN At(t, p).sub : Append(p, j) \in Place
<1>1. PICK input \in Input, s \in Side : t = input[s]
  BY DEF Root
<1>2. t \in Directory
  BY <1>1, InputAssumption
<1>3. QED BY <1>1, <1>2, PlaceAssumption, Zenon

LEMMA PlaceMeans ==
  ASSUME NEW p \in Place
  PROVE  /\ p \in Seq(Nat) /\ p # <<>> /\ Len(p) \in Nat /\ Len(p) >= 1
         /\ DOMAIN p = 1..Len(p)
         /\ \A j \in 1..Len(p) : p[j] \in Nat /\ p[j] > 0
<1>1. p \in Seq(Nat \ {0}) /\ p # <<>>
  BY PlaceAssumption
<1>2. Len(p) \in Nat /\ DOMAIN p = 1..Len(p) /\ \A j \in 1..Len(p) : p[j] \in Nat \ {0}
  BY <1>1, LenProperties, ElementOfSeq
<1>3. Len(p) # 0
  BY <1>1, EmptySeq
<1>4. p \in Seq(Nat)
  BY <1>1
<1>5. QED BY <1>1, <1>2, <1>3, <1>4

\* The entries on the way to a position: what At is defined by.
Way(t, p, f) == f = [j \in DOMAIN p |-> IF j = 1 THEN t[p[1]] ELSE f[j - 1].sub[p[j]]]

\* The ways to a position and to the beginning of it agree.
LEMMA WaysAgree ==
  ASSUME NEW t, NEW p \in Seq(Nat), NEW n \in 0..Len(p), NEW f, NEW g,
         Way(t, p, f), Way(t, SubSeq(p, 1, n), g)
  PROVE  \A j \in 1..n : f[j] = g[j]
<1> DEFINE q == SubSeq(p, 1, n)
           S == {j \in 1..n : f[j] # g[j]}
<1>1. Len(p) \in Nat /\ DOMAIN p = 1..Len(p)
  BY LenProperties
<1>2. DOMAIN q = 1..n /\ \A j \in 1..n : q[j] = p[j]
  BY Beginning, LenProperties
<1>3. \A j \in 1..Len(p) : f[j] = IF j = 1 THEN t[p[1]] ELSE f[j - 1].sub[p[j]]
  BY <1>1, Zenon DEF Way
<1> HIDE DEF q
<1>4. \A j \in 1..n : g[j] = IF j = 1 THEN t[q[1]] ELSE g[j - 1].sub[q[j]]
  BY <1>2, Zenon DEF Way, q
<1>5. SUFFICES ASSUME S # {} PROVE FALSE
  OBVIOUS
<1>6. S \in SUBSET Nat
  BY <1>1
<1>7. PICK m \in S : \A k \in S : m <= k
  BY <1>5, <1>6, LeastNatural
<1>8. m \in 1..n /\ f[m] # g[m] /\ m \in 1..Len(p)
  BY <1>1, <1>7
<1>9. CASE m = 1
  BY <1>2, <1>3, <1>4, <1>8, <1>9
<1>10. CASE m # 1
  <2>1. m - 1 \in 1..n /\ m - 1 \notin S
    BY <1>7, <1>8, <1>10
  <2>2. f[m - 1] = g[m - 1]
    BY <2>1
  <2>3. f[m] = f[m - 1].sub[p[m]] /\ g[m] = g[m - 1].sub[q[m]]
    BY <1>3, <1>4, <1>8, <1>10
  <2>4. QED BY <1>2, <1>8, <2>2, <2>3
<1>11. QED BY <1>9, <1>10

LEMMA WayExists ==
  ASSUME NEW t, NEW p \in Seq(Nat)
  PROVE  \E f : Way(t, p, f)
<1> DEFINE Bad(n) == \E q \in Seq(Nat) : Len(q) = n /\ ~\E f : Way(t, q, f)
           S == {n \in Nat : Bad(n)}
<1>1. SUFFICES ASSUME S # {} PROVE FALSE
  <2>1. Len(p) \in Nat
    BY LenProperties
  <2>2. QED BY <2>1
<1>2. PICK n \in S : \A k \in S : n <= k
  BY <1>1, LeastNatural
<1>3. PICK q \in Seq(Nat) : Len(q) = n /\ ~\E f : Way(t, q, f)
  BY <1>2
<1>4. n \in Nat /\ DOMAIN q = 1..n
  BY <1>2, <1>3, LenProperties
<1>5. CASE n = 0
  <2> DEFINE f == [j \in DOMAIN q |-> t]
  <2>1. DOMAIN q = {}
    BY <1>4, <1>5
  <2>2. Way(t, q, f)
    BY <2>1 DEF Way
  <2>3. QED BY <1>3, <2>2
<1>6. CASE n # 0
  <2> DEFINE r == SubSeq(q, 1, n - 1)
  <2>1. r \in Seq(Nat) /\ Len(r) = n - 1 /\ DOMAIN r = 1..(n - 1)
        /\ \A j \in 1..(n - 1) : r[j] = q[j]
    <3>1. n - 1 \in 0..Len(q)
      BY <1>3, <1>4, <1>6
    <3>2. QED BY <3>1, Beginning, LenProperties
  <2> HIDE DEF r
  <2>2. PICK f : Way(t, r, f)
    <3>1. n - 1 \in Nat /\ ~(n <= n - 1)
      BY <1>4, <1>6
    <3>2. n - 1 \notin S
      BY <1>2, <3>1
    <3>3. QED BY <2>1, <3>1, <3>2
  <2>3. \A j \in 1..(n - 1) : f[j] = IF j = 1 THEN t[r[1]] ELSE f[j - 1].sub[r[j]]
    BY <2>1, <2>2, Zenon DEF Way
  <2> DEFINE last == IF n = 1 THEN t[q[1]] ELSE f[n - 1].sub[q[n]]
             g == [j \in 1..n |-> IF j = n THEN last ELSE f[j]]
  <2>4. \A j \in 1..n : g[j] = IF j = 1 THEN t[q[1]] ELSE g[j - 1].sub[q[j]]
    <3> SUFFICES ASSUME NEW j \in 1..n
                 PROVE  g[j] = IF j = 1 THEN t[q[1]] ELSE g[j - 1].sub[q[j]]
      OBVIOUS
    <3>1. CASE j = n
      BY <1>4, <3>1
    <3>2. CASE j # n
      <4>1. j \in 1..(n - 1) /\ 1 \in 1..(n - 1)
        BY <1>4, <3>2
      <4>2. r[j] = q[j] /\ r[1] = q[1]
        BY <2>1, <4>1
      <4>3. g[j] = f[j]
        BY <3>2
      <4>4. ASSUME j # 1 PROVE g[j - 1] = f[j - 1]
        <5>1. j - 1 \in 1..n /\ j - 1 # n
          BY <1>4, <4>1, <4>4
        <5>2. QED BY <5>1
      <4> HIDE DEF g
      <4>5. f[j] = IF j = 1 THEN t[r[1]] ELSE f[j - 1].sub[r[j]]
        BY <2>3, <4>1
      <4>6. QED BY <4>2, <4>3, <4>4, <4>5
    <3>3. QED BY <3>1, <3>2
  <2>5. g = [j \in 1..n |-> IF j = 1 THEN t[q[1]] ELSE g[j - 1].sub[q[j]]]
    <3>1. g = [j \in 1..n |-> g[j]]
      OBVIOUS
    <3> HIDE DEF g
    <3>2. QED BY <2>4, <3>1
  <2> HIDE DEF g
  <2>6. Way(t, q, g)
    BY <1>4, <2>5 DEF Way
  <2>7. QED BY <1>3, <2>6
<1>7. QED BY <1>5, <1>6

\* The entry at a position of one step, and of one step more.
LEMMA AtMeans ==
  ASSUME NEW t, NEW p \in Seq(Nat), p # <<>>
  PROVE  /\ Len(p) = 1 => At(t, p) = t[p[1]]
         /\ Len(p) # 1 => At(t, p) = At(t, SubSeq(p, 1, Len(p) - 1)).sub[p[Len(p)]]
<1>1. Len(p) \in Nat /\ Len(p) >= 1 /\ DOMAIN p = 1..Len(p)
  BY LenProperties, EmptySeq
<1> DEFINE f == CHOOSE f : Way(t, p, f)
           q == SubSeq(p, 1, Len(p) - 1)
           g == CHOOSE g : Way(t, q, g)
<1>2. q \in Seq(Nat) /\ Len(q) = Len(p) - 1
  BY <1>1, Beginning
<1>3. Way(t, p, f) /\ Way(t, q, g)
  BY <1>2, WayExists
<1>4. At(t, p) = f[Len(p)] /\ At(t, q) = g[Len(q)]
  BY DEF At, Way
<1> HIDE DEF f, g
<1>5. \A j \in 1..Len(p) : f[j] = IF j = 1 THEN t[p[1]] ELSE f[j - 1].sub[p[j]]
  BY <1>1, <1>3, Zenon DEF Way
<1>6. \A j \in 1..(Len(p) - 1) : f[j] = g[j]
  <2>1. Len(p) - 1 \in 0..Len(p)
    BY <1>1
  <2>2. QED BY <1>3, <2>1, WaysAgree
<1> HIDE DEF q
<1>7. Len(p) = 1 => At(t, p) = t[p[1]]
  BY <1>1, <1>4, <1>5
<1>8. ASSUME Len(p) # 1 PROVE At(t, p) = At(t, q).sub[p[Len(p)]]
  <2>1. Len(p) - 1 \in 1..(Len(p) - 1) /\ Len(p) \in 1..Len(p)
    BY <1>1, <1>8
  <2>2. f[Len(p)] = f[Len(p) - 1].sub[p[Len(p)]]
    BY <1>5, <1>8, <2>1
  <2>3. f[Len(p) - 1] = g[Len(p) - 1]
    BY <1>6, <2>1
  <2>4. QED BY <1>2, <1>4, <2>2, <2>3
<1>9. QED BY <1>7, <1>8 DEF q

LEMMA BeginningAgain ==
  ASSUME NEW S, NEW p \in Seq(S), NEW n \in 0..Len(p), NEW m \in 0..n
  PROVE  SubSeq(SubSeq(p, 1, n), 1, m) = SubSeq(p, 1, m)
<1>1. Len(p) \in Nat
  BY LenProperties
<1> DEFINE q == SubSeq(p, 1, n)
           a == SubSeq(q, 1, m)
           b == SubSeq(p, 1, m)
<1>2. q \in Seq(S) /\ Len(q) = n /\ \A k \in 1..n : q[k] = p[k]
  BY Beginning
<1>3. b \in Seq(S) /\ Len(b) = m /\ \A k \in 1..m : b[k] = p[k]
  <2>1. m \in 0..Len(p)
    BY <1>1
  <2>2. QED BY <2>1, Beginning
<1> HIDE DEF q, b
<1>4. a \in Seq(S) /\ Len(a) = m /\ \A k \in 1..m : a[k] = q[k]
  BY <1>2, Beginning
<1> HIDE DEF a
<1>5. \A k \in 1..m : a[k] = b[k]
  BY <1>1, <1>2, <1>3, <1>4
<1>6. a = b
  BY <1>3, <1>4, <1>5, SeqEqual
<1>7. QED BY <1>6 DEF a, b, q

\* One step further into the directory at a position.
LEMMA OneFurther ==
  ASSUME NEW t \in Root, NEW q \in Place, Leads(t, q),
         NEW k \in DOMAIN At(t, q).sub, NEW p, p = Append(q, k)
  PROVE  p \in Place /\ Leads(t, p) /\ At(t, p) = At(t, q).sub[k]
<1>1. q \in Seq(Nat) /\ q # <<>> /\ Len(q) \in Nat /\ Len(q) >= 1
  BY PlaceMeans
<1>2. p \in Place
  BY RootMeans
<1>3. p \in Seq(Nat) /\ p # <<>> /\ k \in Nat
  <2>1. Len(q) + 1 \in Nat /\ Len(q) + 1 \in 1..Len(p) /\ p[Len(q) + 1] = k
    BY <1>1
  <2>2. p \in Seq(Nat) /\ p # <<>> /\ \A j \in 1..Len(p) : p[j] \in Nat
    BY <1>2, PlaceMeans, Zenon
  <2>3. QED BY <2>1, <2>2
<1>4. Len(p) = Len(q) + 1 /\ p[Len(q) + 1] = k /\ \A j \in 1..Len(q) : p[j] = q[j]
  BY <1>1, <1>3, Appending
<1>5. SubSeq(p, 1, Len(q)) = q
  <2>1. Len(q) \in 0..Len(p)
    BY <1>1, <1>4
  <2>2. SubSeq(p, 1, Len(q)) \in Seq(Nat) /\ Len(SubSeq(p, 1, Len(q))) = Len(q)
        /\ \A j \in 1..Len(q) : SubSeq(p, 1, Len(q))[j] = q[j]
    BY <1>3, <1>4, <2>1, Beginning
  <2>3. QED BY <1>1, <2>2, SeqEqual
<1>6. At(t, p) = At(t, q).sub[k]
  <2>1. Len(p) # 1 /\ Len(p) - 1 = Len(q)
    BY <1>1, <1>4
  <2>2. At(t, p) = At(t, SubSeq(p, 1, Len(p) - 1)).sub[p[Len(p)]]
    BY <1>3, <2>1, AtMeans, Zenon
  <2>3. p[Len(p)] = k
    BY <1>4
  <2>4. QED BY <1>5, <2>1, <2>2, <2>3, Zenon
<1>7. ASSUME NEW j \in 2..Len(p) PROVE p[j] \in DOMAIN At(t, SubSeq(p, 1, j - 1)).sub
  <2>1. CASE j = Len(p)
    <3>1. j - 1 = Len(q) /\ p[j] = k
      BY <1>1, <1>4, <2>1
    <3>2. QED BY <1>5, <3>1, Zenon
  <2>2. CASE j # Len(p)
    <3>1. j \in 2..Len(q) /\ Len(q) \in 0..Len(p) /\ j - 1 \in 0..Len(q)
      BY <1>1, <1>4, <2>2
    <3>2. SubSeq(p, 1, j - 1) = SubSeq(q, 1, j - 1)
      <4>1. SubSeq(SubSeq(p, 1, Len(q)), 1, j - 1) = SubSeq(p, 1, j - 1)
        BY <1>3, <3>1, BeginningAgain
      <4>2. QED BY <1>5, <4>1, Zenon
    <3>3. q[j] \in DOMAIN At(t, SubSeq(q, 1, j - 1)).sub
      BY <3>1, Zenon DEF Leads
    <3>4. p[j] = q[j]
      BY <1>4, <3>1
    <3>5. QED BY <3>2, <3>3, <3>4, Zenon
  <2>3. QED BY <2>1, <2>2
<1>8. p[1] \in DOMAIN t
  BY <1>1, <1>4 DEF Leads
<1>9. QED BY <1>2, <1>6, <1>7, <1>8 DEF Leads

LEMMA FirstStep ==
  ASSUME NEW t \in Root, NEW k \in DOMAIN t, NEW p, p = <<k>>
  PROVE  p \in Place /\ Leads(t, p) /\ At(t, p) = t[k]
<1>1. p \in Place
  BY RootMeans
<1>2. Len(p) = 1 /\ p[1] = k
  OBVIOUS
<1>3. p \in Seq(Nat) /\ p # <<>>
  BY <1>1, PlaceMeans
<1>4. At(t, p) = t[k]
  BY <1>2, <1>3, AtMeans
<1>5. QED BY <1>1, <1>2, <1>4 DEF Leads

-----------------------------------------------------------------------------
(***************************************************************************)
(* A chain of walkers: each is in the directory the one outside it has     *)
(* come to.                                                                *)
(***************************************************************************)

Link == [dir : Directory, at : Nat]

\* The position a chain has come to in its n-th walker, and the entry.
Steps(w, n) == [j \in 1..n |-> w[j].at]
EntryOf(w, n) == w[n].dir[w[n].at]

Chain(t, w) ==
  /\ w \in Seq(Link) /\ Len(w) >= 1
  /\ w[1].dir = t
  /\ \A j \in 1..Len(w) : w[j].at <= Len(w[j].dir)
  /\ \A j \in 1..(Len(w) - 1) : /\ w[j].at # 0
                                /\ EntryOf(w, j).kind = "tree"
                                /\ w[j + 1].dir = EntryOf(w, j).sub

LEMMA ChainMeans ==
  ASSUME NEW t, NEW w, Chain(t, w)
  PROVE  /\ Len(w) \in Nat /\ DOMAIN w = 1..Len(w) /\ w # <<>>
         /\ \A j \in 1..Len(w) : /\ w[j] \in Link
                                 /\ w[j].dir \in Directory /\ w[j].at \in Nat
                                 /\ w[j].at # 0 => w[j].at \in DOMAIN w[j].dir
<1>1. Len(w) \in Nat /\ DOMAIN w = 1..Len(w) /\ \A j \in 1..Len(w) : w[j] \in Link
  BY LenProperties, ElementOfSeq DEF Chain
<1>2. \A j \in 1..Len(w) : w[j].dir \in Directory /\ w[j].at \in Nat
  BY <1>1 DEF Link
<1>3. \A j \in 1..Len(w) : w[j].at # 0 => w[j].at \in DOMAIN w[j].dir
  BY <1>2, DirectoryMeans DEF Chain
<1>4. QED BY <1>1, <1>2, <1>3, EmptySeq DEF Chain

LEMMA StepsMean ==
  ASSUME NEW t, NEW w, Chain(t, w), NEW n \in 1..Len(w)
  PROVE  /\ Steps(w, n) \in Seq(Nat) /\ Len(Steps(w, n)) = n /\ Steps(w, n) # <<>>
         /\ \A j \in 1..n : Steps(w, n)[j] = w[j].at
<1>1. Len(w) \in Nat /\ \A j \in 1..Len(w) : w[j].at \in Nat
  BY ChainMeans
<1>2. Steps(w, n) \in [1..n -> Nat]
  BY <1>1 DEF Steps
<1>3. Steps(w, n) \in Seq(Nat) /\ Len(Steps(w, n)) = n
  BY <1>1, <1>2, SeqDef
<1>4. QED BY <1>1, <1>3, EmptySeq DEF Steps

\* One step more, as a sequence.
LEMMA StepsGrow ==
  ASSUME NEW t, NEW w, Chain(t, w), NEW n \in 1..Len(w)
  PROVE  /\ n = 1 => Steps(w, n) = <<w[1].at>>
         /\ n # 1 => Steps(w, n) = Append(Steps(w, n - 1), w[n].at)
<1>1. Len(w) \in Nat /\ \A j \in 1..Len(w) : w[j].at \in Nat
  BY ChainMeans
<1> DEFINE p == Steps(w, n)
<1>2. p \in Seq(Nat) /\ Len(p) = n /\ \A j \in 1..n : p[j] = w[j].at
  BY StepsMean
<1> HIDE DEF p
<1>3. ASSUME n = 1 PROVE p = <<w[1].at>>
  <2> DEFINE q == <<w[1].at>>
  <2>1. q \in Seq(Nat) /\ Len(q) = 1 /\ q[1] = w[1].at
    BY <1>1, <1>3
  <2> HIDE DEF q
  <2>2. \A j \in 1..Len(p) : p[j] = q[j]
    BY <1>2, <1>3, <2>1
  <2>3. p = q
    BY <1>2, <1>3, <2>1, <2>2, SeqEqual
  <2>4. QED BY <2>3 DEF q
<1>4. ASSUME n # 1 PROVE p = Append(Steps(w, n - 1), w[n].at)
  <2> DEFINE r == Steps(w, n - 1)
             q == Append(r, w[n].at)
  <2>1. n - 1 \in 1..Len(w)
    BY <1>1, <1>4
  <2>2. r \in Seq(Nat) /\ Len(r) = n - 1 /\ \A j \in 1..(n - 1) : r[j] = w[j].at
    BY <2>1, StepsMean
  <2> HIDE DEF r
  <2>3. q \in Seq(Nat) /\ Len(q) = n /\ q[n] = w[n].at /\ \A j \in 1..(n - 1) : q[j] = r[j]
    BY <1>1, <2>2, Appending
  <2> HIDE DEF q
  <2>4. \A j \in 1..n : p[j] = q[j]
    <3> SUFFICES ASSUME NEW j \in 1..n PROVE p[j] = q[j]
      OBVIOUS
    <3>1. j = n \/ j \in 1..(n - 1)
      BY <1>1
    <3>2. QED BY <1>2, <2>2, <2>3, <3>1
  <2>5. p = q
    BY <1>2, <2>3, <2>4, SeqEqual
  <2>6. QED BY <2>5 DEF q, r
<1>5. QED BY <1>3, <1>4 DEF p

\* Every walker of a chain has come to the entry that its position leads to.
LEMMA ChainAt ==
  ASSUME NEW t \in Root, NEW w, Chain(t, w), NEW n \in 1..Len(w), w[n].at # 0
  PROVE  /\ Steps(w, n) \in Place
         /\ Leads(t, Steps(w, n))
         /\ At(t, Steps(w, n)) = EntryOf(w, n)
<1> DEFINE Good(k) == /\ Steps(w, k) \in Place
                      /\ Leads(t, Steps(w, k))
                      /\ At(t, Steps(w, k)) = EntryOf(w, k)
           S == {k \in 1..Len(w) : w[k].at # 0 /\ ~Good(k)}
<1>1. SUFFICES ASSUME S # {} PROVE FALSE
  OBVIOUS
<1>2. Len(w) \in Nat
  BY ChainMeans
<1>3. S \in SUBSET Nat
  BY <1>2
<1>4. PICK m \in S : \A k \in S : m <= k
  BY <1>1, <1>3, LeastNatural
<1>5. m \in 1..Len(w) /\ w[m].at # 0 /\ w[m].at \in DOMAIN w[m].dir /\ ~Good(m)
  BY <1>4, ChainMeans
<1>6. CASE m = 1
  <2>1. Steps(w, m) = <<w[1].at>>
    BY <1>5, <1>6, StepsGrow
  <2>2. w[1].dir = t /\ w[1].at \in DOMAIN t
    BY <1>5, <1>6 DEF Chain
  <2>3. QED BY <1>5, <1>6, <2>1, <2>2, FirstStep DEF EntryOf
<1>7. CASE m # 1
  <2>1. m - 1 \in 1..(Len(w) - 1) /\ m - 1 \in 1..Len(w) /\ m - 1 \notin S /\ (m - 1) + 1 = m
    BY <1>2, <1>4, <1>5, <1>7
  <2>2. /\ w[m - 1].at # 0
        /\ w[m].dir = EntryOf(w, m - 1).sub
    BY <2>1 DEF Chain
  <2>3. Good(m - 1)
    BY <2>1, <2>2
  <2>4. Steps(w, m) = Append(Steps(w, m - 1), w[m].at)
    BY <1>5, <1>7, StepsGrow
  <2>5. w[m].at \in DOMAIN At(t, Steps(w, m - 1)).sub
    BY <1>5, <2>2, <2>3
  <2> DEFINE q == Steps(w, m - 1)
  <2>6. q \in Place /\ Leads(t, q) /\ At(t, q).sub = w[m].dir
    BY <2>2, <2>3
  <2> HIDE DEF q
  <2>7. Append(q, w[m].at) \in Place /\ Leads(t, Append(q, w[m].at))
        /\ At(t, Append(q, w[m].at)) = At(t, q).sub[w[m].at]
    BY <1>5, <2>6, OneFurther, Zenon
  <2>8. Append(q, w[m].at) = Steps(w, m) /\ EntryOf(w, m) = w[m].dir[w[m].at]
    BY <2>4 DEF q, EntryOf
  <2>9. Good(m)
    BY <2>6, <2>7, <2>8, Zenon
  <2>10. QED BY <1>5, <2>9
<1>8. QED BY <1>6, <1>7

-----------------------------------------------------------------------------
(***************************************************************************)
(* What is still to come of a chain, and how that changes when it goes on. *)
(***************************************************************************)

\* A position is still to come where it leaves the way a chain has taken for a later
\* entry.
Leaves(w, q, j) == /\ j <= Len(q) /\ w[j].at < q[j]
                   /\ \A i \in 1..(j - 1) : q[i] = w[i].at
ToCome(t, w) == {q \in Place : Leads(t, q) /\ \E j \in 1..Len(w) : Leaves(w, q, j)}

LEMMA LeavesUnfinished ==
  ASSUME NEW t \in Root, NEW w, Chain(t, w), NEW q \in Place, Leads(t, q),
         NEW j \in 1..Len(w), Leaves(w, q, j)
  PROVE  j \in Unfinished(w) /\ q[j] <= Len(w[j].dir) /\ q[j] \in Nat
<1>1. /\ Len(w) \in Nat /\ DOMAIN w = 1..Len(w)
      /\ w[j].dir \in Directory /\ w[j].at \in Nat
  BY ChainMeans
<1>2. q \in Seq(Nat) /\ Len(q) \in Nat /\ j <= Len(q) /\ q[j] \in Nat
  BY <1>1, PlaceMeans DEF Leaves
<1>3. Len(w[j].dir) \in Nat /\ DOMAIN w[j].dir = 1..Len(w[j].dir)
  BY <1>1, DirectoryMeans
<1>4. q[j] \in DOMAIN w[j].dir
  <2>1. CASE j = 1
    BY <2>1 DEF Leads, Chain
  <2>2. CASE j # 1
    <3>1. j - 1 \in 1..(Len(w) - 1) /\ j - 1 \in 1..Len(w) /\ j - 1 \in 0..Len(q)
          /\ j \in 2..Len(q) /\ (j - 1) + 1 = j
      BY <1>1, <1>2, <2>2
    <3>2. w[j - 1].at # 0 /\ w[j].dir = EntryOf(w, j - 1).sub
      BY <3>1 DEF Chain
    <3> DEFINE a == SubSeq(q, 1, j - 1)
               b == Steps(w, j - 1)
    <3>3. a \in Seq(Nat) /\ Len(a) = j - 1 /\ \A i \in 1..(j - 1) : a[i] = q[i]
      BY <1>2, <3>1, Beginning
    <3>4. b \in Seq(Nat) /\ Len(b) = j - 1 /\ \A i \in 1..(j - 1) : b[i] = w[i].at
      BY <3>1, StepsMean
    <3> HIDE DEF a, b
    <3>5. \A i \in 1..Len(a) : a[i] = b[i]
      BY <3>3, <3>4 DEF Leaves
    <3>6. a = b
      BY <3>3, <3>4, <3>5, SeqEqual
    <3>7. At(t, b) = EntryOf(w, j - 1)
      BY <3>1, <3>2, ChainAt DEF b
    <3>8. q[j] \in DOMAIN At(t, a).sub
      BY <3>1, Zenon DEF Leads, a
    <3>9. QED BY <3>2, <3>6, <3>7, <3>8, Zenon
  <2>3. QED BY <2>1, <2>2
<1>5. w[j].at < q[j]
  BY DEF Leaves
<1>6. w[j].at < Len(w[j].dir) /\ q[j] <= Len(w[j].dir)
  BY <1>1, <1>2, <1>3, <1>4, <1>5
<1>7. QED BY <1>1, <1>2, <1>6 DEF Unfinished

LEMMA MaxMeans ==
  ASSUME NEW N \in Nat, NEW S \in SUBSET (1..N), S # {}
  PROVE  Max(S) \in S /\ \A k \in S : Max(S) >= k
<1> DEFINE T == {N - k : k \in S}
<1>1. T \in SUBSET Nat /\ T # {}
  <2>1. \A k \in S : k \in 1..N
    OBVIOUS
  <2>2. \A k \in S : N - k \in Nat
    BY <2>1
  <2>3. QED BY <2>2
<1>2. PICK d \in T : \A e \in T : d <= e
  BY <1>1, LeastNatural
<1>3. PICK m \in S : d = N - m
  BY <1>2
<1>4. \A k \in S : m >= k
  <2> SUFFICES ASSUME NEW k \in S PROVE m >= k
    OBVIOUS
  <2>1. N - k \in T /\ k \in Nat /\ m \in Nat
    OBVIOUS
  <2>2. N - m <= N - k
    BY <1>2, <1>3, <2>1
  <2>3. QED BY <2>1, <2>2
<1>5. QED BY <1>4 DEF Max

\* A chain that goes on leaves the walkers below its last unfinished one, the m-th, and
\* takes that one a step further.
GoesOnAt(w, m, v) ==
  /\ \A j \in Unfinished(w) : j <= m
  /\ Len(v) = m
  /\ \A j \in 1..(m - 1) : v[j] = w[j]
  /\ v[m].dir = w[m].dir /\ v[m].at = w[m].at + 1

LEMMA MovedMeans ==
  ASSUME NEW t, NEW w, Chain(t, w), Unfinished(w) # {}
  PROVE  Chain(t, Moved(w)) /\ \E m \in 1..Len(w) : GoesOnAt(w, m, Moved(w))
<1> DEFINE m == Max(Unfinished(w))
           v == Moved(w)
<1>1. /\ Len(w) \in Nat /\ DOMAIN w = 1..Len(w)
      /\ \A j \in 1..Len(w) : w[j] \in Link /\ w[j].dir \in Directory /\ w[j].at \in Nat
  BY ChainMeans
<1>2. Unfinished(w) \in SUBSET (1..Len(w))
  BY <1>1 DEF Unfinished
<1>3. m \in Unfinished(w) /\ \A j \in Unfinished(w) : m >= j
  BY <1>1, <1>2, MaxMeans
<1> HIDE DEF m
<1>4. m \in 1..Len(w) /\ w[m].at < Len(w[m].dir) /\ Len(w[m].dir) \in Nat
  BY <1>1, <1>3, DirectoryMeans DEF Unfinished
<1> DEFINE s == SubSeq(w, 1, m)
<1>5. s \in Seq(Link) /\ Len(s) = m /\ \A j \in 1..m : s[j] = w[j]
  <2>1. w \in Seq(Link) /\ m \in 0..Len(w)
    BY <1>4 DEF Chain
  <2>2. QED BY <2>1, Beginning
<1>6. v = [s EXCEPT ![m].at = @ + 1]
  BY DEF Moved, m
<1> HIDE DEF s, v
<1>7. DOMAIN s = 1..m /\ s \in [1..m -> Link]
  BY <1>1, <1>4, <1>5, LenProperties
<1>8. /\ v \in [1..m -> Link]
      /\ \A j \in 1..(m - 1) : v[j] = w[j]
      /\ v[m].dir = w[m].dir /\ v[m].at = w[m].at + 1
  <2>1. [w[m] EXCEPT !.at = @ + 1] \in Link
        /\ [w[m] EXCEPT !.at = @ + 1].dir = w[m].dir
        /\ [w[m] EXCEPT !.at = @ + 1].at = w[m].at + 1
    BY <1>1, <1>4 DEF Link
  <2>2. s[m] = w[m] /\ m \in 1..m
    BY <1>4, <1>5
  <2>3. v = [s EXCEPT ![m] = [w[m] EXCEPT !.at = @ + 1]]
    BY <1>6, <2>2
  <2>4. QED BY <1>4, <1>5, <1>7, <2>1, <2>2, <2>3
<1>9. v \in Seq(Link) /\ Len(v) = m
  BY <1>4, <1>8, SeqDef
<1>10. m - 1 \in Nat /\ m \in Nat /\ m >= 1 /\ \A j \in 1..m : j \in 1..Len(w)
  BY <1>1, <1>4
<1>11. v[1].dir = t
  BY <1>4, <1>8 DEF Chain
<1>12. \A j \in 1..m : v[j].at <= Len(v[j].dir)
  <2> SUFFICES ASSUME NEW j \in 1..m PROVE v[j].at <= Len(v[j].dir)
    OBVIOUS
  <2>1. CASE j = m
    BY <1>1, <1>4, <1>8, <2>1
  <2>2. CASE j # m
    <3>1. j \in 1..(m - 1) /\ j \in 1..Len(w)
      BY <1>1, <1>4, <2>2
    <3>2. QED BY <1>8, <3>1 DEF Chain
  <2>3. QED BY <2>1, <2>2
<1>13. \A j \in 1..(m - 1) : /\ v[j].at # 0
                             /\ EntryOf(v, j).kind = "tree"
                             /\ v[j + 1].dir = EntryOf(v, j).sub
  <2> SUFFICES ASSUME NEW j \in 1..(m - 1)
               PROVE  /\ v[j].at # 0
                      /\ EntryOf(v, j).kind = "tree"
                      /\ v[j + 1].dir = EntryOf(v, j).sub
    OBVIOUS
  <2>1. j \in 1..(Len(w) - 1) /\ v[j] = w[j]
    BY <1>1, <1>4, <1>8
  <2>2. EntryOf(v, j) = EntryOf(w, j)
    BY <2>1 DEF EntryOf
  <2>3. v[j + 1].dir = w[j + 1].dir
    <3>1. j + 1 = m \/ j + 1 \in 1..(m - 1)
      BY <1>4
    <3>2. QED BY <1>8, <3>1
  <2>4. QED BY <2>1, <2>2, <2>3 DEF Chain
<1>14. Chain(t, v)
  BY <1>9, <1>10, <1>11, <1>12, <1>13 DEF Chain
<1>15. \A j \in Unfinished(w) : j <= m
  BY <1>1, <1>2, <1>3, <1>4
<1>16. GoesOnAt(w, m, v)
  BY <1>8, <1>9, <1>15 DEF GoesOnAt
<1>17. QED BY <1>4, <1>14, <1>16 DEF v

\* And when a walker for the directory it has come to is put inside.
LEMMA NestedMeans ==
  ASSUME NEW t, NEW v, Chain(t, v), v[Len(v)].at # 0
  PROVE  /\ Entry(v) = EntryOf(v, Len(v)) /\ Entry(v).sub \in Directory
         /\ Entry(v).key \in Int
         /\ Chain(t, Nested(v)) /\ Current(Nested(v)) = v
         /\ Entry(v).kind = "tree" => /\ Len(Nested(v)) = Len(v) + 1
                                      /\ Nested(v)[Len(v) + 1].at = 0
                                      /\ \A j \in 1..Len(v) : Nested(v)[j] = v[j]
         /\ Entry(v).kind # "tree" => Nested(v) = v
<1> DEFINE u == Nested(v)
           n == Len(v)
           Is == /\ Entry(v) = EntryOf(v, n) /\ Entry(v).sub \in Directory
                 /\ Entry(v).key \in Int
                 /\ Chain(t, u) /\ Current(u) = v
                 /\ Entry(v).kind = "tree" => /\ Len(u) = n + 1 /\ u[n + 1].at = 0
                                              /\ \A j \in 1..n : u[j] = v[j]
                 /\ Entry(v).kind # "tree" => u = v
<1>1. /\ n \in Nat /\ n \in 1..n /\ v \in Seq(Link) /\ n >= 1
      /\ \A j \in 1..n : v[j] \in Link
      /\ v[n].dir \in Directory /\ v[n].at \in DOMAIN v[n].dir
  BY ChainMeans DEF Chain
<1>2. Entry(v) = EntryOf(v, n)
  BY DEF Entry, EntryOf, Last
<1>0. u = Nested(v) /\ n = Len(v) /\ v[n].at # 0
  OBVIOUS
<1> HIDE DEF u, n
<1>3. Entry(v).sub \in Directory /\ Entry(v).key \in Int
  BY <1>1, <1>2, DirectoryMeans DEF EntryOf
<1>4. ASSUME Entry(v).kind # "tree" PROVE Is
  <2>1. u = v
    BY <1>0, <1>4 DEF Nested
  <2>2. Current(u) = v
    BY <1>0, <2>1 DEF Current, Last
  <2>3. Is
    BY <1>2, <1>3, <1>4, <2>1, <2>2
  <2>4. QED BY <2>3
<1>5. ASSUME Entry(v).kind = "tree" PROVE Is
  <2> DEFINE x == Walker(Entry(v).sub)
  <2>1. x \in Link /\ x.at = 0 /\ x.dir = Entry(v).sub
    BY <1>3 DEF Walker, Link
  <2>2. u = Append(v, x)
    BY <1>0, <1>5 DEF Nested
  <2> HIDE DEF x
  <2>3. u \in Seq(Link) /\ Len(u) = n + 1 /\ u[n + 1] = x /\ \A j \in 1..n : u[j] = v[j]
    BY <1>0, <1>1, <2>1, <2>2, Appending
  <2>4. Len(u) >= 1 /\ u[1].dir = t
    BY <1>1, <2>3 DEF Chain
  <2>5. \A j \in 1..(n + 1) : u[j].at <= Len(u[j].dir)
    <3> SUFFICES ASSUME NEW j \in 1..(n + 1) PROVE u[j].at <= Len(u[j].dir)
      OBVIOUS
    <3>1. CASE j = n + 1
      BY <1>3, <2>1, <2>3, <3>1, DirectoryMeans
    <3>2. CASE j # n + 1
      <4>1. j \in 1..n
        BY <1>1, <3>2
      <4>2. QED BY <1>0, <2>3, <4>1 DEF Chain
    <3>3. QED BY <3>1, <3>2
  <2>6. \A j \in 1..n : /\ u[j].at # 0
                        /\ EntryOf(u, j).kind = "tree"
                        /\ u[j + 1].dir = EntryOf(u, j).sub
    <3> SUFFICES ASSUME NEW j \in 1..n
                 PROVE  /\ u[j].at # 0
                        /\ EntryOf(u, j).kind = "tree"
                        /\ u[j + 1].dir = EntryOf(u, j).sub
      OBVIOUS
    <3>1. u[j] = v[j] /\ EntryOf(u, j) = EntryOf(v, j)
      BY <2>3 DEF EntryOf
    <3>2. CASE j = n
      BY <1>0, <1>1, <1>2, <1>5, <2>1, <2>3, <3>1, <3>2
    <3>3. CASE j # n
      <4>1. j \in 1..(n - 1) /\ j + 1 \in 1..n
        BY <1>1, <3>3
      <4>2. u[j + 1] = v[j + 1]
        BY <2>3, <4>1
      <4>3. QED BY <1>0, <3>1, <4>1, <4>2 DEF Chain
    <3>4. QED BY <3>2, <3>3
  <2>7. Len(u) - 1 = n
    BY <1>1, <2>3
  <2>8. Chain(t, u)
    BY <2>3, <2>4, <2>5, <2>6, <2>7 DEF Chain
  <2>9. Current(u) = v
    <3>1. Last(u).at = 0
      BY <2>1, <2>3 DEF Last
    <3>2. Front(u) = SubSeq(u, 1, n)
      BY <2>7 DEF Front
    <3> DEFINE f == SubSeq(u, 1, n)
    <3>3. f \in Seq(Link) /\ Len(f) = n /\ \A j \in 1..n : f[j] = u[j]
      <4>1. n \in 0..Len(u)
        BY <1>1, <2>3
      <4>2. QED BY <2>3, <4>1, Beginning
    <3> HIDE DEF f
    <3>4. f = v
      BY <1>0, <1>1, <2>3, <3>3, SeqEqual
    <3>5. QED BY <3>1, <3>2, <3>4 DEF Current, f
  <2>10. Is
    BY <1>2, <1>3, <1>5, <2>1, <2>3, <2>8, <2>9
  <2>11. QED BY <2>10
<1>6. Is
  BY <1>4, <1>5
<1>7. QED BY <1>6 DEF u, n

\* MoveNext of a chain that has an entry left comes to the next of them: what was still
\* to come is that one and what is still to come, and it precedes all of that.
LEMMA AdvancedMeans ==
  ASSUME NEW t \in Root, NEW w, Chain(t, w), Unfinished(w) # {},
         NEW v, v = Moved(w), NEW u, u = Advanced(w), NEW p, p = Position(v)
  PROVE  /\ Chain(t, u) /\ Current(u) = v
         /\ p \in Place /\ Leads(t, p) /\ At(t, p) = Entry(v)
         /\ Entry(v).key \in Int
         /\ p \in ToCome(t, w)
         /\ ToCome(t, u) \subseteq ToCome(t, w)
         /\ ToCome(t, w) \subseteq ToCome(t, u) \cup {p}
         /\ \A q \in ToCome(t, u) : Precedes(p, q)
<1>1. PICK m \in 1..Len(w) :
        /\ \A j \in Unfinished(w) : j <= m
        /\ Chain(t, v) /\ Len(v) = m
        /\ \A j \in 1..(m - 1) : v[j] = w[j]
        /\ v[m].dir = w[m].dir /\ v[m].at = w[m].at + 1
  <2>1. Chain(t, v) /\ \E m \in 1..Len(w) : GoesOnAt(w, m, v)
    BY MovedMeans
  <2>2. QED BY <2>1 DEF GoesOnAt
<1>2. Len(w) \in Nat /\ m \in Nat /\ m >= 1 /\ w[m].at \in Nat /\ v[m].at # 0
      /\ \A j \in 1..m : w[j].at \in Nat
  BY <1>1, ChainMeans
<1>3. u = Nested(v)
  BY DEF Advanced
<1>4. /\ Entry(v) = EntryOf(v, m) /\ Entry(v).sub \in Directory
      /\ Entry(v).key \in Int
      /\ Chain(t, u) /\ Current(u) = v
      /\ Entry(v).kind = "tree" => /\ Len(u) = m + 1 /\ u[m + 1].at = 0
                                   /\ \A j \in 1..m : u[j] = v[j]
      /\ Entry(v).kind # "tree" => u = v
  <2>1. Chain(t, v) /\ m = Len(v) /\ v[Len(v)].at # 0
    BY <1>1, <1>2
  <2>2. /\ Entry(v) = EntryOf(v, Len(v)) /\ Entry(v).sub \in Directory
        /\ Entry(v).key \in Int
        /\ Chain(t, Nested(v)) /\ Current(Nested(v)) = v
        /\ Entry(v).kind = "tree" => /\ Len(Nested(v)) = Len(v) + 1
                                     /\ Nested(v)[Len(v) + 1].at = 0
                                     /\ \A j \in 1..Len(v) : Nested(v)[j] = v[j]
        /\ Entry(v).kind # "tree" => Nested(v) = v
    BY <2>1, NestedMeans, Zenon
  <2>3. QED BY <1>3, <2>1, <2>2, Zenon
<1>5. p = Steps(v, m)
  BY <1>1, ChainMeans DEF Position, Steps
<1>6. /\ p \in Place /\ Leads(t, p) /\ At(t, p) = Entry(v)
  BY <1>1, <1>2, <1>4, <1>5, ChainAt
<1>7. p \in Seq(Nat) /\ Len(p) = m /\ \A j \in 1..m : p[j] = v[j].at
  BY <1>1, <1>2, <1>5, StepsMean
<1>8. p \in ToCome(t, w)
  <2>1. Leaves(w, p, m)
    BY <1>1, <1>2, <1>7 DEF Leaves
  <2>2. QED BY <1>1, <1>6, <2>1 DEF ToCome
<1>9. \A j \in 1..m : u[j] = v[j]
  BY <1>4
\* Where something leaves the way of u, inside or along that of w.
<1>10. ASSUME NEW q \in ToCome(t, u)
       PROVE  \/ IsPrefix(p, q) /\ Len(q) > m
              \/ \E j \in 1..m : Leaves(v, q, j)
  <2>1. PICK j \in 1..Len(u) : Leaves(u, q, j)
    BY <1>10 DEF ToCome
  <2>2. q \in Seq(Nat) /\ Len(q) \in Nat
    BY <1>10, PlaceMeans DEF ToCome
  <2>3. CASE j \in 1..m
    <3>1. \A i \in 1..j : u[i] = v[i]
      BY <1>2, <1>9, <2>3
    <3>2. Leaves(v, q, j)
      BY <2>1, <2>3, <3>1 DEF Leaves
    <3>3. QED BY <2>3, <3>2
  <2>4. CASE j \notin 1..m
    <3>1. j = m + 1
      BY <1>1, <1>2, <1>4, <2>1, <2>4
    <3>2. m + 1 <= Len(q) /\ \A i \in 1..m : q[i] = v[i].at
      BY <1>2, <1>9, <2>1, <3>1 DEF Leaves
    <3>3. Len(p) <= Len(q) /\ Len(q) > m
      BY <1>2, <1>7, <2>2, <3>2
    <3>5. \A i \in 1..Len(p) : p[i] = q[i]
      BY <1>7, <3>2
    <3>6. IsPrefix(p, q)
      BY <1>7, <2>2, <3>3, <3>5, PrefixMeans
    <3>7. QED BY <3>3, <3>6
  <2>5. QED BY <2>3, <2>4
<1>11. ASSUME NEW q \in ToCome(t, u) PROVE q \in ToCome(t, w)
  <2>1. q \in Place /\ Leads(t, q) /\ q \in Seq(Nat) /\ Len(q) \in Nat
    BY <1>11, PlaceMeans DEF ToCome
  <2>2. \E j \in 1..m : Leaves(w, q, j)
    <3>1. CASE IsPrefix(p, q) /\ Len(q) > m
      <4>1. \A i \in 1..m : q[i] = v[i].at
        <5>1. \A i \in 1..Len(p) : p[i] = q[i]
          <6>1. p \in Seq(Nat) /\ q \in Seq(Nat) /\ IsPrefix(p, q)
            BY <1>7, <2>1, <3>1
          <6>2. IsPrefix(p, q) <=> Len(p) <= Len(q) /\ \A k \in 1..Len(p) : p[k] = q[k]
            BY <6>1, PrefixMeans
          <6>3. QED BY <6>1, <6>2
        <5>2. QED BY <1>7, <5>1
      <4>2. Leaves(w, q, m)
        BY <1>1, <1>2, <2>1, <3>1, <4>1 DEF Leaves
      <4>3. QED BY <1>1, <1>2, <4>2
    <3>2. ASSUME NEW j \in 1..m, Leaves(v, q, j) PROVE Leaves(w, q, j)
      <4>1. \A i \in 1..(j - 1) : v[i] = w[i]
        BY <1>1, <1>2
      <4>2. j <= Len(q) /\ v[j].at < q[j] /\ \A i \in 1..(j - 1) : q[i] = v[i].at
        BY <3>2 DEF Leaves
      <4>3. q[j] \in Nat
        BY <1>2, <2>1, <4>2, PlaceMeans
      <4>4. w[j].at < q[j]
        <5>1. CASE j = m
          BY <1>1, <1>2, <4>2, <4>3, <5>1
        <5>2. CASE j # m
          <6>1. v[j] = w[j]
            BY <1>1, <1>2, <5>2
          <6>2. QED BY <4>2, <6>1
        <5>3. QED BY <5>1, <5>2
      <4>5. QED BY <4>1, <4>2, <4>4 DEF Leaves
    <3>3. QED BY <1>10, <3>1, <3>2
  <2>3. QED BY <1>1, <2>1, <2>2 DEF ToCome
<1>12. ASSUME NEW q \in ToCome(t, u) PROVE Precedes(p, q)
  <2>1. q \in Seq(Nat) /\ Len(q) \in Nat /\ DOMAIN q = 1..Len(q) /\ DOMAIN p = 1..m
    BY <1>7, <1>12, PlaceMeans, LenProperties DEF ToCome
  <2>2. CASE IsPrefix(p, q) /\ Len(q) > m
    BY <1>2, <1>7, <2>2 DEF Precedes, IsStrictPrefix
  <2>3. ASSUME NEW j \in 1..m, Leaves(v, q, j) PROVE Precedes(p, q)
    <3>1. j <= Len(q) /\ v[j].at < q[j] /\ \A i \in 1..(j - 1) : q[i] = v[i].at
      BY <2>3 DEF Leaves
    <3>2. j \in DOMAIN p \cap DOMAIN q
      BY <1>2, <2>1, <3>1
    <3>3. p[j] < q[j]
      BY <1>7, <3>1
    <3>4. \A i \in 1..(j - 1) : p[i] = q[i]
      BY <1>2, <1>7, <3>1
    <3>5. QED BY <3>2, <3>3, <3>4 DEF Precedes
  <2>4. QED BY <1>10, <2>2, <2>3
<1>13. ASSUME NEW q \in ToCome(t, w), q # p PROVE q \in ToCome(t, u)
  <2>1. PICK j \in 1..Len(w) : Leaves(w, q, j)
    BY <1>13 DEF ToCome
  <2>2. q \in Place /\ Leads(t, q) /\ q \in Seq(Nat) /\ Len(q) \in Nat
    BY <1>13, PlaceMeans DEF ToCome
  <2>3. j \in Unfinished(w) /\ q[j] \in Nat
    BY <2>1, <2>2, LeavesUnfinished
  <2>4. j \in 1..m
    BY <1>1, <1>2, <2>3
  <2>5. j <= Len(q) /\ w[j].at < q[j] /\ \A i \in 1..(j - 1) : q[i] = w[i].at
    BY <2>1 DEF Leaves
  <2>6. \A i \in 1..(j - 1) : u[i].at = w[i].at
    BY <1>1, <1>2, <1>9, <2>4
  <2>7. m <= Len(u) /\ Len(u) \in Nat
    BY <1>1, <1>2, <1>4
  <2>8. CASE u[j].at < q[j]
    <3>1. Leaves(u, q, j) /\ j \in 1..Len(u)
      BY <1>2, <2>4, <2>5, <2>6, <2>7, <2>8 DEF Leaves
    <3>2. QED BY <2>2, <3>1 DEF ToCome
  <2>9. CASE ~(u[j].at < q[j])
    <3>1. j = m
      <4>1. j # m => u[j] = w[j]
        BY <1>1, <1>2, <1>9, <2>4
      <4>2. QED BY <2>5, <2>9, <4>1
    <3>2. q[m] = w[m].at + 1 /\ u[m].at = w[m].at + 1
      BY <1>1, <1>2, <1>9, <2>3, <2>5, <2>9, <3>1
    <3>3. \A i \in 1..m : q[i] = p[i]
      <4> SUFFICES ASSUME NEW i \in 1..m PROVE q[i] = p[i]
        OBVIOUS
      <4>1. CASE i = m
        BY <1>1, <1>2, <1>7, <3>2, <4>1
      <4>2. CASE i # m
        <5>1. i \in 1..(m - 1)
          BY <1>2, <4>2
        <5>2. QED BY <1>1, <1>2, <1>7, <2>5, <3>1, <5>1
      <4>3. QED BY <4>1, <4>2
    <3>4. m <= Len(q)
      BY <2>5, <3>1
    <3>5. Len(q) # m
      BY <1>7, <1>13, <2>2, <3>3, SeqEqual
    <3>6. m + 1 \in 1..Len(q) /\ m + 1 \in 2..Len(q) /\ (m + 1) - 1 = m /\ m \in 0..Len(q)
      BY <1>2, <2>2, <3>4, <3>5
    <3>7. SubSeq(q, 1, m) = p
      <4> DEFINE a == SubSeq(q, 1, m)
      <4>1. a \in Seq(Nat) /\ Len(a) = m /\ \A i \in 1..m : a[i] = q[i]
        BY <2>2, <3>6, Beginning
      <4> HIDE DEF a
      <4>2. a = p
        BY <1>7, <3>3, <4>1, SeqEqual
      <4>3. QED BY <4>2 DEF a
    <3>8. q[m + 1] \in DOMAIN At(t, p).sub
      <4>1. q[m + 1] \in DOMAIN At(t, SubSeq(q, 1, (m + 1) - 1)).sub
        BY <2>2, <3>6, Zenon DEF Leads
      <4>2. QED BY <3>6, <3>7, <4>1
    <3>9. Entry(v).kind = "tree"
      <4>1. v[m].dir \in Directory /\ v[m].at \in DOMAIN v[m].dir
        BY <1>1, <1>2, ChainMeans
      <4>2. Entry(v).kind # "tree" => Entry(v).sub = <<>>
        BY <1>4, <4>1, DirectoryMeans DEF EntryOf
      <4>3. DOMAIN Entry(v).sub # {}
        BY <1>6, <3>8
      <4>4. QED BY <4>2, <4>3
    <3>10. Leaves(u, q, m + 1) /\ m + 1 \in 1..Len(u)
      <4>1. q[m + 1] \in Nat /\ q[m + 1] > 0
        BY <2>2, <3>6, PlaceMeans
      <4>2. \A i \in 1..m : q[i] = u[i].at
        BY <1>7, <1>9, <3>3
      <4>3. Len(u) = m + 1 /\ u[m + 1].at = 0
        BY <1>4, <3>9
      <4>4. QED BY <1>2, <3>6, <4>1, <4>2, <4>3 DEF Leaves
    <3>11. QED BY <2>2, <3>10 DEF ToCome
  <2>10. QED BY <2>8, <2>9
<1>14. QED BY <1>4, <1>6, <1>8, <1>11, <1>12, <1>13

\* One that has none left is put at the end of its root.
LEMMA FinishedMeans ==
  ASSUME NEW t \in Root, NEW w, Chain(t, w), Unfinished(w) = {},
         NEW u, u = Advanced(w)
  PROVE  Chain(t, u) /\ ToCome(t, u) = {} /\ ToCome(t, w) = {}
<1>1. ToCome(t, w) = {}
  BY LeavesUnfinished DEF ToCome
<1>2. u = <<w[1]>>
  BY DEF Advanced, Moved
<1>3. /\ Len(w) \in Nat /\ Len(w) >= 1 /\ 1 \in 1..Len(w) /\ DOMAIN w = 1..Len(w)
      /\ w[1] \in Link /\ w[1].dir = t /\ w[1].at <= Len(w[1].dir)
      /\ w[1].dir \in Directory /\ w[1].at \in Nat
  BY ChainMeans DEF Chain
<1>4. u \in Seq(Link) /\ Len(u) = 1 /\ u[1] = w[1]
  BY <1>2, <1>3
<1>5. Chain(t, u)
  BY <1>3, <1>4 DEF Chain
<1>6. Unfinished(u) = {}
  <2>1. DOMAIN u = {1}
    BY <1>2
  <2>2. ~(w[1].at < Len(w[1].dir))
    BY <1>3 DEF Unfinished
  <2>3. QED BY <1>4, <2>1, <2>2 DEF Unfinished
<1>7. ToCome(t, u) = {}
  BY <1>5, <1>6, LeavesUnfinished DEF ToCome
<1>8. QED BY <1>1, <1>5, <1>7

\* At its start everything is to come.
LEMMA StartMeans ==
  ASSUME NEW t \in Root, NEW w, w = <<Walker(t)>>
  PROVE  Chain(t, w) /\ Listed(t) \subseteq ToCome(t, w)
<1>1. t \in Directory /\ Len(t) \in Nat
  BY RootMeans, DirectoryMeans
<1>2. Walker(t) \in Link /\ Walker(t).dir = t /\ Walker(t).at = 0
  BY <1>1 DEF Walker, Link
<1>3. w \in Seq(Link) /\ Len(w) = 1 /\ w[1] = Walker(t)
  BY <1>2
<1>4. Chain(t, w)
  BY <1>1, <1>2, <1>3 DEF Chain
<1>5. ASSUME NEW q \in Place PROVE Leaves(w, q, 1)
  <2>1. Len(q) >= 1 /\ Len(q) \in Nat /\ q[1] \in Nat /\ q[1] > 0
    BY PlaceMeans
  <2>2. QED BY <1>2, <1>3, <2>1 DEF Leaves
<1>6. QED BY <1>3, <1>4, <1>5 DEF ToCome, Listed

-----------------------------------------------------------------------------
(***************************************************************************)
(* The rows that have been reported, and those of a side.                  *)
(***************************************************************************)

Row == [Side -> Seq(Nat)]
Passes == Seq(Seq(Row))

TurnsIn(P, s) ==
  {x \in UNION {{<<j, k>> : k \in DOMAIN P[j]} : j \in IF s \in Again THEN {Len(P)} ELSE DOMAIN P} :
     P[x[1]][x[2]][s] # <<>>}

LEMMA TurnsMean ==
  ASSUME NEW P \in Passes, P # <<>>, NEW s
  PROVE  /\ Len(P) \in Nat /\ Len(P) >= 1 /\ DOMAIN P = 1..Len(P)
         /\ \A j \in 1..Len(P) : /\ P[j] \in Seq(Row) /\ Len(P[j]) \in Nat
                                 /\ DOMAIN P[j] = 1..Len(P[j])
         /\ \A x : x \in TurnsIn(P, s) <=>
              \E j \in 1..Len(P) : \E k \in 1..Len(P[j]) :
                /\ x = <<j, k>> /\ (s \in Again => j = Len(P))
                /\ P[j][k][s] # <<>>
<1>1. Len(P) \in Nat /\ DOMAIN P = 1..Len(P) /\ \A j \in 1..Len(P) : P[j] \in Seq(Row)
  BY LenProperties, ElementOfSeq DEF Passes
<1>2. Len(P) >= 1
  BY <1>1, EmptySeq DEF Passes
<1>3. \A j \in 1..Len(P) : Len(P[j]) \in Nat /\ DOMAIN P[j] = 1..Len(P[j])
  BY <1>1, LenProperties
<1> DEFINE J == IF s \in Again THEN {Len(P)} ELSE DOMAIN P
<1>4. \A j : j \in J <=> j \in 1..Len(P) /\ (s \in Again => j = Len(P))
  BY <1>1, <1>2
<1> HIDE DEF J
<1>5. ASSUME NEW x
      PROVE  x \in UNION {{<<j, k>> : k \in DOMAIN P[j]} : j \in J}
             <=> \E j \in J : \E k \in DOMAIN P[j] : x = <<j, k>>
  OBVIOUS
<1>6. \A x : x \in TurnsIn(P, s) <=>
        /\ \E j \in J : \E k \in DOMAIN P[j] : x = <<j, k>>
        /\ P[x[1]][x[2]][s] # <<>>
  BY <1>5 DEF TurnsIn, J
<1>7. ASSUME NEW x, NEW j, NEW k, x = <<j, k>>
      PROVE  P[x[1]][x[2]][s] = P[j][k][s]
  BY <1>7
<1>8. ASSUME NEW x
      PROVE  x \in TurnsIn(P, s) <=>
               \E j \in 1..Len(P) : \E k \in 1..Len(P[j]) :
                 /\ x = <<j, k>> /\ (s \in Again => j = Len(P))
                 /\ P[j][k][s] # <<>>
  <2>1. ASSUME x \in TurnsIn(P, s)
        PROVE  \E j \in 1..Len(P) : \E k \in 1..Len(P[j]) :
                 /\ x = <<j, k>> /\ (s \in Again => j = Len(P))
                 /\ P[j][k][s] # <<>>
    <3>0. PICK j \in J : \E k \in DOMAIN P[j] : x = <<j, k>> /\ P[x[1]][x[2]][s] # <<>>
      BY <1>6, <2>1
    <3>1. PICK k \in DOMAIN P[j] : x = <<j, k>> /\ P[x[1]][x[2]][s] # <<>>
      BY <3>0
    <3>2. j \in 1..Len(P) /\ (s \in Again => j = Len(P)) /\ k \in 1..Len(P[j])
      BY <1>3, <1>4, <3>1, Zenon
    <3>3. P[j][k][s] # <<>>
      BY <1>7, <3>1, Zenon
    <3>4. QED BY <3>1, <3>2, <3>3
  <2>2. ASSUME NEW j \in 1..Len(P), NEW k \in 1..Len(P[j]),
               x = <<j, k>>, s \in Again => j = Len(P), P[j][k][s] # <<>>
        PROVE  x \in TurnsIn(P, s)
    <3>1. j \in J /\ k \in DOMAIN P[j]
      BY <1>3, <1>4, <2>2
    <3>2. P[x[1]][x[2]][s] # <<>>
      BY <1>7, <2>2, Zenon
    <3>3. QED BY <1>6, <2>2, <3>1, <3>2, Zenon
  <2>3. QED BY <2>1, <2>2
<1>9. QED BY <1>1, <1>2, <1>3, <1>8

\* A row is added to the last pass.
Extended(P, row) == [P EXCEPT ![Len(P)] = Append(P[Len(P)], row)]
NextTurn(P) == <<Len(P), Len(P[Len(P)]) + 1>>

LEMMA RowAdded ==
  ASSUME NEW P \in Passes, P # <<>>, NEW row \in Row
  PROVE  /\ Extended(P, row) \in Passes /\ Extended(P, row) # <<>>
         /\ Len(Extended(P, row)) = Len(P)
         /\ \A j \in 1..(Len(P) - 1) : Extended(P, row)[j] = P[j]
         /\ Len(Extended(P, row)[Len(P)]) = Len(P[Len(P)]) + 1
         /\ \A k \in 1..Len(P[Len(P)]) : Extended(P, row)[Len(P)][k] = P[Len(P)][k]
         /\ Extended(P, row)[Len(P)][Len(P[Len(P)]) + 1] = row
<1> DEFINE n == Len(P)
           Q == Extended(P, row)
<1>1. n \in Nat /\ n >= 1 /\ DOMAIN P = 1..n /\ \A j \in 1..n : P[j] \in Seq(Row)
  BY TurnsMean
<1>2. P \in [1..n -> Seq(Row)]
  BY <1>1 DEF Passes
<1> DEFINE new == Append(P[n], row)
<1>3. /\ new \in Seq(Row) /\ Len(new) = Len(P[n]) + 1 /\ new[Len(P[n]) + 1] = row
      /\ \A k \in 1..Len(P[n]) : new[k] = P[n][k]
  BY <1>1, Appending
<1>4. Q = [P EXCEPT ![n] = new]
  BY DEF Extended
<1> HIDE DEF new, n, Q
<1>5. Q \in [1..n -> Seq(Row)] /\ Q[n] = new /\ \A j \in 1..(n - 1) : Q[j] = P[j]
  BY <1>1, <1>2, <1>3, <1>4
<1>6. Q \in Passes /\ Len(Q) = n
  BY <1>1, <1>5, SeqDef DEF Passes
<1>7. Q # <<>>
  BY <1>1, <1>6, EmptySeq
<1>8. QED BY <1>3, <1>5, <1>6, <1>7 DEF n, Q

\* It is the last turn of the sides it has an entry of.
LEMMA TurnAdded ==
  ASSUME NEW P \in Passes, P # <<>>, NEW row \in Row,
         NEW s
  PROVE  /\ \A x : x \in TurnsIn(Extended(P, row), s) <=>
                     x \in TurnsIn(P, s) \/ (x = NextTurn(P) /\ row[s] # <<>>)
         /\ \A x \in TurnsIn(P, s) : /\ Extended(P, row)[x[1]][x[2]] = P[x[1]][x[2]]
                                     /\ Earlier(x, NextTurn(P)) /\ ~Earlier(NextTurn(P), x)
         /\ Extended(P, row)[NextTurn(P)[1]][NextTurn(P)[2]] = row
         /\ ~Earlier(NextTurn(P), NextTurn(P))
<1> DEFINE n == Len(P)
           Q == Extended(P, row)
           new == NextTurn(P)
           m == Len(P[n])
<1>1. /\ n \in Nat /\ n >= 1 /\ \A j \in 1..n : P[j] \in Seq(Row) /\ Len(P[j]) \in Nat
      /\ \A x : x \in TurnsIn(P, s) <=>
           \E j \in 1..n : \E k \in 1..Len(P[j]) :
             /\ x = <<j, k>> /\ (s \in Again => j = n)
             /\ P[j][k][s] # <<>>
  BY TurnsMean
<1>2. /\ Q \in Passes /\ Q # <<>> /\ Len(Q) = n
      /\ \A j \in 1..(n - 1) : Q[j] = P[j]
      /\ Len(Q[n]) = m + 1
      /\ \A k \in 1..m : Q[n][k] = P[n][k]
      /\ Q[n][m + 1] = row
  BY RowAdded
<1>3. \A x : x \in TurnsIn(Q, s) <=>
        \E j \in 1..n : \E k \in 1..Len(Q[j]) :
          /\ x = <<j, k>> /\ (s \in Again => j = n)
          /\ Q[j][k][s] # <<>>
  <2> DEFINE Turn(l, x) == \E j \in 1..l : \E k \in 1..Len(Q[j]) :
                             /\ x = <<j, k>> /\ (s \in Again => j = l)
                             /\ Q[j][k][s] # <<>>
  <2>1. \A x : x \in TurnsIn(Q, s) <=> Turn(Len(Q), x)
    BY <1>2, TurnsMean
  <2>2. Len(Q) = n
    BY <1>2
  <2> HIDE DEF Q, n, Turn
  <2>3. \A x : x \in TurnsIn(Q, s) <=> Turn(n, x)
    BY <2>1, <2>2
  <2>4. QED BY <2>3 DEF Turn
<1>4. m \in Nat /\ n \in 1..n /\ new = <<n, m + 1>> /\ new[1] = n /\ new[2] = m + 1
      /\ m = Len(P[n])
  BY <1>1 DEF NextTurn
<1> HIDE DEF n, m, Q, new
<1>5. ASSUME NEW j \in 1..n, NEW k \in 1..Len(P[j])
      PROVE  k \in 1..Len(Q[j]) /\ Q[j][k] = P[j][k]
  <2>1. CASE j = n
    BY <1>2, <1>4, <2>1
  <2>2. CASE j # n
    BY <1>1, <1>2, <2>2
  <2>3. QED BY <2>1, <2>2
<1>6. ASSUME NEW j \in 1..n, NEW k \in 1..Len(Q[j])
      PROVE  k \in 1..Len(P[j]) \/ (j = n /\ k = m + 1)
  <2>1. CASE j = n
    BY <1>2, <1>4, <2>1
  <2>2. CASE j # n
    BY <1>1, <1>2, <2>2
  <2>3. QED BY <2>1, <2>2
<1>7. ASSUME NEW x \in TurnsIn(P, s)
      PROVE  /\ x \in TurnsIn(Q, s) /\ Q[x[1]][x[2]] = P[x[1]][x[2]]
             /\ Earlier(x, new) /\ ~Earlier(new, x)
  <2>0. PICK j \in 1..n : \E k \in 1..Len(P[j]) :
          /\ x = <<j, k>> /\ (s \in Again => j = n) /\ P[j][k][s] # <<>>
    BY <1>1, <1>7
  <2>1. PICK k \in 1..Len(P[j]) :
          /\ x = <<j, k>> /\ (s \in Again => j = n) /\ P[j][k][s] # <<>>
    BY <2>0
  <2>2. k \in 1..Len(Q[j]) /\ Q[j][k] = P[j][k] /\ x[1] = j /\ x[2] = k
    BY <1>5, <2>1
  <2>3. x \in TurnsIn(Q, s)
    BY <1>3, <2>1, <2>2
  <2>4. Earlier(x, new) /\ ~Earlier(new, x)
    <3>1. j \in Nat /\ k \in Nat /\ j <= n /\ (j = n => k < m + 1)
      BY <1>1, <1>4
    <3>2. QED BY <1>4, <2>2, <3>1 DEF Earlier
  <2>5. QED BY <2>2, <2>3, <2>4
<1>8. ASSUME NEW x \in TurnsIn(Q, s), x \notin TurnsIn(P, s)
      PROVE  x = new /\ row[s] # <<>>
  <2>0. PICK j \in 1..n : \E k \in 1..Len(Q[j]) :
          /\ x = <<j, k>> /\ (s \in Again => j = n) /\ Q[j][k][s] # <<>>
    BY <1>3, <1>8
  <2>1. PICK k \in 1..Len(Q[j]) :
          /\ x = <<j, k>> /\ (s \in Again => j = n) /\ Q[j][k][s] # <<>>
    BY <2>0
  <2>2. k \notin 1..Len(P[j])
    BY <1>1, <1>5, <1>8, <2>1
  <2>3. j = n /\ k = m + 1
    BY <1>6, <2>1, <2>2
  <2>4. QED BY <1>2, <1>4, <2>1, <2>3
<1>9. ASSUME row[s] # <<>> PROVE new \in TurnsIn(Q, s)
  <2>1. m + 1 \in 1..Len(Q[n])
    BY <1>2, <1>4
  <2>2. QED BY <1>2, <1>3, <1>4, <1>9, <2>1
<1>10. ~Earlier(new, new)
  BY <1>4 DEF Earlier
<1>11. Q[new[1]][new[2]] = row
  BY <1>2, <1>4
<1>12. QED BY <1>7, <1>8, <1>9, <1>10, <1>11, Zenon DEF Q, new

\* A pass is begun: left and right have had no turn, a base has had those it had.
Begun(P) == Append(P, <<>>)

LEMMA PassBegun ==
  ASSUME NEW P \in Passes, P # <<>>, NEW s
  PROVE  /\ Begun(P) \in Passes /\ Begun(P) # <<>> /\ Len(Begun(P)) = Len(P) + 1
         /\ \A j \in 1..Len(P) : Begun(P)[j] = P[j]
         /\ Begun(P)[Len(P) + 1] = <<>> /\ Len(Begun(P)[Len(P) + 1]) = 0
         /\ s \in Again => TurnsIn(Begun(P), s) = {}
         /\ s \notin Again => \A x : x \in TurnsIn(Begun(P), s) <=> x \in TurnsIn(P, s)
         /\ \A x \in TurnsIn(P, s) : Begun(P)[x[1]][x[2]] = P[x[1]][x[2]]
<1> DEFINE n == Len(P)
           Q == Begun(P)
<1>1. /\ n \in Nat /\ n >= 1 /\ \A j \in 1..n : P[j] \in Seq(Row) /\ Len(P[j]) \in Nat
      /\ \A x : x \in TurnsIn(P, s) <=>
           \E j \in 1..n : \E k \in 1..Len(P[j]) :
             /\ x = <<j, k>> /\ (s \in Again => j = n)
             /\ P[j][k][s] # <<>>
  BY TurnsMean
<1> DEFINE empty == <<>>
<1>2. empty \in Seq(Row) /\ Len(empty) = 0
  BY EmptySeq
<1>3. Q = Append(P, empty)
  BY DEF Begun
<1> HIDE DEF empty, Q
<1>4. /\ Q \in Passes /\ Len(Q) = n + 1 /\ Q[n + 1] = empty
      /\ \A j \in 1..n : Q[j] = P[j]
  BY <1>2, <1>3, Appending DEF Passes
<1>5. Q # <<>>
  BY <1>1, <1>4, EmptySeq
<1>6. \A x : x \in TurnsIn(Q, s) <=>
        \E j \in 1..(n + 1) : \E k \in 1..Len(Q[j]) :
          /\ x = <<j, k>> /\ (s \in Again => j = n + 1)
          /\ Q[j][k][s] # <<>>
  <2> DEFINE Turn(l, x) == \E j \in 1..l : \E k \in 1..Len(Q[j]) :
                             /\ x = <<j, k>> /\ (s \in Again => j = l)
                             /\ Q[j][k][s] # <<>>
  <2>1. \A x : x \in TurnsIn(Q, s) <=> Turn(Len(Q), x)
    BY <1>4, <1>5, TurnsMean
  <2>2. QED BY <1>4, <2>1
<1>7. \A j \in 1..(n + 1) : \A k \in 1..Len(Q[j]) : j \in 1..n
  <2> SUFFICES ASSUME NEW j \in 1..(n + 1), j \notin 1..n, NEW k \in 1..Len(Q[j]) PROVE FALSE
    OBVIOUS
  <2>1. j = n + 1
    BY <1>1
  <2>2. QED BY <1>2, <1>4, <2>1
<1>8. ASSUME s \in Again PROVE TurnsIn(Q, s) = {}
  <2>1. n + 1 \notin 1..n
    BY <1>1
  <2>2. QED BY <1>6, <1>7, <1>8, <2>1
<1>9. ASSUME s \notin Again, NEW x PROVE x \in TurnsIn(Q, s) <=> x \in TurnsIn(P, s)
  <2>1. ASSUME x \in TurnsIn(Q, s) PROVE x \in TurnsIn(P, s)
    <3>0. PICK j \in 1..(n + 1) : \E k \in 1..Len(Q[j]) : x = <<j, k>> /\ Q[j][k][s] # <<>>
      BY <1>6, <2>1
    <3>1. PICK k \in 1..Len(Q[j]) : x = <<j, k>> /\ Q[j][k][s] # <<>>
      BY <3>0
    <3>2. j \in 1..n /\ Q[j] = P[j]
      BY <1>4, <1>7, <3>1
    <3>3. k \in 1..Len(P[j]) /\ P[j][k][s] # <<>>
      BY <3>1, <3>2
    <3>4. QED BY <1>1, <1>9, <3>1, <3>2, <3>3
  <2>2. ASSUME x \in TurnsIn(P, s) PROVE x \in TurnsIn(Q, s)
    <3>0. PICK j \in 1..n : \E k \in 1..Len(P[j]) : x = <<j, k>> /\ P[j][k][s] # <<>>
      BY <1>1, <2>2
    <3>1. PICK k \in 1..Len(P[j]) : x = <<j, k>> /\ P[j][k][s] # <<>>
      BY <3>0
    <3>2. j \in 1..(n + 1) /\ k \in 1..Len(Q[j]) /\ Q[j][k][s] # <<>>
      BY <1>1, <1>4, <3>1
    <3>3. QED BY <1>6, <1>9, <3>1, <3>2
  <2>3. QED BY <2>1, <2>2
<1>10. ASSUME NEW x \in TurnsIn(P, s) PROVE Q[x[1]][x[2]] = P[x[1]][x[2]]
  <2>0. PICK j \in 1..n : \E k \in 1..Len(P[j]) : x = <<j, k>>
    BY <1>1
  <2>1. PICK k \in 1..Len(P[j]) : x = <<j, k>>
    BY <2>0
  <2>2. QED BY <1>4, <2>1
<1>11. QED BY <1>2, <1>4, <1>5, <1>8, <1>9, <1>10 DEF empty, Q

-----------------------------------------------------------------------------
(***************************************************************************)
(* A side: what of its tree has been reported, and where its chain is.     *)
(***************************************************************************)

Here(w) == Position(Current(w))

\* Every entry has been reported or is to come, and the former precede the latter.
Idle(t, R, w) ==
  /\ Chain(t, w)
  /\ R \subseteq Listed(t)
  /\ Listed(t) \subseteq R \cup ToCome(t, w)
  /\ \A q \in R, u \in ToCome(t, w) : Precedes(q, u)

\* One that MoveNext has found is between them.
Come(t, R, w) ==
  /\ Chain(t, w)
  /\ Here(w) \in Listed(t)
  /\ At(t, Here(w)) = Entry(Current(w)) /\ Entry(Current(w)).key \in Int
  /\ R \subseteq Listed(t)
  /\ Listed(t) \subseteq R \cup {Here(w)} \cup ToCome(t, w)
  /\ \A q \in R : Precedes(q, Here(w))
  /\ \A q \in R \cup {Here(w)}, u \in ToCome(t, w) : Precedes(q, u)

\* A side that is asked has come to its next entry, unless that is lost or there is none.
LEMMA SideAsked ==
  ASSUME NEW t \in Root, NEW R, NEW w, Idle(t, R, w)
  PROVE  /\ Unfinished(w) # {} /\ ~Throws(w) => /\ Come(t, R, Advanced(w))
                                                /\ Here(Advanced(w)) \in ToCome(t, w)
         /\ Unfinished(w) = {} \/ Throws(w) => Idle(t, R, Advanced(w))
         /\ ToCome(t, Advanced(w)) \subseteq ToCome(t, w)
         /\ Unfinished(w) = {} => ToCome(t, Advanced(w)) = {} /\ ToCome(t, w) = {}
<1> DEFINE u == Advanced(w)
           v == Moved(w)
           p == Position(v)
<1>1. CASE Unfinished(w) = {}
  <2>1. Chain(t, u) /\ ToCome(t, u) = {} /\ ToCome(t, w) = {}
    BY <1>1, FinishedMeans DEF Idle
  <2> HIDE DEF u
  <2>2. Idle(t, R, u)
    BY <2>1 DEF Idle
  <2>3. ~Throws(w)
    BY <1>1 DEF Throws
  <2>4. QED BY <1>1, <2>1, <2>2, <2>3 DEF u
<1>2. CASE Unfinished(w) # {}
  <2>1. /\ Chain(t, u) /\ Current(u) = v
        /\ p \in Place /\ Leads(t, p) /\ At(t, p) = Entry(v)
        /\ Entry(v).key \in Int
        /\ p \in ToCome(t, w)
        /\ ToCome(t, u) \subseteq ToCome(t, w)
        /\ ToCome(t, w) \subseteq ToCome(t, u) \cup {p}
        /\ \A q \in ToCome(t, u) : Precedes(p, q)
    BY <1>2, AdvancedMeans DEF Idle
  <2>2. Throws(w) <=> Entry(v).kind = "lost"
    BY <1>2 DEF Throws
  <2>3. Here(u) = p
    BY <2>1 DEF Here
  <2> HIDE DEF u, v, p
  <2>4. CASE Throws(w)
    <3>1. p \notin Listed(t)
      BY <2>1, <2>2, <2>4 DEF Listed
    <3>2. Listed(t) \subseteq R \cup ToCome(t, u)
      BY <2>1, <3>1 DEF Idle
    <3>3. Idle(t, R, u)
      BY <2>1, <3>2 DEF Idle
    <3>4. QED BY <1>2, <2>1, <2>4, <3>3 DEF u
  <2>5. CASE ~Throws(w)
    <3>1. p \in Listed(t)
      BY <2>1, <2>2, <2>5 DEF Listed
    <3>2. R \subseteq Listed(t) /\ Listed(t) \subseteq R \cup {p} \cup ToCome(t, u)
      BY <2>1 DEF Idle
    <3>3. \A q \in R : Precedes(q, p)
      BY <2>1 DEF Idle
    <3>4. \A q \in R \cup {p}, x \in ToCome(t, u) : Precedes(q, x)
      BY <2>1 DEF Idle
    <3>5. Come(t, R, u)
      BY <2>1, <2>3, <3>1, <3>2, <3>3, <3>4 DEF Come
    <3>6. QED BY <1>2, <2>1, <2>3, <2>5, <3>5 DEF u
  <2>6. QED BY <2>4, <2>5
<1>3. QED BY <1>1, <1>2

\* A side that a row is made of.
LEMMA SideTaken ==
  ASSUME NEW t \in Root, NEW R, NEW w, Come(t, R, w)
  PROVE  Idle(t, R \cup {Here(w)}, w)
BY DEF Come, Idle

LEMMA SideStarts ==
  ASSUME NEW t \in Root
  PROVE  Idle(t, {}, <<Walker(t)>>)
<1>1. Chain(t, <<Walker(t)>>) /\ Listed(t) \subseteq ToCome(t, <<Walker(t)>>)
  BY StartMeans
<1>2. QED BY <1>1 DEF Idle

-----------------------------------------------------------------------------
(***************************************************************************)
(* The invariant.                                                          *)
(***************************************************************************)

Reported(P, s) == {P[x[1]][x[2]][s] : x \in TurnsIn(P, s)}
Ordered(P, s) == \A x, y \in TurnsIn(P, s) :
  Earlier(x, y) => Precedes(P[x[1]][x[2]][s], P[y[1]][y[2]][s])

Typed == /\ three \in BOOLEAN /\ tree \in Input
         /\ have \subseteq Sides
         /\ passes \in Passes /\ passes # <<>>
         /\ ended \in BOOLEAN
Chains == \A s \in Side : Chain(tree[s], walker[s])
Rows == \A j \in DOMAIN passes : \A k \in DOMAIN passes[j] :
          \E s \in Sides : passes[j][k][s] # <<>>
Halfway == \A s \in Sides :
  /\ s \in have => Come(tree[s], Reported(passes, s), walker[s])
  /\ s \notin have => Idle(tree[s], Reported(passes, s), walker[s])
InOrder == \A s \in Sides : Ordered(passes, s)
Done == ended => /\ have = {}
                 /\ \A s \in Sides : ToCome(tree[s], walker[s]) = {}

DiffInv == Typed /\ Chains /\ Rows /\ Halfway /\ InOrder /\ Done

LEMMA SidesMean ==
  ASSUME Typed
  PROVE  /\ Sides \subseteq Side /\ {"left", "right"} \subseteq Sides /\ Again \subseteq Sides
         /\ \A s \in Side : tree[s] \in Root
         /\ \A s : Turns(s) = TurnsIn(passes, s)
<1>1. Sides \subseteq Side /\ {"left", "right"} \subseteq Sides /\ Again \subseteq Sides
  BY DEF Sides, Side, Again
<1>2. \A s \in Side : tree[s] \in Root
  BY DEF Typed, Root
<1>3. \A s : Turns(s) = TurnsIn(passes, s)
  BY DEF Turns, TurnsIn, Since, RowsOf
<1>4. QED BY <1>1, <1>2, <1>3

LEMMA DiffInit == Init => DiffInv
<1> SUFFICES ASSUME Init PROVE DiffInv
  OBVIOUS
<1>1. /\ three \in BOOLEAN /\ tree \in Input /\ have = {} /\ passes = << <<>> >>
      /\ ended = FALSE /\ \A s \in Side : walker[s] = <<Walker(tree[s])>>
  BY DEF Init
<1>2. Typed
  <2> DEFINE empty == <<>>
  <2>1. empty \in Seq(Row)
    BY EmptySeq
  <2>2. passes = <<empty>>
    BY <1>1
  <2> HIDE DEF empty
  <2>3. passes \in Passes /\ passes # <<>>
    BY <2>1, <2>2 DEF Passes
  <2>4. QED BY <1>1, <2>3 DEF Typed
<1>3. /\ Sides \subseteq Side /\ \A s \in Side : tree[s] \in Root
  BY <1>2, SidesMean
<1>4. DOMAIN passes = {1} /\ DOMAIN passes[1] = {} /\ Len(passes) = 1 /\ Len(passes[1]) = 0
  BY <1>1
<1>5. \A s \in Side : TurnsIn(passes, s) = {}
  <2> SUFFICES ASSUME NEW s \in Side, NEW x \in TurnsIn(passes, s) PROVE FALSE
    OBVIOUS
  <2>1. \E j \in 1..Len(passes) : \E k \in 1..Len(passes[j]) : x = <<j, k>>
    BY <1>2, TurnsMean DEF Typed
  <2>2. QED BY <1>4, <2>1
<1>6. Rows
  BY <1>4 DEF Rows
<1>7. \A s \in Side : Idle(tree[s], {}, walker[s])
  BY <1>1, <1>3, SideStarts
<1>8. Chains
  BY <1>7 DEF Chains, Idle
<1>9. \A s \in Sides : Reported(passes, s) = {}
  BY <1>3, <1>5 DEF Reported
<1>10. Halfway
  BY <1>1, <1>3, <1>7, <1>9 DEF Halfway
<1>11. InOrder
  BY <1>3, <1>5 DEF InOrder, Ordered
<1>12. QED BY <1>1, <1>2, <1>6, <1>8, <1>10, <1>11 DEF DiffInv, Done

-----------------------------------------------------------------------------
(***************************************************************************)
(* The steps.                                                              *)
(***************************************************************************)

\* What asking the sides makes of each.
LEMMA Asking ==
  ASSUME DiffInv, NEW s \in Sides
  PROVE  /\ s \in Had => Come(tree[s], Reported(passes, s), Walked[s])
         /\ s \notin Had => Idle(tree[s], Reported(passes, s), Walked[s])
         /\ ToCome(tree[s], Walked[s]) \subseteq ToCome(tree[s], walker[s])
         /\ s \in Had => \/ s \in have /\ Walked[s] = walker[s]
                         \/ Here(Walked[s]) \in ToCome(tree[s], walker[s])
         /\ s \in have => s \in Had
         /\ Lost = {} /\ s \notin Had => ToCome(tree[s], Walked[s]) = {}
<1> DEFINE R == Reported(passes, s)
<1>1. s \in Side /\ tree[s] \in Root
  BY SidesMean DEF DiffInv
<1>2. /\ s \in have => Come(tree[s], R, walker[s])
      /\ s \notin have => Idle(tree[s], R, walker[s])
  BY DEF DiffInv, Halfway
<1>3. /\ s \in Asked => s \notin have /\ Walked[s] = Advanced(walker[s])
      /\ s \notin Asked => Walked[s] = walker[s]
  BY <1>1 DEF Asked, Walked
<1>4. /\ s \in Lost <=> s \notin have /\ Throws(walker[s])
      /\ s \in Had <=> s \in have \/ (s \in Asked /\ s \notin Lost /\ Unfinished(walker[s]) # {})
  BY DEF Lost, Had, Asked
<1> HIDE DEF R
<1>5. CASE s \notin Asked
  <2>1. Lost # {} \/ s \in have
    BY <1>5 DEF Asked
  <2>2. QED BY <1>2, <1>3, <1>4, <1>5, <2>1 DEF R
<1>6. CASE s \in Asked
  <2>1. Idle(tree[s], R, walker[s])
    BY <1>2, <1>3, <1>6
  <2>2. /\ Unfinished(walker[s]) # {} /\ ~Throws(walker[s]) =>
             /\ Come(tree[s], R, Advanced(walker[s]))
             /\ Here(Advanced(walker[s])) \in ToCome(tree[s], walker[s])
        /\ Unfinished(walker[s]) = {} \/ Throws(walker[s]) =>
             Idle(tree[s], R, Advanced(walker[s]))
        /\ ToCome(tree[s], Advanced(walker[s])) \subseteq ToCome(tree[s], walker[s])
        /\ Unfinished(walker[s]) = {} => ToCome(tree[s], Advanced(walker[s])) = {}
    BY <1>1, <2>1, SideAsked
  <2>3. QED BY <1>3, <1>4, <1>6, <2>2 DEF R
<1>7. QED BY <1>5, <1>6

LEMMA AskingChains ==
  ASSUME DiffInv
  PROVE  \A s \in Side : Chain(tree[s], Walked[s])
<1> SUFFICES ASSUME NEW s \in Side PROVE Chain(tree[s], Walked[s])
  OBVIOUS
<1>1. CASE s \in Sides
  BY <1>1, Asking DEF Come, Idle
<1>2. CASE s \notin Sides
  <2>1. s \notin Asked
    BY <1>2 DEF Asked
  <2>2. Walked[s] = walker[s]
    BY <2>1 DEF Walked
  <2>3. QED BY <2>2 DEF DiffInv, Chains
<1>3. QED BY <1>1, <1>2

LEMMA HadMeans ==
  ASSUME DiffInv
  PROVE  Had \subseteq Sides /\ Had \in SUBSET Side /\ have \subseteq Had
BY SidesMean DEF Had, Asked, DiffInv, Typed

LEMMA StepThrows ==
  ASSUME DiffInv, MoveNextThrows
  PROVE  DiffInv'
<1>1. /\ UNCHANGED <<three, tree, passes, ended>> /\ walker' = Walked /\ have' = Had
      /\ ~ended /\ Sides' = Sides
  BY DEF MoveNextThrows, Sides
<1>2. Typed'
  BY <1>1, HadMeans DEF DiffInv, Typed
<1>3. Chains'
  BY <1>1, AskingChains DEF Chains
<1>4. Rows' /\ InOrder'
  BY <1>1 DEF DiffInv, Rows, InOrder
<1>5. Halfway'
  BY <1>1, Asking DEF Halfway
<1>6. QED BY <1>1, <1>2, <1>3, <1>4, <1>5 DEF DiffInv, Done

LEMMA StepEnds ==
  ASSUME DiffInv, MoveNextEnds
  PROVE  DiffInv'
<1>1. /\ UNCHANGED <<three, tree, passes, have>> /\ walker' = Walked /\ ended' = TRUE
      /\ Lost = {} /\ Had = {} /\ Sides' = Sides
  BY DEF MoveNextEnds, Sides
<1>2. have = {}
  BY <1>1, HadMeans
<1>3. Typed'
  BY <1>1 DEF DiffInv, Typed
<1>4. Chains'
  BY <1>1, AskingChains DEF Chains
<1>5. Rows' /\ InOrder'
  BY <1>1 DEF DiffInv, Rows, InOrder
<1>6. Halfway'
  BY <1>1, <1>2, Asking DEF Halfway
<1>7. Done'
  BY <1>1, <1>2, Asking DEF Done
<1>8. QED BY <1>3, <1>4, <1>5, <1>6, <1>7 DEF DiffInv

\* The row that MoveNext reports: the entries it has found, where they are the least.
KeysFound == [s \in Had |-> Entry(Current(Walked[s])).key]
Taken == WithBase(Had, KeysFound)
RowFound == [s \in Side |-> IF s \in Taken THEN Here(Walked[s]) ELSE <<>>]

LEMMA MoveNextMeans ==
  ASSUME DiffInv, MoveNext
  PROVE  /\ UNCHANGED <<three, tree, ended>> /\ ~ended /\ Lost = {} /\ Had # {}
         /\ walker' = Walked
         /\ have' = Had \ Taken
         /\ passes' = Extended(passes, RowFound)
         /\ KeysFound \in [Had -> Int]
         /\ Taken = Least(Had, KeysFound) /\ Taken # {} /\ Taken \subseteq Had
         /\ RowFound \in Row
         /\ \A s \in Taken : RowFound[s] = Here(Walked[s]) /\ RowFound[s] # <<>>
         /\ \A s \in Side \ Taken : RowFound[s] = <<>>
<1>1. /\ UNCHANGED <<three, tree, ended>> /\ ~ended /\ Lost = {} /\ Had # {}
      /\ walker' = Walked
      /\ have' = Had \ WithBase(Had, [s \in Had |-> Entry(Current(walker'[s])).key])
  BY DEF MoveNext
<1>2. have' = Had \ Taken
  BY <1>1 DEF Taken, KeysFound
<1>3. \A s \in Had : Come(tree[s], Reported(passes, s), Walked[s]) /\ s \in Side
                     /\ tree[s] \in Root
  BY Asking, HadMeans, SidesMean DEF DiffInv
<1>4. KeysFound \in [Had -> Int]
  BY <1>3 DEF KeysFound, Come
<1>5. Taken = Least(Had, KeysFound) /\ Taken # {} /\ Taken \subseteq Had
  <2>1. Taken = Least(Had, KeysFound)
    BY <1>4, HadMeans, TakenAreLeast DEF Taken
  <2>2. Taken # {}
    BY <1>1, <1>4, HadMeans, SomethingIsTaken DEF Taken
  <2>3. QED BY <2>1, <2>2 DEF Least
<1>6. \A s \in Had : Here(Walked[s]) \in Seq(Nat) /\ Here(Walked[s]) # <<>>
  BY <1>3, PlaceMeans DEF Come, Listed
<1>7. RowFound \in Row
  <2> DEFINE empty == <<>>
  <2>1. empty \in Seq(Nat)
    BY EmptySeq
  <2>2. \A s \in Side : (IF s \in Taken THEN Here(Walked[s]) ELSE empty) \in Seq(Nat)
    BY <1>5, <1>6, <2>1
  <2>3. QED BY <2>2 DEF RowFound, Row
<1>8. passes' = Extended(passes, RowFound)
  <2> DEFINE row == [s \in Side |-> IF s \in Had \ have'
                                    THEN Position(Current(walker'[s])) ELSE <<>>]
  <2>1. passes' = [passes EXCEPT ![Len(passes)] = Append(@, row)]
    BY DEF MoveNext
  <2>2. Had \ have' = Taken
    BY <1>2, <1>5
  <2>3. row = RowFound
    BY <1>1, <2>2 DEF RowFound, Here
  <2> HIDE DEF row
  <2>4. QED BY <2>1, <2>3 DEF Extended
<1>9. \A s \in Taken : RowFound[s] = Here(Walked[s]) /\ RowFound[s] # <<>>
  BY <1>3, <1>5, <1>6 DEF RowFound
<1>10. \A s \in Side \ Taken : RowFound[s] = <<>>
  BY DEF RowFound
<1>11. QED BY <1>1, <1>2, <1>4, <1>5, <1>7, <1>8, <1>9, <1>10

\* What has been reported of a side after a row.
LEMMA ReportedAfterRow ==
  ASSUME NEW P \in Passes, P # <<>>, NEW row \in Row, NEW s
  PROVE  /\ row[s] # <<>> => Reported(Extended(P, row), s) = Reported(P, s) \cup {row[s]}
         /\ row[s] = <<>> => Reported(Extended(P, row), s) = Reported(P, s)
         /\ Ordered(P, s) /\ (row[s] # <<>> => \A q \in Reported(P, s) : Precedes(q, row[s])) =>
              Ordered(Extended(P, row), s)
<1> DEFINE Q == Extended(P, row)
           new == NextTurn(P)
<1>1. /\ \A x : x \in TurnsIn(Q, s) <=> x \in TurnsIn(P, s) \/ (x = new /\ row[s] # <<>>)
      /\ \A x \in TurnsIn(P, s) : /\ Q[x[1]][x[2]] = P[x[1]][x[2]]
                                  /\ Earlier(x, new) /\ ~Earlier(new, x)
      /\ Q[new[1]][new[2]] = row
      /\ ~Earlier(new, new)
  BY TurnAdded
<1> HIDE DEF Q, new
<1>2. \A x \in TurnsIn(P, s) : Q[x[1]][x[2]][s] = P[x[1]][x[2]][s]
                               /\ P[x[1]][x[2]][s] \in Reported(P, s)
  BY <1>1 DEF Reported
<1>3. Q[new[1]][new[2]][s] = row[s]
  BY <1>1
<1>4. ASSUME row[s] # <<>> PROVE Reported(Q, s) = Reported(P, s) \cup {row[s]}
  <2>1. \A y : y \in Reported(Q, s) <=> \E x \in TurnsIn(Q, s) : y = Q[x[1]][x[2]][s]
    BY DEF Reported
  <2>2. \A y : y \in Reported(P, s) <=> \E x \in TurnsIn(P, s) : y = P[x[1]][x[2]][s]
    BY DEF Reported
  <2>3. QED BY <1>1, <1>2, <1>3, <1>4, <2>1, <2>2
<1>5. ASSUME row[s] = <<>> PROVE Reported(Q, s) = Reported(P, s)
  <2>1. TurnsIn(Q, s) = TurnsIn(P, s)
    BY <1>1, <1>5
  <2>2. \A y : y \in Reported(Q, s) <=> y \in Reported(P, s)
    BY <1>2, <2>1 DEF Reported
  <2>3. QED BY <2>2
<1>6. ASSUME Ordered(P, s), row[s] # <<>> => \A q \in Reported(P, s) : Precedes(q, row[s])
      PROVE  Ordered(Q, s)
  <2> SUFFICES ASSUME NEW x \in TurnsIn(Q, s), NEW y \in TurnsIn(Q, s), Earlier(x, y)
               PROVE  Precedes(Q[x[1]][x[2]][s], Q[y[1]][y[2]][s])
    BY DEF Ordered
  <2>1. CASE x \in TurnsIn(P, s) /\ y \in TurnsIn(P, s)
    BY <1>2, <1>6, <2>1 DEF Ordered
  <2>2. CASE x \in TurnsIn(P, s) /\ y = new /\ row[s] # <<>>
    BY <1>2, <1>3, <1>6, <2>2
  <2>3. CASE x = new
    BY <1>1, <2>3
  <2>4. QED BY <1>1, <2>1, <2>2, <2>3
<1>7. QED BY <1>4, <1>5, <1>6 DEF Q

LEMMA StepMoves ==
  ASSUME DiffInv, MoveNext
  PROVE  DiffInv'
<1>1. /\ UNCHANGED <<three, tree, ended>> /\ ~ended /\ Lost = {} /\ Had # {}
      /\ walker' = Walked
      /\ have' = Had \ Taken
      /\ passes' = Extended(passes, RowFound)
      /\ Taken # {} /\ Taken \subseteq Had
      /\ RowFound \in Row
      /\ \A s \in Taken : RowFound[s] = Here(Walked[s]) /\ RowFound[s] # <<>>
      /\ \A s \in Side \ Taken : RowFound[s] = <<>>
  BY MoveNextMeans
<1>2. Sides' = Sides /\ Sides \subseteq Side /\ \A s \in Side : tree[s] \in Root
  BY <1>1, SidesMean DEF DiffInv, Sides
<1>3. passes \in Passes /\ passes # <<>>
  BY DEF DiffInv, Typed
<1>4. Typed'
  <2>1. passes' \in Passes /\ passes' # <<>>
    BY <1>1, <1>3, RowAdded
  <2>2. QED BY <1>1, <1>2, <2>1, HadMeans DEF DiffInv, Typed
<1>5. Chains'
  BY <1>1, AskingChains DEF Chains
<1>6. Rows'
  <2> DEFINE n == Len(passes)
             m == Len(passes[n])
  <2>1. /\ n \in Nat /\ DOMAIN passes = 1..n
        /\ \A j \in 1..n : Len(passes[j]) \in Nat /\ DOMAIN passes[j] = 1..Len(passes[j])
    BY <1>3, TurnsMean
  <2>2. /\ passes' \in Passes /\ passes' # <<>> /\ Len(passes') = n
        /\ \A j \in 1..(n - 1) : passes'[j] = passes[j]
        /\ Len(passes'[n]) = m + 1
        /\ \A k \in 1..m : passes'[n][k] = passes[n][k]
        /\ passes'[n][m + 1] = RowFound
    BY <1>1, <1>3, RowAdded
  <2>3. /\ DOMAIN passes' = 1..n
        /\ \A j \in 1..n : DOMAIN passes'[j] = 1..Len(passes'[j])
    BY <2>2, TurnsMean
  <2>4. \E s \in Sides : RowFound[s] # <<>>
    BY <1>1, HadMeans
  <2> HIDE DEF n, m
  <2>5. ASSUME NEW j \in 1..n, NEW k \in 1..Len(passes'[j])
        PROVE  \E s \in Sides : passes'[j][k][s] # <<>>
    <3>1. CASE j \in 1..(n - 1)
      <4>1. k \in DOMAIN passes[j] /\ j \in DOMAIN passes /\ passes'[j][k] = passes[j][k]
        BY <2>1, <2>2, <3>1
      <4>2. QED BY <4>1 DEF DiffInv, Rows
    <3>2. CASE j = n /\ k \in 1..m
      <4>1. k \in DOMAIN passes[j] /\ j \in DOMAIN passes /\ passes'[j][k] = passes[j][k]
        BY <2>1, <2>2, <3>2 DEF m
      <4>2. QED BY <4>1 DEF DiffInv, Rows
    <3>3. CASE j = n /\ k = m + 1
      BY <2>2, <2>4, <3>3
    <3>4. m \in Nat
      <4>1. n \in 1..n
        BY <1>3, TurnsMean DEF n
      <4>2. QED BY <2>1, <4>1 DEF m
    <3>5. QED BY <2>1, <2>2, <3>1, <3>2, <3>3, <3>4
  <2>6. QED BY <1>2, <2>3, <2>5 DEF Rows
<1>7. ASSUME NEW s \in Sides
      PROVE  /\ s \in have' => Come(tree[s], Reported(passes', s), walker'[s])
             /\ s \notin have' => Idle(tree[s], Reported(passes', s), walker'[s])
             /\ Ordered(passes', s)
  <2>1. Ordered(passes, s)
    BY DEF DiffInv, InOrder
  <2>2. CASE s \in Taken
    <3>1. Come(tree[s], Reported(passes, s), Walked[s])
      BY <1>1, <2>2, Asking
    <3>2. Idle(tree[s], Reported(passes, s) \cup {RowFound[s]}, Walked[s])
      BY <1>1, <1>2, <2>2, <3>1, SideTaken
    <3>3. Reported(passes', s) = Reported(passes, s) \cup {RowFound[s]}
      BY <1>1, <1>3, <2>2, ReportedAfterRow
    <3>4. \A q \in Reported(passes, s) : Precedes(q, RowFound[s])
      BY <1>1, <2>2, <3>1 DEF Come
    <3>5. Ordered(passes', s)
      BY <1>1, <1>3, <2>1, <3>4, ReportedAfterRow
    <3>6. s \notin have'
      BY <1>1, <2>2
    <3>7. QED BY <1>1, <3>2, <3>3, <3>5, <3>6
  <2>3. CASE s \notin Taken
    <3>1. RowFound[s] = <<>>
      BY <1>1, <1>2, <2>3
    <3>2. Reported(passes', s) = Reported(passes, s) /\ Ordered(passes', s)
      BY <1>1, <1>3, <2>1, <3>1, ReportedAfterRow
    <3>3. s \in have' <=> s \in Had
      BY <1>1, <2>3
    <3>4. QED BY <1>1, <3>2, <3>3, Asking
  <2>4. QED BY <2>2, <2>3
<1>8. Halfway' /\ InOrder'
  BY <1>1, <1>2, <1>7 DEF Halfway, InOrder
<1>9. QED BY <1>1, <1>4, <1>5, <1>6, <1>8 DEF DiffInv, Done

LEMMA StepResets ==
  ASSUME DiffInv, Reset
  PROVE  DiffInv'
<1>1. /\ UNCHANGED <<three, tree>> /\ ended' = FALSE
      /\ walker' = [s \in Side |-> IF s \in Again THEN <<Walker(tree[s])>> ELSE walker[s]]
      /\ have' = have \ Again
      /\ passes' = Begun(passes)
  BY DEF Reset, Begun
<1>2. Sides' = Sides /\ Sides \subseteq Side /\ \A s \in Side : tree[s] \in Root
  BY <1>1, SidesMean DEF DiffInv, Sides
<1>3. passes \in Passes /\ passes # <<>>
  BY DEF DiffInv, Typed
<1>4. ASSUME NEW s
      PROVE
        /\ passes' \in Passes /\ passes' # <<>> /\ Len(passes') = Len(passes) + 1
        /\ \A j \in 1..Len(passes) : passes'[j] = passes[j]
        /\ passes'[Len(passes) + 1] = <<>> /\ Len(passes'[Len(passes) + 1]) = 0
        /\ s \in Again => TurnsIn(passes', s) = {}
        /\ s \notin Again => \A x : x \in TurnsIn(passes', s) <=> x \in TurnsIn(passes, s)
        /\ \A x \in TurnsIn(passes, s) : passes'[x[1]][x[2]] = passes[x[1]][x[2]]
  BY <1>1, <1>3, PassBegun
<1>5. Typed'
  BY <1>1, <1>2, <1>4 DEF DiffInv, Typed
<1>6. \A s \in Side : s \in Again => Idle(tree[s], {}, walker'[s])
  BY <1>1, <1>2, SideStarts
<1>7. Chains'
  BY <1>1, <1>6 DEF DiffInv, Chains, Idle
<1>8. Rows'
  <2>1. /\ Len(passes) \in Nat /\ DOMAIN passes = 1..Len(passes)
    BY <1>3, TurnsMean
  <2>2. /\ DOMAIN passes' = 1..(Len(passes) + 1)
        /\ DOMAIN passes'[Len(passes) + 1] = {}
    <3>1. passes' \in Passes /\ passes' # <<>>
      BY <1>4
    <3>3. /\ DOMAIN passes' = 1..Len(passes')
          /\ \A j \in 1..Len(passes') : DOMAIN passes'[j] = 1..Len(passes'[j])
      BY <3>1, TurnsMean
    <3>4. Len(passes') = Len(passes) + 1 /\ Len(passes'[Len(passes) + 1]) = 0
      BY <1>4
    <3> DEFINE n == Len(passes) + 1
               pass == passes'[n]
    <3>5. n \in 1..Len(passes') /\ Len(pass) = 0 /\ DOMAIN passes' = 1..n
      BY <2>1, <3>3, <3>4
    <3> HIDE DEF n
    <3>6. DOMAIN pass = 1..Len(pass)
      BY <3>3, <3>5
    <3> HIDE DEF pass
    <3>7. DOMAIN pass = {}
      BY <3>5, <3>6
    <3>8. QED BY <3>5, <3>7 DEF n, pass
  <2>3. \A j \in DOMAIN passes' : j \in DOMAIN passes \/ DOMAIN passes'[j] = {}
    BY <2>1, <2>2
  <2>4. QED BY <1>2, <1>4, <2>1, <2>3 DEF DiffInv, Rows
<1>9. ASSUME NEW s \in Sides
      PROVE  /\ s \in have' => Come(tree[s], Reported(passes', s), walker'[s])
             /\ s \notin have' => Idle(tree[s], Reported(passes', s), walker'[s])
             /\ Ordered(passes', s)
  <2>1. Ordered(passes, s)
    BY DEF DiffInv, InOrder
  <2>2. CASE s \in Again
    <3>1. TurnsIn(passes', s) = {}
      BY <1>4, <2>2
    <3>2. Reported(passes', s) = {} /\ Ordered(passes', s)
      BY <3>1 DEF Reported, Ordered
    <3>3. s \notin have'
      BY <1>1, <2>2
    <3>4. QED BY <1>2, <1>6, <2>2, <3>2, <3>3
  <2>3. CASE s \notin Again
    <3>1. TurnsIn(passes', s) = TurnsIn(passes, s)
      BY <1>4, <2>3
    <3>2. \A x \in TurnsIn(passes, s) : passes'[x[1]][x[2]] = passes[x[1]][x[2]]
      BY <1>4
    <3>3. \A y : y \in Reported(passes', s) <=> y \in Reported(passes, s)
      BY <3>1, <3>2 DEF Reported
    <3>4. Reported(passes', s) = Reported(passes, s)
      BY <3>3
    <3>5. Ordered(passes', s)
      BY <2>1, <3>1, <3>2 DEF Ordered
    <3>6. walker'[s] = walker[s] /\ (s \in have' <=> s \in have)
      BY <1>1, <1>2, <2>3
    <3>7. QED BY <3>4, <3>5, <3>6 DEF DiffInv, Halfway
  <2>4. QED BY <2>2, <2>3
<1>10. Halfway' /\ InOrder'
  BY <1>1, <1>2, <1>9 DEF Halfway, InOrder
<1>11. QED BY <1>1, <1>5, <1>7, <1>8, <1>10 DEF DiffInv, Done

LEMMA DiffStep == DiffInv /\ [Next]_vars => DiffInv'
<1> SUFFICES ASSUME DiffInv, [Next]_vars PROVE DiffInv'
  OBVIOUS
<1>1. CASE UNCHANGED vars
  BY <1>1 DEF vars, DiffInv, Typed, Chains, Rows, Halfway, InOrder, Done, Sides
<1>2. QED BY <1>1, StepThrows, StepEnds, StepMoves, StepResets DEF Next, Forward

-----------------------------------------------------------------------------
(***************************************************************************)
(* What follows from it.                                                   *)
(***************************************************************************)

\* Every walker of every chain is inside its directory, and a row has an entry of some
\* side: MoveNext never answers with nothing.
THEOREM TypeCorrect == Spec => []TypeOK
<1>1. DiffInv => TypeOK
  <2> SUFFICES ASSUME DiffInv PROVE TypeOK
    OBVIOUS
  <2>1. ASSUME NEW s \in Side, NEW j \in DOMAIN walker[s]
        PROVE  walker[s] # <<>> /\ walker[s][j].at \in 0..Len(walker[s][j].dir)
    <3>1. Chain(tree[s], walker[s])
      BY DEF DiffInv, Chains
    <3>2. /\ DOMAIN walker[s] = 1..Len(walker[s]) /\ walker[s] # <<>>
          /\ \A i \in 1..Len(walker[s]) : /\ walker[s][i].dir \in Directory
                                          /\ walker[s][i].at \in Nat
      BY <3>1, ChainMeans
    <3>3. walker[s][j].at <= Len(walker[s][j].dir) /\ Len(walker[s][j].dir) \in Nat
      BY <2>1, <3>1, <3>2, DirectoryMeans DEF Chain
    <3>4. QED BY <2>1, <3>2, <3>3
  <2>2. \A s \in Side : walker[s] # <<>>
    BY ChainMeans DEF DiffInv, Chains
  <2>3. \A pass \in ToSet(passes) : \A row \in ToSet(pass) : \E s \in Sides : row[s] # <<>>
    BY DEF DiffInv, Rows, ToSet
  <2>4. QED BY <2>1, <2>2, <2>3 DEF TypeOK, DiffInv, Typed
<1>2. QED BY DiffInit, DiffStep, <1>1, PTL DEF Spec

\* Whatever the trees are and wherever subtrees are lost: the enumeration reports every
\* other entry of every side once, a directory before what is in it.
THEOREM EveryEntryOnce == Spec => []EachOnce
<1>1. DiffInv => EachOnce
  <2> SUFFICES ASSUME DiffInv, NEW s \in Sides
               PROVE  /\ \A x, y \in Turns(s) :
                           Earlier(x, y) => Precedes(Came(s, x), Came(s, y))
                      /\ ended => {Came(s, x) : x \in Turns(s)} = Listed(tree[s])
    BY DEF EachOnce
  <2>1. Turns(s) = TurnsIn(passes, s)
    BY SidesMean DEF DiffInv
  <2>2. \A x \in Turns(s) : Came(s, x) = passes[x[1]][x[2]][s]
    BY DEF Came
  <2>3. {Came(s, x) : x \in Turns(s)} = Reported(passes, s)
    BY <2>1, <2>2 DEF Reported
  <2>4. Ordered(passes, s)
    BY DEF DiffInv, InOrder
  <2>5. ended => Idle(tree[s], Reported(passes, s), walker[s])
                 /\ ToCome(tree[s], walker[s]) = {}
    BY DEF DiffInv, Halfway, Done
  <2>6. ended => Reported(passes, s) = Listed(tree[s])
    BY <2>5 DEF Idle
  <2>7. QED BY <2>1, <2>2, <2>3, <2>4, <2>6 DEF Ordered
<1>2. QED BY DiffInit, DiffStep, <1>1, PTL DEF Spec

-----------------------------------------------------------------------------
(***************************************************************************)
(* The keys of the rows.                                                   *)
(***************************************************************************)

KeysIn(T, S, row) == {At(T[s], row[s]).key : s \in {u \in S : row[u] # <<>>}}

\* What is still to be reported of a side.
Ahead(s) == {u \in Listed(tree[s]) : \/ u \in ToCome(tree[s], walker[s])
                                     \/ s \in have /\ u = Here(walker[s])}

Comparable == (\A s \in Sides : Ascends(tree[s])) /\ ~(three /\ Len(passes) > 1)

Single == \A j \in DOMAIN passes : \A k \in DOMAIN passes[j] :
  \E key \in Int : KeysIn(tree, Sides, passes[j][k]) = {key}
Ascending == \A j \in DOMAIN passes : \A k, l \in DOMAIN passes[j] : k < l =>
  \A a \in KeysIn(tree, Sides, passes[j][k]), b \in KeysIn(tree, Sides, passes[j][l]) : a < b
Passed == \A k \in DOMAIN passes[Len(passes)] :
  \A a \in KeysIn(tree, Sides, passes[Len(passes)][k]) :
    \A s \in Sides : \A u \in Ahead(s) : a < KeyOf(s, u)

MergeInv == Single /\ (Comparable => Ascending /\ Passed)

\* The rows after one is added, by their numbers.
LEMMA RowsAfter ==
  ASSUME NEW P \in Passes, P # <<>>, NEW row \in Row
  PROVE  /\ DOMAIN Extended(P, row) = DOMAIN P /\ Len(P) \in DOMAIN P
         /\ Len(Extended(P, row)) = Len(P)
         /\ \A j \in DOMAIN P : \A k \in DOMAIN Extended(P, row)[j] : k \in Nat
         /\ \A j \in DOMAIN P : \A k \in DOMAIN Extended(P, row)[j] :
              \/ k \in DOMAIN P[j] /\ Extended(P, row)[j][k] = P[j][k]
                 /\ (j = Len(P) => k < NextTurn(P)[2])
              \/ j = Len(P) /\ k = NextTurn(P)[2] /\ Extended(P, row)[j][k] = row
<1> DEFINE n == Len(P)
           Q == Extended(P, row)
           m == Len(P[n])
<1>1. /\ n \in Nat /\ n >= 1 /\ DOMAIN P = 1..n
      /\ \A j \in 1..n : Len(P[j]) \in Nat /\ DOMAIN P[j] = 1..Len(P[j])
  BY TurnsMean
<1>2. /\ Q \in Passes /\ Q # <<>> /\ Len(Q) = n
      /\ \A j \in 1..(n - 1) : Q[j] = P[j]
      /\ Len(Q[n]) = m + 1
      /\ \A k \in 1..m : Q[n][k] = P[n][k]
      /\ Q[n][m + 1] = row
  BY RowAdded
<1>3. DOMAIN Q = 1..n /\ \A j \in 1..n : DOMAIN Q[j] = 1..Len(Q[j])
  BY <1>2, TurnsMean
<1>4. m \in Nat /\ n \in 1..n /\ NextTurn(P)[2] = m + 1 /\ DOMAIN P[n] = 1..m
  BY <1>1 DEF NextTurn
<1> HIDE DEF n, Q, m
<1>5. ASSUME NEW j \in DOMAIN P, NEW k \in DOMAIN Q[j]
      PROVE  /\ k \in Nat
             /\ \/ k \in DOMAIN P[j] /\ Q[j][k] = P[j][k] /\ (j = n => k < m + 1)
                \/ j = n /\ k = m + 1 /\ Q[j][k] = row
  <2>1. CASE j = n
    <3>1. k \in 1..(m + 1)
      BY <1>2, <1>3, <1>4, <2>1
    <3>2. k \in 1..m \/ k = m + 1
      BY <1>4, <3>1
    <3>3. QED BY <1>2, <1>4, <2>1, <3>1, <3>2
  <2>2. CASE j # n
    <3>1. j \in 1..(n - 1)
      BY <1>1, <2>2
    <3>2. QED BY <1>1, <1>2, <2>2, <3>1
  <2>3. QED BY <2>1, <2>2
<1>6. QED BY <1>1, <1>2, <1>3, <1>4, <1>5 DEF n, Q

LEMMA MergeInit == Init => MergeInv
<1> SUFFICES ASSUME Init PROVE MergeInv
  OBVIOUS
<1>1. passes = << <<>> >>
  BY DEF Init
<1>2. DOMAIN passes = {1} /\ DOMAIN passes[1] = {} /\ Len(passes) = 1
  BY <1>1
<1>3. QED BY <1>2 DEF MergeInv, Single, Ascending, Passed

\* An entry at a position has a key, and what is below it is a directory.
LEMMA EntryMeans ==
  ASSUME NEW t \in Root, NEW p \in Place, Leads(t, p)
  PROVE  At(t, p).key \in Int /\ At(t, p).sub \in Directory
<1> DEFINE N == Len(p)
           Good(n) == At(t, SubSeq(p, 1, n)).key \in Int /\ At(t, SubSeq(p, 1, n)).sub \in Directory
           Bad == {n \in 1..N : ~Good(n)}
<1>1. p \in Seq(Nat) /\ N \in Nat /\ N >= 1 /\ SubSeq(p, 1, N) = p
  BY PlaceMeans, SubSeqFull
<1>2. \A n \in 1..N : /\ SubSeq(p, 1, n) \in Seq(Nat) /\ Len(SubSeq(p, 1, n)) = n
                      /\ SubSeq(p, 1, n) # <<>> /\ SubSeq(p, 1, n)[n] = p[n]
                      /\ SubSeq(p, 1, n)[1] = p[1]
  <2> SUFFICES ASSUME NEW n \in 1..N
               PROVE  /\ SubSeq(p, 1, n) \in Seq(Nat) /\ Len(SubSeq(p, 1, n)) = n
                      /\ SubSeq(p, 1, n) # <<>> /\ SubSeq(p, 1, n)[n] = p[n]
                      /\ SubSeq(p, 1, n)[1] = p[1]
    OBVIOUS
  <2> DEFINE a == SubSeq(p, 1, n)
  <2>1. a \in Seq(Nat) /\ Len(a) = n /\ \A k \in 1..n : a[k] = p[k]
    BY <1>1, Beginning
  <2> HIDE DEF a
  <2>2. a # <<>>
    BY <1>1, <2>1, EmptySeq
  <2>3. a[n] = p[n] /\ a[1] = p[1]
    BY <1>1, <2>1
  <2>4. QED BY <2>1, <2>2, <2>3 DEF a
<1>3. Good(1)
  <2> DEFINE a == SubSeq(p, 1, 1)
  <2>1. a \in Seq(Nat) /\ Len(a) = 1 /\ a # <<>> /\ a[1] = p[1]
    BY <1>1, <1>2
  <2>2. p[1] \in DOMAIN t /\ t \in Directory
    BY RootMeans DEF Leads
  <2> HIDE DEF a
  <2>3. At(t, a) = t[p[1]]
    BY <2>1, AtMeans
  <2>4. t[p[1]].key \in Int /\ t[p[1]].sub \in Directory
    BY <2>2, DirectoryMeans
  <2>5. QED BY <2>3, <2>4 DEF a
<1>4. ASSUME NEW n \in 2..N, Good(n - 1) PROVE Good(n)
  <2> DEFINE a == SubSeq(p, 1, n)
             b == SubSeq(p, 1, n - 1)
  <2>1. a \in Seq(Nat) /\ Len(a) = n /\ a # <<>> /\ a[n] = p[n]
    BY <1>1, <1>2
  <2>2. p[n] \in DOMAIN At(t, b).sub
    BY <1>1 DEF Leads
  <2>3. SubSeq(a, 1, n - 1) = b
    BY <1>1, BeginningAgain
  <2>4. At(t, b).sub \in Directory
    BY <1>4
  <2> HIDE DEF a, b
  <2>5. At(t, a) = At(t, b).sub[p[n]]
    <3>1. Len(a) # 1
      BY <2>1
    <3>2. At(t, a) = At(t, SubSeq(a, 1, Len(a) - 1)).sub[a[Len(a)]]
      BY <2>1, <3>1, AtMeans
    <3>3. QED BY <2>1, <2>3, <3>2
  <2> DEFINE dir == At(t, b).sub
  <2>6. dir[p[n]].key \in Int /\ dir[p[n]].sub \in Directory
    BY <2>2, <2>4, DirectoryMeans
  <2>7. QED BY <2>5, <2>6 DEF a
<1> HIDE DEF Good
<1>5. Bad = {}
  <2> SUFFICES ASSUME Bad # {} PROVE FALSE
    OBVIOUS
  <2>1. Bad \in SUBSET Nat
    OBVIOUS
  <2>2. PICK n \in Bad : \A k \in Bad : n <= k
    BY <2>1, LeastNatural
  <2>3. n \in 2..N
    BY <1>1, <1>3
  <2>4. Good(n - 1)
    BY <1>1, <2>2, <2>3
  <2>5. QED BY <1>4, <2>3, <2>4
<1>6. Good(N)
  BY <1>1, <1>5
<1>7. QED BY <1>1, <1>6 DEF Good

\* The row that MoveNext reports has one key, the least of those that are ahead.
LEMMA RowIsLeast ==
  ASSUME DiffInv, MoveNext
  PROVE  \E key \in Int :
           /\ KeysIn(tree, Sides, RowFound) = {key}
           /\ \E s \in Sides : \E u \in Ahead(s) : KeyOf(s, u) = key
           /\ (\A s \in Sides : Ascends(tree[s])) =>
                \A s \in Sides : \A u \in Ahead(s)' : key < KeyOf(s, u)
<1>1. /\ UNCHANGED <<three, tree, ended>> /\ Lost = {}
      /\ walker' = Walked
      /\ have' = Had \ Taken
      /\ KeysFound \in [Had -> Int]
      /\ Taken = Least(Had, KeysFound) /\ Taken # {} /\ Taken \subseteq Had
      /\ \A s \in Taken : RowFound[s] = Here(Walked[s]) /\ RowFound[s] # <<>>
      /\ \A s \in Side \ Taken : RowFound[s] = <<>>
  BY MoveNextMeans
<1>2. Sides \subseteq Side /\ Had \subseteq Sides /\ \A s \in Side : tree[s] \in Root
  BY SidesMean, HadMeans DEF DiffInv
<1>3. \A s \in Had : /\ Here(Walked[s]) \in Listed(tree[s])
                     /\ KeysFound[s] = KeyOf(s, Here(Walked[s]))
                     /\ \A u \in ToCome(tree[s], Walked[s]) : Precedes(Here(Walked[s]), u)
  BY <1>2, Asking DEF Come, KeysFound, KeyOf
<1>4. PICK s0 \in Taken : TRUE
  BY <1>1
<1> DEFINE key == KeysFound[s0]
<1>5. key \in Int
  BY <1>1, <1>4
<1>6. /\ \A s \in Taken : KeysFound[s] = key
      /\ \A s \in Had : key <= KeysFound[s]
      /\ \A s \in Had \ Taken : key < KeysFound[s]
  <2>1. \A s \in Had : KeysFound[s] \in Int
    BY <1>1
  <2>2. \A s \in Taken : KeysFound[s] = key
    BY <1>1, <1>4, <2>1 DEF Least
  <2>3. \A s \in Had : key <= KeysFound[s]
    BY <1>1, <1>4, <2>1 DEF Least
  <2>4. ASSUME NEW s \in Had \ Taken PROVE key < KeysFound[s]
    <3>1. PICK u \in Had : ~(KeysFound[s] <= KeysFound[u])
      BY <1>1, <2>4 DEF Least
    <3>2. key <= KeysFound[u] /\ KeysFound[u] \in Int /\ KeysFound[s] \in Int
      BY <2>1, <2>3
    <3>3. QED BY <1>5, <3>1, <3>2
  <2>5. QED BY <2>2, <2>3, <2>4
<1> HIDE DEF key
<1>7. KeysIn(tree, Sides, RowFound) = {key}
  <2>1. \A s \in Sides : RowFound[s] # <<>> <=> s \in Taken
    BY <1>1, <1>2
  <2>2. {u \in Sides : RowFound[u] # <<>>} = Taken
    BY <1>1, <1>2, <2>1
  <2>3. \A s \in Taken : At(tree[s], RowFound[s]).key = key
    BY <1>1, <1>3, <1>6 DEF KeyOf
  <2>4. QED BY <1>4, <2>2, <2>3 DEF KeysIn
<1>8. \E s \in Sides : \E u \in Ahead(s) : KeyOf(s, u) = key
  <2>1. s0 \in Had /\ s0 \in Sides
    BY <1>1, <1>2, <1>4
  <2>2. Here(Walked[s0]) \in Ahead(s0)
    <3>1. \/ s0 \in have /\ Walked[s0] = walker[s0]
          \/ Here(Walked[s0]) \in ToCome(tree[s0], walker[s0])
      BY <2>1, Asking
    <3>2. Here(Walked[s0]) \in Listed(tree[s0])
      BY <1>3, <2>1
    <3>3. QED BY <3>1, <3>2 DEF Ahead
  <2>3. KeyOf(s0, Here(Walked[s0])) = key
    BY <1>3, <1>6, <1>4, <2>1
  <2>4. QED BY <2>1, <2>2, <2>3
<1>9. ASSUME \A s \in Sides : Ascends(tree[s]),
             NEW s \in Sides, NEW u \in Ahead(s)'
      PROVE  key < KeyOf(s, u)
  <2>1. /\ u \in Listed(tree[s])
        /\ u \in ToCome(tree[s], Walked[s]) \/ (s \in Had \ Taken /\ u = Here(Walked[s]))
    BY <1>1, <1>9 DEF Ahead
  <2>2. s \in Had
    BY <1>1, <1>9, <2>1, Asking
  <2>3. KeyOf(s, u) \in Int
    BY <1>2, <2>1, EntryMeans DEF Listed, KeyOf
  <2>4. CASE u \in ToCome(tree[s], Walked[s])
    <3>1. KeyOf(s, Here(Walked[s])) < KeyOf(s, u)
      BY <1>3, <1>9, <2>1, <2>2, <2>4 DEF Ascends, KeyOf
    <3>2. KeysFound[s] \in Int /\ KeysFound[s] < KeyOf(s, u)
      BY <1>1, <1>3, <2>2, <3>1
    <3>3. QED BY <1>5, <1>6, <2>2, <2>3, <3>2
  <2>5. CASE s \in Had \ Taken /\ u = Here(Walked[s])
    BY <1>3, <1>6, <2>5
  <2>6. QED BY <2>1, <2>4, <2>5
<1>10. QED BY <1>5, <1>7, <1>8, <1>9

\* What is ahead when the sides have been asked was ahead before.
LEMMA AheadShrinks ==
  ASSUME DiffInv, Forward
  PROVE  \A s \in Sides : \A u \in Ahead(s)' : u \in Ahead(s)
<1> SUFFICES ASSUME NEW s \in Sides, NEW u \in Ahead(s)' PROVE u \in Ahead(s)
  OBVIOUS
<1>1. walker' = Walked /\ tree' = tree /\ have' \subseteq Had
  BY HadMeans DEF Forward, MoveNext, MoveNextThrows, MoveNextEnds
<1>2. /\ u \in Listed(tree[s])
      /\ u \in ToCome(tree[s], Walked[s]) \/ (s \in Had /\ u = Here(Walked[s]))
  BY <1>1 DEF Ahead
<1>3. /\ ToCome(tree[s], Walked[s]) \subseteq ToCome(tree[s], walker[s])
      /\ s \in Had => \/ s \in have /\ Walked[s] = walker[s]
                      \/ Here(Walked[s]) \in ToCome(tree[s], walker[s])
  BY Asking
<1>4. QED BY <1>2, <1>3 DEF Ahead

LEMMA MergeMoves ==
  ASSUME DiffInv, MergeInv, MoveNext
  PROVE  MergeInv'
<1>1. /\ UNCHANGED <<three, tree>> /\ passes' = Extended(passes, RowFound) /\ RowFound \in Row
  BY MoveNextMeans
<1>2. passes \in Passes /\ passes # <<>> /\ Sides' = Sides
  BY <1>1 DEF DiffInv, Typed, Sides
<1> DEFINE n == Len(passes)
           m == NextTurn(passes)[2]
           Keys(row) == KeysIn(tree, Sides, row)
<1>3. PICK key \in Int :
        /\ Keys(RowFound) = {key}
        /\ \E s \in Sides : \E u \in Ahead(s) : KeyOf(s, u) = key
        /\ (\A s \in Sides : Ascends(tree[s])) =>
             \A s \in Sides : \A u \in Ahead(s)' : key < KeyOf(s, u)
  BY RowIsLeast
<1>4. /\ DOMAIN passes' = DOMAIN passes /\ n \in DOMAIN passes /\ Len(passes') = n
      /\ \A j \in DOMAIN passes : \A k \in DOMAIN passes'[j] : k \in Nat
      /\ \A j \in DOMAIN passes : \A k \in DOMAIN passes'[j] :
           \/ k \in DOMAIN passes[j] /\ passes'[j][k] = passes[j][k] /\ (j = n => k < m)
           \/ j = n /\ k = m /\ passes'[j][k] = RowFound
  BY <1>1, <1>2, RowsAfter
<1> HIDE DEF n, m
<1>5. \A s \in Sides : \A u \in Ahead(s)' : u \in Ahead(s)
  BY AheadShrinks DEF Forward
<1>6. \A row : KeysIn(tree, Sides, row)' = Keys(row)
  BY <1>1, <1>2 DEF KeysIn
<1>7. \A s, u : KeyOf(s, u)' = KeyOf(s, u)
  BY <1>1 DEF KeyOf
<1>8. Single'
  <2>1. ASSUME NEW j \in DOMAIN passes', NEW k \in DOMAIN passes'[j]
        PROVE  \E b \in Int : KeysIn(tree', Sides', passes'[j][k]) = {b}
    <3>1. CASE k \in DOMAIN passes[j] /\ passes'[j][k] = passes[j][k]
      <4>1. \E b \in Int : Keys(passes[j][k]) = {b}
        BY <1>4, <3>1 DEF MergeInv, Single
      <4>2. QED BY <1>1, <1>2, <3>1, <4>1
    <3>2. CASE passes'[j][k] = RowFound
      BY <1>1, <1>2, <1>3, <3>2
    <3>3. QED BY <1>4, <3>1, <3>2
  <2>2. QED BY <2>1 DEF Single
<1>9. ASSUME Comparable' PROVE Ascending' /\ Passed'
  <2>1. /\ \A s \in Sides : Ascends(tree[s])
        /\ Comparable
    <3>1. Len(passes') = Len(passes)
      BY <1>4 DEF n
    <3>2. \A s \in Sides : Ascends(tree[s])
      BY <1>1, <1>2, <1>9 DEF Comparable, Ascends, KeyOf
    <3>3. QED BY <1>1, <1>2, <1>9, <3>1, <3>2 DEF Comparable
  <2>2. Ascending /\ Passed
    BY <2>1 DEF MergeInv
  <2>3. ASSUME NEW k \in DOMAIN passes[n], NEW a \in Keys(passes[n][k])
        PROVE  \A s \in Sides : \A u \in Ahead(s) : a < KeyOf(s, u)
    BY <2>2, <2>3 DEF Passed, n
  <2>4. ASSUME NEW j \in DOMAIN passes', NEW k \in DOMAIN passes'[j],
               NEW l \in DOMAIN passes'[j], k < l,
               NEW a \in Keys(passes'[j][k]), NEW b \in Keys(passes'[j][l])
        PROVE  a < b
    <3>1. CASE /\ k \in DOMAIN passes[j] /\ passes'[j][k] = passes[j][k]
               /\ l \in DOMAIN passes[j] /\ passes'[j][l] = passes[j][l]
      BY <1>4, <2>2, <2>4, <3>1 DEF Ascending
    <3>2. CASE /\ k \in DOMAIN passes[j] /\ passes'[j][k] = passes[j][k]
               /\ j = n /\ passes'[j][l] = RowFound
      <4>1. \A s \in Sides : \A u \in Ahead(s) : a < KeyOf(s, u)
        BY <2>3, <2>4, <3>2
      <4>2. b = key
        BY <1>3, <2>4, <3>2
      <4>3. QED BY <1>3, <4>1, <4>2
    <3>3. ~(j = n /\ k = m)
      <4> SUFFICES ASSUME j = n, k = m PROVE FALSE
        OBVIOUS
      <4>1. l = m \/ l < m
        BY <1>4, <2>4
      <4>2. k \in Nat /\ l \in Nat
        BY <1>4, <2>4
      <4>3. QED BY <2>4, <4>1, <4>2
    <3>4. QED BY <1>4, <2>4, <3>1, <3>2, <3>3
  <2>5. ASSUME NEW k \in DOMAIN passes'[n], NEW a \in Keys(passes'[n][k]),
               NEW s \in Sides, NEW u \in Ahead(s)'
        PROVE  a < KeyOf(s, u)
    <3>1. CASE k \in DOMAIN passes[n] /\ passes'[n][k] = passes[n][k]
      BY <1>5, <2>3, <2>5, <3>1
    <3>2. CASE passes'[n][k] = RowFound
      BY <1>3, <2>1, <2>5, <3>2
    <3>3. QED BY <1>4, <2>5, <3>1, <3>2
  <2>6. Ascending'
    BY <1>1, <1>2, <2>4 DEF Ascending
  <2>7. Passed'
    <3>1. passes'[Len(passes')] = passes'[n]
      BY <1>4
    <3> SUFFICES ASSUME NEW k \in DOMAIN passes'[n],
                        NEW a \in KeysIn(tree', Sides', passes'[n][k]),
                        NEW s \in Sides', NEW u \in Ahead(s)'
                 PROVE  a < KeyOf(s, u)'
      BY <3>1 DEF Passed
    <3>2. a \in Keys(passes'[n][k]) /\ s \in Sides
      BY <1>1, <1>2
    <3>3. QED BY <1>7, <2>5, <3>2
  <2>8. QED BY <2>6, <2>7
<1>10. QED BY <1>8, <1>9 DEF MergeInv

LEMMA MergeResets ==
  ASSUME DiffInv, MergeInv, Reset
  PROVE  MergeInv'
<1>1. /\ UNCHANGED <<three, tree>> /\ passes' = Begun(passes) /\ Sides' = Sides
  BY DEF Reset, Begun, Sides
<1>2. passes \in Passes /\ passes # <<>>
  BY DEF DiffInv, Typed
<1> DEFINE n == Len(passes)
<1>3. /\ passes' \in Passes /\ passes' # <<>> /\ Len(passes') = n + 1
      /\ \A j \in 1..n : passes'[j] = passes[j]
      /\ passes'[n + 1] = <<>>
  BY <1>1, <1>2, PassBegun
<1>4. DOMAIN passes = 1..n /\ n \in Nat /\ n >= 1 /\ DOMAIN passes' = 1..(n + 1)
  BY <1>2, <1>3, TurnsMean
<1>5. DOMAIN passes'[n + 1] = {}
  BY <1>3
<1>6. \A j \in DOMAIN passes' :
        (j \in DOMAIN passes /\ passes'[j] = passes[j]) \/ DOMAIN passes'[j] = {}
  <2>1. \A j \in 1..(n + 1) : j \in 1..n \/ j = n + 1
    BY <1>4
  <2>2. QED BY <1>3, <1>4, <1>5, <2>1
<1>7. Single'
  BY <1>1, <1>6 DEF MergeInv, Single
<1>8. Passed'
  BY <1>3, <1>5 DEF Passed
<1>9. ASSUME Comparable' PROVE Ascending'
  <2>1. \A s \in Sides : Ascends(tree[s])
    BY <1>1, <1>9 DEF Comparable, Ascends
  <2>2. ~three
    BY <1>1, <1>3, <1>4, <1>9 DEF Comparable
  <2>3. Ascending
    BY <2>1, <2>2 DEF MergeInv, Comparable
  <2>4. QED BY <1>1, <1>6, <2>3 DEF Ascending
<1>10. QED BY <1>7, <1>8, <1>9 DEF MergeInv

LEMMA MergeStep == DiffInv /\ MergeInv /\ [Next]_vars => MergeInv'
<1> SUFFICES ASSUME DiffInv, MergeInv, [Next]_vars PROVE MergeInv'
  OBVIOUS
<1>1. ASSUME UNCHANGED <<three, tree, passes>>, \A s \in Sides : \A u \in Ahead(s)' : u \in Ahead(s)
      PROVE  MergeInv'
  <2>1. Sides' = Sides
    BY <1>1 DEF Sides
  <2>2. Single' /\ (Comparable' => Comparable /\ Ascending')
    <3>1. Single'
      BY <1>1, <2>1 DEF MergeInv, Single
    <3>2. Comparable' => Comparable
      BY <1>1, <2>1 DEF Comparable, Ascends
    <3>3. Ascending => Ascending'
      BY <1>1, <2>1 DEF Ascending
    <3>4. QED BY <3>1, <3>2, <3>3 DEF MergeInv
  <2>3. ASSUME Passed PROVE Passed'
    <3> DEFINE last == passes[Len(passes)]
    <3> SUFFICES ASSUME NEW k \in DOMAIN last', NEW a \in KeysIn(tree', Sides', last'[k]),
                        NEW s \in Sides', NEW u \in Ahead(s)'
                 PROVE  a < KeyOf(s, u)'
      BY DEF Passed
    <3>1. /\ k \in DOMAIN last /\ a \in KeysIn(tree, Sides, last[k])
          /\ s \in Sides /\ u \in Ahead(s) /\ KeyOf(s, u)' = KeyOf(s, u)
      BY <1>1, <2>1 DEF KeyOf
    <3>2. QED BY <2>3, <3>1 DEF Passed
  <2>4. QED BY <2>2, <2>3 DEF MergeInv
<1>2. CASE UNCHANGED vars
  BY <1>1, <1>2 DEF vars, Ahead
<1>3. CASE MoveNextThrows \/ MoveNextEnds
  <2>1. UNCHANGED <<three, tree, passes>>
    BY <1>3 DEF MoveNextThrows, MoveNextEnds
  <2>2. QED BY <1>1, <1>3, <2>1, AheadShrinks DEF Forward
<1>4. QED BY <1>2, <1>3, MergeMoves, MergeResets DEF Next, Forward

\* The entries of a row have one name, and when every listing ascends the rows of a pass
\* do, so that no two rows have the same name.
THEOREM RowsInOrder == Spec => []MergedInOrder
<1>1. DiffInv /\ MergeInv => MergedInOrder
  <2> SUFFICES ASSUME DiffInv, MergeInv, NEW pass \in ToSet(passes)
               PROVE  /\ \A row \in ToSet(pass) : Cardinality(RowKeys(row)) = 1
                      /\ \/ \A j, k \in DOMAIN pass : j < k =>
                              \A a \in RowKeys(pass[j]), b \in RowKeys(pass[k]) : a < b
                         \/ \E s \in Sides : ~Ascends(tree[s])
                         \/ three /\ Len(passes) > 1
    BY DEF MergedInOrder
  <2>1. PICK i \in DOMAIN passes : pass = passes[i]
    BY DEF ToSet
  <2>2. \A row : RowKeys(row) = KeysIn(tree, Sides, row)
    BY DEF RowKeys, KeysIn, KeyOf
  <2>3. ASSUME NEW row \in ToSet(pass) PROVE Cardinality(RowKeys(row)) = 1
    <3>1. PICK k \in DOMAIN pass : row = pass[k]
      BY <2>3 DEF ToSet
    <3>2. PICK key \in Int : KeysIn(tree, Sides, row) = {key}
      BY <2>1, <3>1 DEF MergeInv, Single
    <3>3. Cardinality({key}) = 1
      BY FS_Singleton
    <3>4. QED BY <2>2, <3>2, <3>3
  <2>4. ASSUME Comparable, NEW j \in DOMAIN pass, NEW k \in DOMAIN pass, j < k,
               NEW a \in RowKeys(pass[j]), NEW b \in RowKeys(pass[k])
        PROVE  a < b
    BY <2>1, <2>2, <2>4 DEF MergeInv, Ascending
  <2>5. QED BY <2>3, <2>4 DEF Comparable
<1>2. QED BY DiffInit, DiffStep, MergeInit, MergeStep, <1>1, PTL DEF Spec

-----------------------------------------------------------------------------
(***************************************************************************)
(* The enumeration is a function of the trees: two passes that begin alike *)
(* go on alike.                                                            *)
(***************************************************************************)

\* What MoveNext makes of the walkers w, the set h of sides that have an entry, the rows of
\* the pass, and ended: these four are a stage.
LostOf(S, w, h) == {s \in S \ h : Throws(w[s])}
AskedOf(S, w, h) == (S \ h) \ UNION {Behind(s) : s \in LostOf(S, w, h)}
WalkedOf(S, w, h) == [s \in Side |-> IF s \in AskedOf(S, w, h) THEN Advanced(w[s]) ELSE w[s]]
HadOf(S, w, h) ==
  h \cup {s \in AskedOf(S, w, h) \ LostOf(S, w, h) : Unfinished(w[s]) # {}}
TakenOf(u, h) == WithBase(h, [s \in h |-> Entry(Current(u[s])).key])
RowOf(u, taken) == [s \in Side |-> IF s \in taken THEN Here(u[s]) ELSE <<>>]

Following(S, x) ==
  LET w == x[1]  h == x[2]
      u == WalkedOf(S, w, h)  had == HadOf(S, w, h)
  IN IF LostOf(S, w, h) # {} THEN <<u, had, x[3], x[4]>>
     ELSE IF had = {} THEN <<u, h, x[3], TRUE>>
     ELSE <<u, had \ TakenOf(u, had), Append(x[3], RowOf(u, TakenOf(u, had))), x[4]>>

\* Where a comparison of two trees starts, and what it can come to.
Start(T) == <<[s \in Side |-> <<Walker(T[s])>>], {}, <<>>, FALSE>>
Run(S, T, f, n) ==
  /\ f[0] = Start(T)
  /\ \A i \in 0..(n - 1) : f[i + 1] = Following(S, f[i])
  /\ \A i \in 0..n : f[i][3] \in Seq(Row) /\ IsPrefix(f[i][3], f[n][3])
Reached(S, T, x) == \E n \in Nat : \E f : Run(S, T, f, n) /\ f[n] = x

LEMMA StartReached ==
  ASSUME NEW S, NEW T
  PROVE  Reached(S, T, Start(T))
<1> DEFINE f == [i \in {0} |-> Start(T)]
           rows == Start(T)[3]
<1>1. f[0] = Start(T)
  OBVIOUS
<1>2. rows \in Seq(Row)
  <2> DEFINE empty == <<>>
  <2>1. empty \in Seq(Row)
    BY EmptySeq
  <2>2. rows = empty
    BY DEF Start
  <2> HIDE DEF rows, empty
  <2>3. QED BY <2>1, <2>2
<1>3. IsPrefix(rows, rows)
  <2> HIDE DEF rows
  <2>1. QED BY <1>2, PrefixReflexive
<1> HIDE DEF f
<1>4. f[0][3] \in Seq(Row) /\ IsPrefix(f[0][3], f[0][3])
  BY <1>1, <1>2, <1>3
<1>5. \A i \in 0..0 : i = 0
  OBVIOUS
<1>6. \A i \in 0..(0 - 1) : FALSE
  OBVIOUS
<1>7. Run(S, T, f, 0)
  BY <1>1, <1>4, <1>5, <1>6, Zenon DEF Run
<1>8. 0 \in Nat
  OBVIOUS
<1>9. QED BY <1>1, <1>7, <1>8, Zenon DEF Reached

LEMMA FollowingReached ==
  ASSUME NEW S, NEW T, NEW x, Reached(S, T, x),
         NEW y, y = Following(S, x), y[3] \in Seq(Row), IsPrefix(x[3], y[3])
  PROVE  Reached(S, T, y)
<1>1. PICK n \in Nat : \E f : Run(S, T, f, n) /\ f[n] = x
  BY DEF Reached
<1>2. PICK f : Run(S, T, f, n) /\ f[n] = x
  BY <1>1
<1> DEFINE g == [i \in 0..(n + 1) |-> IF i = n + 1 THEN y ELSE f[i]]
<1>3. g[n + 1] = y /\ \A i \in 0..n : g[i] = f[i]
  OBVIOUS
<1> HIDE DEF g
<1>4. g[0] = Start(T)
  BY <1>2, <1>3 DEF Run
<1>5. ASSUME NEW i \in 0..((n + 1) - 1) PROVE g[i + 1] = Following(S, g[i])
  <2>1. CASE i = n
    BY <1>2, <1>3, <2>1
  <2>2. CASE i # n
    <3>1. i \in 0..(n - 1) /\ i \in 0..n /\ i + 1 \in 0..n
      BY <2>2
    <3>2. f[i + 1] = Following(S, f[i])
      BY <1>2, <3>1 DEF Run
    <3>3. QED BY <1>3, <3>1, <3>2
  <2>3. QED BY <2>1, <2>2
<1>6. ASSUME NEW i \in 0..(n + 1)
      PROVE  g[i][3] \in Seq(Row) /\ IsPrefix(g[i][3], g[n + 1][3])
  <2>1. CASE i = n + 1
    <3>1. IsPrefix(y[3], y[3])
      BY PrefixReflexive
    <3>2. QED BY <1>3, <2>1, <3>1
  <2>2. CASE i # n + 1
    <3>1. i \in 0..n /\ n \in 0..n
      BY <2>2
    <3>2. /\ f[i][3] \in Seq(Row) /\ IsPrefix(f[i][3], x[3])
          /\ x[3] \in Seq(Row)
      BY <1>2, <3>1 DEF Run
    <3>3. IsPrefix(f[i][3], y[3])
      BY <3>2, PrefixTransitive
    <3>4. QED BY <1>3, <3>1, <3>2, <3>3
  <2>3. QED BY <2>1, <2>2
<1>7. Run(S, T, g, n + 1)
  BY <1>4, <1>5, <1>6 DEF Run
<1>8. n + 1 \in Nat
  OBVIOUS
<1>9. QED BY <1>3, <1>7, <1>8, Zenon DEF Reached

LEMMA RunsAgree ==
  ASSUME NEW S, NEW T, NEW n \in Nat, NEW m \in Nat, NEW f, NEW g,
         Run(S, T, f, n), Run(S, T, g, m), n <= m
  PROVE  \A i \in 0..n : f[i] = g[i]
<1> DEFINE Bad == {i \in 0..n : f[i] # g[i]}
<1>1. f[0] = g[0]
  BY DEF Run
<1>2. \A i \in 0..(n - 1) : f[i] = g[i] => f[i + 1] = g[i + 1]
  <2>1. \A i \in 0..(n - 1) : i \in 0..(m - 1)
    OBVIOUS
  <2>2. QED BY <2>1 DEF Run
<1>3. Bad = {}
  <2> SUFFICES ASSUME Bad # {} PROVE FALSE
    OBVIOUS
  <2>1. Bad \in SUBSET Nat
    OBVIOUS
  <2>2. PICK i \in Bad : \A k \in Bad : i <= k
    BY <2>1, LeastNatural
  <2>3. i \in 0..n /\ f[i] # g[i] /\ i # 0
    BY <1>1
  <2>4. i - 1 \in 0..(n - 1) /\ i - 1 \notin Bad /\ (i - 1) + 1 = i /\ i - 1 \in 0..n
    BY <2>2, <2>3
  <2>5. f[i - 1] = g[i - 1]
    BY <2>4
  <2>6. f[(i - 1) + 1] = g[(i - 1) + 1]
    BY <1>2, <2>4, <2>5
  <2>7. QED BY <2>3, <2>4, <2>6
<1>4. QED BY <1>3

LEMMA ReachedNest ==
  ASSUME NEW S, NEW T, NEW x, NEW y, Reached(S, T, x), Reached(S, T, y)
  PROVE  IsPrefix(x[3], y[3]) \/ IsPrefix(y[3], x[3])
<1>1. ASSUME NEW n \in Nat, NEW m \in Nat, NEW f, NEW g,
             Run(S, T, f, n), Run(S, T, g, m), n <= m
      PROVE  IsPrefix(f[n][3], g[m][3])
  <2>1. f[n] = g[n]
    BY <1>1, RunsAgree
  <2>2. n \in 0..m
    BY <1>1
  <2>3. IsPrefix(g[n][3], g[m][3])
    BY <1>1, <2>2 DEF Run
  <2>4. QED BY <2>1, <2>3
<1>2. PICK n \in Nat : \E f : Run(S, T, f, n) /\ f[n] = x
  BY DEF Reached
<1>3. PICK f : Run(S, T, f, n) /\ f[n] = x
  BY <1>2
<1>4. PICK m \in Nat : \E g : Run(S, T, g, m) /\ g[m] = y
  BY DEF Reached
<1>5. PICK g : Run(S, T, g, m) /\ g[m] = y
  BY <1>4
<1>6. n <= m \/ m <= n
  OBVIOUS
<1>7. QED BY <1>1, <1>3, <1>5, <1>6

\* The stage of the last pass.
Now == <<walker, have, passes[Len(passes)], ended>>

RepeatInv == ~three =>
  /\ walker["base"] = <<Walker(tree["base"])>>
  /\ Reached(Sides, tree, Now)
  /\ \A j \in DOMAIN passes : \E x : Reached(Sides, tree, x) /\ x[3] = passes[j]

LEMMA NowFollows ==
  ASSUME DiffInv, Forward
  PROVE  /\ Now' = Following(Sides, Now)
         /\ Now'[3] \in Seq(Row) /\ IsPrefix(Now[3], Now'[3])
         /\ Len(passes') = Len(passes) /\ DOMAIN passes' = DOMAIN passes
         /\ \A j \in DOMAIN passes : j # Len(passes) => passes'[j] = passes[j]
<1> DEFINE n == Len(passes)
           rows == passes[n]
<1>1. passes \in Passes /\ passes # <<>>
  BY DEF DiffInv, Typed
<1>2. /\ n \in Nat /\ n \in 1..n /\ DOMAIN passes = 1..n /\ rows \in Seq(Row)
  BY <1>1, TurnsMean
<1>3. /\ LostOf(Sides, walker, have) = Lost /\ HadOf(Sides, walker, have) = Had
      /\ WalkedOf(Sides, walker, have) = Walked
  BY DEF LostOf, Lost, AskedOf, Asked, HadOf, Had, WalkedOf, Walked
<1>4. /\ Now[1] = walker /\ Now[2] = have /\ Now[3] = rows /\ Now[4] = ended
      /\ Now' = <<walker', have', passes'[Len(passes')], ended'>>
      /\ Now'[3] = passes'[Len(passes')]
  BY DEF Now
<1>5. IsPrefix(rows, rows)
  <2> HIDE DEF rows
  <2>1. QED BY <1>2, PrefixReflexive
<1> HIDE DEF n, rows
<1>6. CASE MoveNextThrows
  <2>1. /\ walker' = Walked /\ have' = Had /\ passes' = passes /\ ended' = ended /\ Lost # {}
    BY <1>6 DEF MoveNextThrows
  <2>2. passes'[Len(passes')] = rows
    BY <2>1 DEF n, rows
  <2>3. Following(Sides, Now) = <<Walked, Had, rows, ended>>
    BY <1>3, <1>4, <2>1 DEF Following
  <2>4. QED BY <1>2, <1>4, <1>5, <2>1, <2>2, <2>3
<1>7. CASE MoveNextEnds
  <2>1. /\ walker' = Walked /\ have' = have /\ passes' = passes /\ ended' = TRUE
        /\ Lost = {} /\ Had = {}
    BY <1>7 DEF MoveNextEnds
  <2>2. passes'[Len(passes')] = rows
    BY <2>1 DEF n, rows
  <2>3. Following(Sides, Now) = <<Walked, have, rows, TRUE>>
    BY <1>3, <1>4, <2>1 DEF Following
  <2>4. QED BY <1>2, <1>4, <1>5, <2>1, <2>2, <2>3
<1>8. CASE MoveNext
  <2>1. /\ walker' = Walked /\ have' = Had \ Taken /\ passes' = Extended(passes, RowFound)
        /\ ended' = ended /\ Lost = {} /\ Had # {} /\ RowFound \in Row
    BY <1>8, MoveNextMeans
  <2> DEFINE new == Append(rows, RowFound)
  <2>2. /\ new \in Seq(Row) /\ Len(new) = Len(rows) + 1 /\ Len(rows) \in Nat
        /\ \A k \in 1..Len(rows) : new[k] = rows[k]
    BY <1>2, <2>1, Appending, LenProperties
  <2>3. passes' = [passes EXCEPT ![n] = new]
    BY <2>1 DEF Extended, n, rows
  <2> HIDE DEF new
  <2>4. passes'[n] = new /\ \A j \in DOMAIN passes : j # n => passes'[j] = passes[j]
    BY <1>2, <2>3
  <2>5. Len(passes') = n /\ DOMAIN passes' = DOMAIN passes
    BY <1>1, <2>1, RowsAfter DEF n
  <2>6. IsPrefix(rows, new)
    BY <1>2, <2>2, PrefixMeans
  <2>7. TakenOf(Walked, Had) = Taken /\ RowOf(Walked, Taken) = RowFound
    BY DEF TakenOf, Taken, KeysFound, RowOf, RowFound
  <2>8. Following(Sides, Now) = <<Walked, Had \ Taken, new, ended>>
    BY <1>3, <1>4, <2>1, <2>7 DEF Following, new
  <2>9. QED BY <1>4, <2>1, <2>2, <2>4, <2>5, <2>6, <2>8 DEF n
<1>9. QED BY <1>6, <1>7, <1>8 DEF Forward

LEMMA RepeatInit == Init => RepeatInv
<1> SUFFICES ASSUME Init, ~three PROVE RepeatInv
  BY DEF RepeatInv
<1>1. /\ walker = [s \in Side |-> <<Walker(tree[s])>>] /\ have = {} /\ ended = FALSE
      /\ passes = << <<>> >>
  BY DEF Init
<1>2. "base" \in Side
  BY DEF Side
<1>3. walker["base"] = <<Walker(tree["base"])>>
  BY <1>1, <1>2
<1>4. Len(passes) = 1 /\ DOMAIN passes = {1} /\ passes[1] = <<>>
  BY <1>1
<1>5. Now = Start(tree) /\ Now[3] = passes[1]
  BY <1>1, <1>4 DEF Now, Start
<1>6. Reached(Sides, tree, Now)
  BY <1>5, StartReached
<1>7. QED BY <1>3, <1>4, <1>5, <1>6 DEF RepeatInv

LEMMA RepeatStep == DiffInv /\ RepeatInv /\ [Next]_vars => RepeatInv'
<1> SUFFICES ASSUME DiffInv, RepeatInv, [Next]_vars, ~three PROVE RepeatInv'
  <2>1. [Next]_vars => three' = three
    BY DEF Next, Forward, MoveNext, MoveNextThrows, MoveNextEnds, Reset, vars
  <2>2. QED BY <2>1 DEF RepeatInv
<1>1. /\ walker["base"] = <<Walker(tree["base"])>>
      /\ Reached(Sides, tree, Now)
      /\ \A j \in DOMAIN passes : \E x : Reached(Sides, tree, x) /\ x[3] = passes[j]
  BY DEF RepeatInv
<1>2. passes \in Passes /\ passes # <<>> /\ have \subseteq Sides
  BY DEF DiffInv, Typed
<1>3. Sides = {"left", "right"} /\ "base" \in Side
  BY DEF Sides, Side
<1>4. UNCHANGED <<three, tree>> /\ Sides' = Sides
  BY DEF Next, Forward, MoveNext, MoveNextThrows, MoveNextEnds, Reset, vars, Sides
<1>5. CASE UNCHANGED vars
  BY <1>1, <1>4, <1>5 DEF vars, RepeatInv, Now
<1>6. CASE Forward
  <2>1. /\ Now' = Following(Sides, Now)
        /\ Now'[3] \in Seq(Row) /\ IsPrefix(Now[3], Now'[3])
        /\ Len(passes') = Len(passes) /\ DOMAIN passes' = DOMAIN passes
        /\ \A j \in DOMAIN passes : j # Len(passes) => passes'[j] = passes[j]
    BY <1>6, NowFollows
  <2>2. Reached(Sides, tree, Now')
    BY <1>1, <2>1, FollowingReached
  <2>3. Now'[3] = passes'[Len(passes')]
    BY DEF Now
  <2>4. \A j \in DOMAIN passes : \E x : Reached(Sides, tree, x) /\ x[3] = passes'[j]
    BY <1>1, <2>1, <2>2, <2>3
  <2>5. walker'["base"] = walker["base"]
    <3>1. walker' = Walked
      BY <1>6 DEF Forward, MoveNext, MoveNextThrows, MoveNextEnds
    <3>2. "base" \notin Asked
      BY <1>3 DEF Asked
    <3>3. QED BY <1>3, <3>1, <3>2 DEF Walked
  <2>6. QED BY <1>1, <1>4, <2>1, <2>2, <2>4, <2>5 DEF RepeatInv
<1>7. CASE Reset
  <2>1. /\ walker' = [s \in Side |-> IF s \in Again THEN <<Walker(tree[s])>> ELSE walker[s]]
        /\ have' = have \ Again /\ passes' = Begun(passes) /\ ended' = FALSE
    BY <1>7 DEF Reset, Begun
  <2> DEFINE n == Len(passes)
  <2>2. /\ passes' \in Passes /\ passes' # <<>> /\ Len(passes') = n + 1
        /\ \A j \in 1..n : passes'[j] = passes[j]
        /\ passes'[n + 1] = <<>>
    BY <1>2, <2>1, PassBegun
  <2>3. DOMAIN passes = 1..n /\ n \in Nat /\ DOMAIN passes' = 1..(n + 1)
    BY <1>2, <2>2, TurnsMean
  <2> HIDE DEF n
  <2>4. \A s \in Side : walker'[s] = <<Walker(tree[s])>>
    BY <1>1, <2>1 DEF Side, Again
  <2>5. walker' = [s \in Side |-> <<Walker(tree[s])>>]
    <3>1. \A s \in Side :
            (IF s \in Again THEN <<Walker(tree[s])>> ELSE walker[s]) = <<Walker(tree[s])>>
      BY <1>1 DEF Side, Again
    <3>2. QED BY <2>1, <3>1
  <2>6. have' = {}
    BY <1>2, <1>3, <2>1 DEF Again
  <2>7. Now' = Start(tree) /\ Now'[3] = passes'[n + 1]
    BY <2>1, <2>2, <2>5, <2>6 DEF Now, Start
  <2>8. Reached(Sides, tree, Now')
    BY <2>7, StartReached
  <2>9. \A j \in 1..(n + 1) : j \in 1..n \/ j = n + 1
    BY <2>3
  <2>10. \A j \in 1..(n + 1) : \E x : Reached(Sides, tree, x) /\ x[3] = passes'[j]
    BY <1>1, <2>2, <2>3, <2>7, <2>8, <2>9
  <2>11. walker'["base"] = <<Walker(tree["base"])>>
    BY <1>3, <2>4
  <2>12. QED BY <1>4, <2>3, <2>8, <2>10, <2>11 DEF RepeatInv
<1>8. QED BY <1>5, <1>6, <1>7 DEF Next

\* After a Reset the comparison of two trees gives the rows it gave before, however far
\* either pass was taken.
THEOREM PassesRepeat == Spec => []Repeats
<1>1. RepeatInv => Repeats
  BY ReachedNest DEF RepeatInv, Repeats
<1>2. QED BY DiffInit, DiffStep, RepeatInit, RepeatStep, <1>1, PTL DEF Spec

-----------------------------------------------------------------------------
(***************************************************************************)
(* No call of MoveNext is in vain.                                         *)
(***************************************************************************)

\* What a side has not reported yet, lost entries included.
Awaited(s) == {u \in Place : \/ u \in ToCome(tree[s], walker[s])
                             \/ s \in have /\ u = Here(walker[s])}

\* A call that does not end the enumeration leaves less to be awaited, of one side at least,
\* also when it throws.
Advances == Forward => \/ ended'
                       \/ /\ \A s \in Sides : \A u \in Awaited(s)' : u \in Awaited(s)
                          /\ \E s \in Sides : \E u \in Awaited(s) : u \notin Awaited(s)'

LEMMA NotBeforeItself ==
  ASSUME NEW p \in Place
  PROVE  ~Precedes(p, p)
<1>1. p \in Seq(Nat) /\ DOMAIN p = 1..Len(p) /\ \A j \in 1..Len(p) : p[j] \in Nat
  BY PlaceMeans
<1>2. \A j \in DOMAIN p \cap DOMAIN p : ~(p[j] < p[j])
  BY <1>1
<1>3. ~IsStrictPrefix(p, p)
  BY DEF IsStrictPrefix
<1>4. QED BY <1>2, <1>3 DEF Precedes

\* Of the sides that throw the first is asked.
LEMMA LostIsAsked ==
  ASSUME DiffInv, Lost # {}
  PROVE  \E s \in Lost : s \in Asked
<1>1. Lost \subseteq Sides \ have /\ Sides \subseteq {"left", "right", "base"}
  BY DEF Lost, Sides, Side
<1>2. /\ Behind("left") = {"right", "base"} /\ Behind("right") = {"base"}
      /\ Behind("base") = {}
  BY DEF Behind
<1>3. CASE "left" \in Lost
  BY <1>1, <1>2, <1>3 DEF Asked
<1>4. CASE "left" \notin Lost /\ "right" \in Lost
  BY <1>1, <1>2, <1>4 DEF Asked
<1>5. CASE "left" \notin Lost /\ "right" \notin Lost
  <2>1. Lost = {"base"}
    BY <1>1, <1>5
  <2>2. QED BY <1>1, <1>2, <2>1 DEF Asked
<1>6. QED BY <1>3, <1>4, <1>5

LEMMA SideLoses ==
  ASSUME NEW t \in Root, NEW w, Chain(t, w), Unfinished(w) # {}
  PROVE  \E p \in ToCome(t, w) : p \notin ToCome(t, Advanced(w))
<1> DEFINE u == Advanced(w)
           p == Position(Moved(w))
<1>1. p \in Place /\ p \in ToCome(t, w) /\ \A q \in ToCome(t, u) : Precedes(p, q)
  BY AdvancedMeans
<1> HIDE DEF u, p
<1>2. p \notin ToCome(t, u)
  BY <1>1, NotBeforeItself
<1>3. QED BY <1>1, <1>2 DEF u

LEMMA AwaitedShrinks ==
  ASSUME DiffInv, Forward
  PROVE  \A s \in Sides : \A u \in Awaited(s)' : u \in Awaited(s)
<1> SUFFICES ASSUME NEW s \in Sides, NEW u \in Awaited(s)' PROVE u \in Awaited(s)
  OBVIOUS
<1>1. walker' = Walked /\ tree' = tree /\ have' \subseteq Had
  BY HadMeans DEF Forward, MoveNext, MoveNextThrows, MoveNextEnds
<1>2. /\ u \in Place
      /\ u \in ToCome(tree[s], Walked[s]) \/ (s \in Had /\ u = Here(Walked[s]))
  BY <1>1 DEF Awaited
<1>3. /\ ToCome(tree[s], Walked[s]) \subseteq ToCome(tree[s], walker[s])
      /\ s \in Had => \/ s \in have /\ Walked[s] = walker[s]
                      \/ Here(Walked[s]) \in ToCome(tree[s], walker[s])
  BY Asking
<1>4. QED BY <1>2, <1>3 DEF Awaited

\* Trees have finitely many entries, so a caller that goes on comes to the end.
THEOREM EveryCallAdvances == Spec => [][Advances]_vars
<1>1. DiffInv /\ [Next]_vars => [Advances]_vars
  <2> SUFFICES ASSUME DiffInv, Forward, ~ended'
               PROVE  /\ \A s \in Sides : \A u \in Awaited(s)' : u \in Awaited(s)
                      /\ \E s \in Sides : \E u \in Awaited(s) : u \notin Awaited(s)'
    BY DEF Advances
  <2>1. Sides \subseteq Side /\ \A s \in Side : tree[s] \in Root
    BY SidesMean DEF DiffInv
  <2>2. CASE MoveNext
    <3>1. /\ tree' = tree /\ walker' = Walked /\ have' = Had \ Taken
          /\ Taken # {} /\ Taken \subseteq Had
      BY <2>2, MoveNextMeans
    <3>2. PICK s \in Taken : s \in Sides
      BY <3>1, HadMeans
    <3> DEFINE u == Here(Walked[s])
    <3>3. /\ Come(tree[s], Reported(passes, s), Walked[s])
          /\ \/ s \in have /\ Walked[s] = walker[s]
             \/ u \in ToCome(tree[s], walker[s])
      BY <3>1, <3>2, Asking
    <3>4. u \in Place /\ \A q \in ToCome(tree[s], Walked[s]) : Precedes(u, q)
      BY <3>3 DEF Come, Listed
    <3> HIDE DEF u
    <3>5. u \notin ToCome(tree[s], Walked[s])
      BY <3>4, NotBeforeItself
    <3>6. u \in Awaited(s) /\ u \notin Awaited(s)'
      BY <3>1, <3>2, <3>3, <3>4, <3>5 DEF Awaited, u
    <3>7. QED BY <3>2, <3>6, AwaitedShrinks
  <2>3. CASE MoveNextThrows
    <3>1. tree' = tree /\ walker' = Walked /\ have' = Had /\ Lost # {}
      BY <2>3 DEF MoveNextThrows
    <3>2. PICK s \in Lost : s \in Asked
      BY <3>1, LostIsAsked
    <3>3. /\ s \in Sides /\ s \in Side /\ s \notin have /\ s \notin Had
          /\ Throws(walker[s]) /\ Walked[s] = Advanced(walker[s])
      BY <2>1, <3>2 DEF Lost, Had, Walked
    <3>4. Chain(tree[s], walker[s]) /\ Unfinished(walker[s]) # {} /\ tree[s] \in Root
      BY <2>1, <3>3 DEF DiffInv, Chains, Throws
    <3>5. PICK p \in ToCome(tree[s], walker[s]) : p \notin ToCome(tree[s], Advanced(walker[s]))
      BY <3>4, SideLoses
    <3>6. p \in Awaited(s) /\ p \notin Awaited(s)'
      BY <3>1, <3>3, <3>5 DEF Awaited, ToCome
    <3>7. QED BY <3>3, <3>6, AwaitedShrinks
  <2>4. ~MoveNextEnds
    BY DEF MoveNextEnds
  <2>5. QED BY <2>2, <2>3, <2>4 DEF Forward
<1>2. QED BY DiffInit, DiffStep, <1>1, PTL DEF Spec
=============================================================================
