----------------------------- MODULE PathLemmas -----------------------------
(***************************************************************************)
(* Facts about sequences, which paths and positions in trees are, and the  *)
(* well-ordering of the naturals, from which what needs induction is       *)
(* proved.                                                                 *)
(***************************************************************************)
EXTENDS Integers, SequencesExt, SequenceTheorems, WellFoundedInduction, TLAPS

\* A set of naturals has a least element.
LEMMA LeastNatural ==
  ASSUME NEW S \in SUBSET Nat, S # {}
  PROVE  \E m \in S : \A k \in S : m <= k
<1>1. IsWellFoundedOn({ss \in Nat \X Nat : ss[1] < ss[2]}, Nat)
  BY NatLessThanWellFounded DEF OpToRel
<1>2. PICK m \in S : \A k \in S : <<k, m>> \notin {ss \in Nat \X Nat : ss[1] < ss[2]}
  BY <1>1, WFMin, Zenon
<1>3. \A k \in S : ~(k < m)
  BY <1>2
<1>4. QED BY <1>2, <1>3

\* The first components of a sequence.
LEMMA Beginning ==
  ASSUME NEW S, NEW s \in Seq(S), NEW n \in 0..Len(s)
  PROVE  /\ SubSeq(s, 1, n) \in Seq(S)
         /\ Len(SubSeq(s, 1, n)) = n
         /\ \A k \in 1..n : SubSeq(s, 1, n)[k] = s[k]
<1>1. Len(s) \in Nat /\ \A k \in 1..n : s[k] \in S
  BY LenProperties
<1>2. QED BY <1>1, SubSeqProperties

\* One sequence begins another when the two agree on its length.
LEMMA PrefixMeans ==
  ASSUME NEW S, NEW s \in Seq(S), NEW t \in Seq(S)
  PROVE  IsPrefix(s, t) <=> Len(s) <= Len(t) /\ \A k \in 1..Len(s) : s[k] = t[k]
<1>1. Len(s) \in Nat /\ Len(t) \in Nat
  BY LenProperties
<1>2. SubSeq(s, 1, Len(s)) = s
  BY SubSeqFull
<1>3. CASE Len(s) <= Len(t)
  <2>1. /\ SubSeq(t, 1, Len(s)) \in Seq(S)
        /\ Len(SubSeq(t, 1, Len(s))) = Len(s)
        /\ \A k \in 1..Len(s) : SubSeq(t, 1, Len(s))[k] = t[k]
    BY <1>1, <1>3, Beginning
  <2>2. (\A k \in 1..Len(s) : s[k] = t[k]) => s = SubSeq(t, 1, Len(s))
    BY <2>1, SeqEqual
  <2>3. s = SubSeq(t, 1, Len(s)) => \A k \in 1..Len(s) : s[k] = t[k]
    BY <2>1, Zenon
  <2>4. QED BY <1>2, <1>3, <2>2, <2>3 DEF IsPrefix
<1>4. CASE ~(Len(s) <= Len(t))
  BY <1>4 DEF IsPrefix
<1>5. QED BY <1>3, <1>4

LEMMA PrefixTransitive ==
  ASSUME NEW S, NEW s \in Seq(S), NEW t \in Seq(S), NEW u \in Seq(S),
         IsPrefix(s, t), IsPrefix(t, u)
  PROVE  IsPrefix(s, u)
<1>1. Len(s) \in Nat /\ Len(t) \in Nat /\ Len(u) \in Nat
  BY LenProperties
<1>2. QED BY <1>1, PrefixMeans

\* Two beginnings of one sequence: the shorter begins the longer.
LEMMA PrefixesNest ==
  ASSUME NEW S, NEW s \in Seq(S), NEW t \in Seq(S), NEW u \in Seq(S),
         IsPrefix(s, u), IsPrefix(t, u), Len(s) <= Len(t)
  PROVE  IsPrefix(s, t)
<1>1. Len(s) \in Nat /\ Len(t) \in Nat /\ Len(u) \in Nat
  BY LenProperties
<1>2. QED BY <1>1, PrefixMeans

LEMMA PrefixLength ==
  ASSUME NEW S, NEW s \in Seq(S), NEW t \in Seq(S), IsPrefix(s, t)
  PROVE  /\ Len(s) \in Nat /\ Len(t) \in Nat /\ Len(s) <= Len(t)
         /\ Len(s) = Len(t) => s = t
         /\ IsPrefix(t, s) => s = t
<1>1. Len(s) \in Nat /\ Len(t) \in Nat
  BY LenProperties
<1>2. Len(s) <= Len(t) /\ \A k \in 1..Len(s) : s[k] = t[k]
  BY PrefixMeans
<1>3. Len(s) = Len(t) => s = t
  BY <1>2, SeqEqual
<1>4. IsPrefix(t, s) => Len(t) <= Len(s)
  BY PrefixMeans
<1>5. QED BY <1>1, <1>2, <1>3, <1>4

LEMMA PrefixReflexive ==
  ASSUME NEW S, NEW s \in Seq(S)
  PROVE  IsPrefix(s, s) /\ IsPrefix(<<>>, s)
<1>1. Len(s) \in Nat
  BY LenProperties
<1>2. IsPrefix(s, s)
  BY <1>1, PrefixMeans
<1>3. ASSUME NEW e \in Seq(S), Len(e) = 0 PROVE IsPrefix(e, s)
  <2>1. Len(e) <= Len(s)
    BY <1>1, <1>3
  <2>2. \A k \in 1..Len(e) : e[k] = s[k]
    BY <1>3
  <2>3. QED BY <2>1, <2>2, PrefixMeans, Zenon
<1>4. QED BY <1>2, <1>3, EmptySeq

\* The beginning of a sequence, as a prefix.
LEMMA BeginningIsPrefix ==
  ASSUME NEW S, NEW s \in Seq(S), NEW n \in 0..Len(s)
  PROVE  IsPrefix(SubSeq(s, 1, n), s)
<1> DEFINE t == SubSeq(s, 1, n)
<1>1. Len(s) \in Nat
  BY LenProperties
<1>2. t \in Seq(S) /\ Len(t) = n /\ \A k \in 1..n : t[k] = s[k]
  BY Beginning
<1> HIDE DEF t
<1>3. IsPrefix(t, s)
  BY <1>1, <1>2, PrefixMeans
<1>4. QED BY <1>3 DEF t

\* What Front leaves of a path: the directory it is in.
LEMMA FrontMeans ==
  ASSUME NEW S, NEW s \in Seq(S)
  PROVE  /\ Front(s) \in Seq(S)
         /\ IsPrefix(Front(s), s)
         /\ s # <<>> => Len(Front(s)) = Len(s) - 1
         /\ s = <<>> => Front(s) = <<>>
<1>1. Len(s) \in Nat
  BY LenProperties
<1>2. CASE s = <<>>
  <2>1. Front(s) = <<>>
    BY <1>2, EmptySeq, SubSeqEmpty DEF Front
  <2>2. QED BY <1>2, <2>1, PrefixReflexive
<1>3. CASE s # <<>>
  <2>1. Len(s) - 1 \in 0..Len(s)
    BY <1>1, <1>3, EmptySeq
  <2>2. QED BY <1>3, <2>1, Beginning, BeginningIsPrefix DEF Front
<1>4. QED BY <1>2, <1>3

\* What is strictly above a path is above, or is, the directory it is in.
LEMMA PrefixOfFront ==
  ASSUME NEW S, NEW s \in Seq(S), NEW t \in Seq(S), IsPrefix(s, t), s # t
  PROVE  IsPrefix(s, Front(t)) /\ t # <<>>
<1>1. Len(s) \in Nat /\ Len(t) \in Nat /\ Len(s) <= Len(t) /\ Len(s) # Len(t)
  BY PrefixLength
<1>2. t # <<>>
  BY <1>1, EmptySeq
<1>3. QED BY <1>1, <1>2, FrontMeans, PrefixesNest

\* Prefixes are the sequences that begin it.
LEMMA PrefixesMeans ==
  ASSUME NEW S, NEW s \in Seq(S)
  PROVE  Prefixes(s) = {p \in Seq(S) : IsPrefix(p, s)}
<1>1. Len(s) \in Nat
  BY LenProperties
<1>2. ASSUME NEW p \in Prefixes(s) PROVE p \in Seq(S) /\ IsPrefix(p, s)
  <2>1. PICK n \in 0..Len(s) : p = SubSeq(s, 1, n)
    BY <1>2 DEF Prefixes
  <2>2. SubSeq(s, 1, n) \in Seq(S)
    BY Beginning
  <2>3. IsPrefix(SubSeq(s, 1, n), s)
    BY BeginningIsPrefix
  <2>4. QED BY <2>1, <2>2, <2>3, Zenon
<1>3. ASSUME NEW p \in Seq(S), IsPrefix(p, s) PROVE p \in Prefixes(s)
  <2>1. Len(p) \in 0..Len(s)
    BY <1>1, <1>3, PrefixLength
  <2>2. p = SubSeq(s, 1, Len(p))
    BY <1>3, SubSeqFull DEF IsPrefix
  <2>3. QED BY <2>1, <2>2 DEF Prefixes
<1>4. QED BY <1>2, <1>3

\* The last entry of a sequence that one is appended to.
LEMMA Appending ==
  ASSUME NEW S, NEW s \in Seq(S), NEW e \in S
  PROVE  /\ Append(s, e) \in Seq(S)
         /\ Len(Append(s, e)) = Len(s) + 1
         /\ DOMAIN s = 1..Len(s)
         /\ DOMAIN Append(s, e) = 1..(Len(s) + 1)
         /\ \A k \in 1..Len(s) : Append(s, e)[k] = s[k]
         /\ Append(s, e)[Len(s) + 1] = e
<1>1. Len(s) \in Nat /\ DOMAIN s = 1..Len(s)
  BY LenProperties
<1>2. QED BY <1>1, AppendProperties, LenProperties
=============================================================================
