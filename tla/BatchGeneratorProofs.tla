-------------------------- MODULE BatchGeneratorProofs --------------------------
(***************************************************************************)
(* Proofs about BatchGenerator.                                            *)
(***************************************************************************)
EXTENDS BatchGenerator, ListTheorems

(* A request of the queue: the last token of its prompt is a segment.      *)
Job == [uid : Nat, segments : Seq(Nat \ {0}), limit : Nat \ {0},
        history : Nat, bytes : Nat, age : Nat]
Waiting == {job \in Job : job.segments # <<>> /\ Last(job.segments) = 1}

--------------------------------------------------------------------------------
(* Lists of requests.                                                      *)

(* The requests that filter keeps are those of the chosen rows, still      *)
(* apart.                                                                  *)
LEMMA RowsUids ==
    ASSUME NEW R, NEW s \in Seq(R), NEW kept
    PROVE  /\ Uids(Rows(s, kept)) = {s[i].uid : i \in kept \cap DOMAIN s}
           /\ Distinct(s) => Distinct(Rows(s, kept))
           /\ \A k \in DOMAIN Rows(s, kept) : \E i \in kept \cap DOMAIN s : Rows(s, kept)[k] = s[i]
           /\ Len(Rows(s, kept)) <= Len(s) /\ Len(Rows(s, kept)) \in Nat
<1>0. /\ Rows(s, kept) \in Seq(R)
      /\ Len(Rows(s, kept)) = Cardinality(kept \cap DOMAIN s)
      /\ Cardinality(kept \cap DOMAIN s) \in Nat
      /\ \E nth : Picks(s, kept, nth)
  BY RowsEffect
<1>5. Len(Rows(s, kept)) <= Len(s)
  <2>1. Cardinality(kept \cap DOMAIN s) <= Cardinality(DOMAIN s)
    BY ListDomain, FS_Subset
  <2>2. QED
    BY <1>0, <2>1, ListDomain
<1> PICK nth : Picks(s, kept, nth)
  BY <1>0
<1>1. /\ nth \in [1..Cardinality(kept \cap DOMAIN s) -> kept \cap DOMAIN s]
      /\ \A k \in DOMAIN nth : nth[k] \in kept \cap DOMAIN s /\ Rows(s, kept)[k] = s[nth[k]]
      /\ \A k, l \in DOMAIN nth : nth[k] = nth[l] => k = l
      /\ \A i \in kept \cap DOMAIN s : \E k \in DOMAIN nth : nth[k] = i
  BY DEF Picks
<1>2. DOMAIN Rows(s, kept) = DOMAIN nth /\ Len(Rows(s, kept)) \in Nat
  BY <1>0, <1>1
<1>3. Uids(Rows(s, kept)) = {s[i].uid : i \in kept \cap DOMAIN s}
  <2>2. ASSUME NEW u \in Uids(Rows(s, kept)) PROVE u \in {s[i].uid : i \in kept \cap DOMAIN s}
    <3>1. PICK k \in DOMAIN nth : u = Rows(s, kept)[k].uid
      BY <1>2 DEF Uids
    <3>2. QED
      BY <1>1, <3>1
  <2>3. ASSUME NEW i \in kept \cap DOMAIN s PROVE s[i].uid \in Uids(Rows(s, kept))
    <3>1. PICK k \in DOMAIN nth : nth[k] = i
      BY <1>1
    <3>2. Rows(s, kept)[k] = s[i]
      BY <1>1, <3>1
    <3>3. QED
      BY <1>2, <3>2 DEF Uids
  <2>4. QED
    BY <2>2, <2>3
<1>4. Distinct(s) => Distinct(Rows(s, kept))
  <2> SUFFICES ASSUME Distinct(s), NEW k \in DOMAIN Rows(s, kept), NEW l \in DOMAIN Rows(s, kept),
                      Rows(s, kept)[k].uid = Rows(s, kept)[l].uid
               PROVE  k = l
    BY DEF Distinct
  <2>1. nth[k] \in DOMAIN s /\ nth[l] \in DOMAIN s /\ s[nth[k]].uid = s[nth[l]].uid
    BY <1>1, <1>2
  <2>2. nth[k] = nth[l]
    BY <2>1 DEF Distinct
  <2>3. QED
    BY <1>1, <1>2, <2>2
<1>6. QED
  BY <1>1, <1>2, <1>3, <1>4, <1>5

(* The number of distinct requests of a list is its length.                *)
LEMMA DistinctCount ==
    ASSUME NEW R, NEW s \in Seq(R), Distinct(s)
    PROVE  IsFiniteSet(Uids(s)) /\ Cardinality(Uids(s)) = Len(s) /\ Len(s) \in Nat
<1> DEFINE f == [i \in 1..Len(s) |-> s[i].uid]
<1>1. DOMAIN s = 1..Len(s) /\ Len(s) \in Nat
  OBVIOUS
<1>2. IsFiniteSet(1..Len(s)) /\ Cardinality(1..Len(s)) = Len(s)
  BY <1>1, FS_Interval
<1>3. f \in Bijection(1..Len(s), Uids(s))
  BY <1>1 DEF Bijection, Injection, Surjection, IsInjective, Uids, Distinct
<1>4. ExistsBijection(1..Len(s), Uids(s))
  BY <1>3 DEF ExistsBijection
<1>5. QED
  BY <1>1, <1>2, <1>4, FS_Bijection

(* One list after another.                                                 *)
LEMMA Concat ==
    ASSUME NEW R, NEW s \in Seq(R), NEW t \in Seq(R)
    PROVE  /\ s \o t \in Seq(R) /\ Len(s \o t) = Len(s) + Len(t)
           /\ Uids(s \o t) = Uids(s) \cup Uids(t)
           /\ Distinct(s) /\ Distinct(t) /\ Uids(s) \cap Uids(t) = {} => Distinct(s \o t)
           /\ \A k \in DOMAIN (s \o t) : \/ \E i \in DOMAIN s : (s \o t)[k] = s[i]
                                         \/ \E i \in DOMAIN t : (s \o t)[k] = t[i]
<1>1. /\ s \o t \in Seq(R) /\ Len(s \o t) = Len(s) + Len(t)
      /\ DOMAIN s = 1..Len(s) /\ DOMAIN t = 1..Len(t) /\ Len(s) \in Nat /\ Len(t) \in Nat
      /\ DOMAIN (s \o t) = 1..(Len(s) + Len(t))
  OBVIOUS
<1>2. \A i \in 1..Len(s) : i \in DOMAIN (s \o t) /\ (s \o t)[i] = s[i]
  BY <1>1
<1>3. \A i \in 1..Len(t) : Len(s) + i \in DOMAIN (s \o t) /\ (s \o t)[Len(s) + i] = t[i]
  BY <1>1
<1>4. ASSUME NEW k \in DOMAIN (s \o t)
      PROVE  k \in 1..Len(s) \/ (k - Len(s) \in 1..Len(t) /\ k = Len(s) + (k - Len(s)))
  BY <1>1
<1>5. \A k \in DOMAIN (s \o t) : \/ k \in 1..Len(s) /\ (s \o t)[k] = s[k]
                                 \/ k - Len(s) \in 1..Len(t) /\ (s \o t)[k] = t[k - Len(s)]
  BY <1>2, <1>3, <1>4
<1>6. Uids(s \o t) = Uids(s) \cup Uids(t)
  <2>1. \A i \in 1..Len(s) : s[i].uid \in Uids(s \o t)
    BY <1>2 DEF Uids
  <2>2. \A i \in 1..Len(t) : t[i].uid \in Uids(s \o t)
    BY <1>3 DEF Uids
  <2>3. \A k \in DOMAIN (s \o t) : (s \o t)[k].uid \in Uids(s) \cup Uids(t)
    BY <1>1, <1>5 DEF Uids
  <2>4. \A u \in Uids(s) \cup Uids(t) : u \in Uids(s \o t)
    BY <1>1, <2>1, <2>2 DEF Uids
  <2>5. \A u \in Uids(s \o t) : u \in Uids(s) \cup Uids(t)
    <3> USE <2>3
    <3> QED
      BY DEF Uids
  <2>6. QED
    BY <2>4, <2>5
<1>7. ASSUME Distinct(s), Distinct(t), Uids(s) \cap Uids(t) = {} PROVE Distinct(s \o t)
  <2> SUFFICES ASSUME NEW k \in DOMAIN (s \o t), NEW l \in DOMAIN (s \o t),
                      (s \o t)[k].uid = (s \o t)[l].uid
               PROVE  k = l
    BY DEF Distinct
  <2>1. CASE k \in 1..Len(s) /\ l \in 1..Len(s)
    BY <1>1, <1>2, <1>7, <2>1 DEF Distinct
  <2>2. CASE k - Len(s) \in 1..Len(t) /\ l - Len(s) \in 1..Len(t)
    <3>1. t[k - Len(s)].uid = t[l - Len(s)].uid
      BY <1>1, <1>3, <1>4, <2>2
    <3>2. k - Len(s) = l - Len(s)
      BY <1>1, <1>7, <2>2, <3>1 DEF Distinct
    <3>3. QED
      BY <1>1, <2>2, <3>2
  <2>3. CASE k \in 1..Len(s) /\ l - Len(s) \in 1..Len(t)
    <3>1. (s \o t)[k].uid \in Uids(s) /\ (s \o t)[l].uid \in Uids(t)
      BY <1>1, <1>2, <1>3, <1>4, <2>3 DEF Uids
    <3>2. QED
      BY <1>7, <3>1
  <2>4. CASE k - Len(s) \in 1..Len(t) /\ l \in 1..Len(s)
    <3>1. (s \o t)[l].uid \in Uids(s) /\ (s \o t)[k].uid \in Uids(t)
      BY <1>1, <1>2, <1>3, <1>4, <2>4 DEF Uids
    <3>2. QED
      BY <1>7, <3>1
  <2>5. QED
    BY <1>4, <2>1, <2>2, <2>3, <2>4
<1>8. QED
  BY <1>1, <1>5, <1>6, <1>7

(* The empty list.                                                         *)
LEMMA NoRows ==
    ASSUME NEW R
    PROVE  <<>> \in Seq(R) /\ Len(<<>>) = 0 /\ Uids(<<>>) = {} /\ Distinct(<<>>)
<1>1. <<>> \in Seq(R) /\ Len(<<>>) = 0 /\ DOMAIN <<>> = {}
  OBVIOUS
<1>2. QED
  BY <1>1 DEF Uids, Distinct

(* What is kept may be of a narrower kind.                                 *)
LEMMA RowsIn ==
    ASSUME NEW R, NEW s \in Seq(R), NEW kept, NEW T, \A i \in kept \cap DOMAIN s : s[i] \in T
    PROVE  Rows(s, kept) \in Seq(T)
<1>1. Rows(s, kept) \in Seq(R)
  BY RowsEffect
<1>2. \A k \in DOMAIN Rows(s, kept) : Rows(s, kept)[k] \in T
  BY RowsUids
<1>3. QED
  BY <1>1, <1>2, ListOf

(* Rows that are kept here and rows that are kept there.                   *)
LEMMA RowsApart ==
    ASSUME NEW R, NEW s \in Seq(R), Distinct(s), NEW A, NEW B, A \cap B \cap DOMAIN s = {}
    PROVE  Uids(Rows(s, A)) \cap Uids(Rows(s, B)) = {}
<1>1. /\ Uids(Rows(s, A)) = {s[i].uid : i \in A \cap DOMAIN s}
      /\ Uids(Rows(s, B)) = {s[i].uid : i \in B \cap DOMAIN s}
  BY RowsUids
<1>2. QED
  BY <1>1 DEF Distinct

(* What filter keeps and what it drops is together what there was.         *)
LEMMA RowsSplit ==
    ASSUME NEW R, NEW s \in Seq(R), NEW A
    PROVE  Uids(Rows(s, A)) \cup Uids(Rows(s, DOMAIN s \ A)) = Uids(s)
<1>1. /\ Uids(Rows(s, A)) = {s[i].uid : i \in A \cap DOMAIN s}
      /\ Uids(Rows(s, DOMAIN s \ A)) = {s[i].uid : i \in (DOMAIN s \ A) \cap DOMAIN s}
  BY RowsUids
<1>2. QED
  BY <1>1 DEF Uids

(* A row may change, but for its uid.                                      *)
LEMMA SameUids ==
    ASSUME NEW s, NEW t, DOMAIN t = DOMAIN s, \A i \in DOMAIN s : t[i].uid = s[i].uid
    PROVE  Uids(t) = Uids(s) /\ (Distinct(s) => Distinct(t))
  BY DEF Uids, Distinct

(* remove of one request.                                                  *)
LEMMA WithoutOne ==
    ASSUME NEW R, NEW s \in Seq(R), NEW u
    PROVE  /\ Without(s, u) \in Seq(R) /\ Len(Without(s, u)) <= Len(s)
           /\ Uids(Without(s, u)) = Uids(s) \ {u}
           /\ Distinct(s) => Distinct(Without(s, u))
<1> DEFINE kept == {i \in DOMAIN s : s[i].uid # u}
<1>1. Without(s, u) = Rows(s, kept)
  BY DEF Without
<1>2. Uids(Rows(s, kept)) = {s[i].uid : i \in kept \cap DOMAIN s}
  BY RowsUids
<1>3. {s[i].uid : i \in kept \cap DOMAIN s} = Uids(s) \ {u}
  BY DEF Uids
<1> HIDE DEF kept
<1>4. Rows(s, kept) \in Seq(R)
  BY RowsEffect
<1>5. Len(Rows(s, kept)) <= Len(s) /\ (Distinct(s) => Distinct(Rows(s, kept)))
  BY RowsUids
<1>6. QED
  BY <1>1, <1>2, <1>3, <1>4, <1>5

(* A list of one row.                                                      *)
LEMMA OneRow ==
    ASSUME NEW R, NEW e \in R
    PROVE  <<e>> \in Seq(R) /\ Uids(<<e>>) = {e.uid} /\ Distinct(<<e>>) /\ Len(<<e>>) = 1
<1>1. <<e>> \in Seq(R) /\ DOMAIN <<e>> = {1} /\ <<e>>[1] = e /\ Len(<<e>>) = 1
  OBVIOUS
<1>2. QED
  BY <1>1 DEF Uids, Distinct

(* The first row of a list goes elsewhere.                                 *)
LEMMA HeadLeaves ==
    ASSUME NEW R, NEW s \in Seq(R), s # <<>>
    PROVE  /\ Head(s) \in R /\ Tail(s) \in Seq(R)
           /\ {Head(s).uid} \cup Uids(Tail(s)) = Uids(s)
           /\ Distinct(s) => Distinct(Tail(s)) /\ Head(s).uid \notin Uids(Tail(s))
<1>1. /\ Head(s) \in R /\ Tail(s) \in Seq(R) /\ Head(s) = s[1] /\ Len(s) \in Nat /\ Len(s) > 0
      /\ DOMAIN s = 1..Len(s) /\ DOMAIN Tail(s) = 1..(Len(s) - 1)
      /\ \A i \in 1..(Len(s) - 1) : Tail(s)[i] = s[i + 1]
  OBVIOUS
<1>2. 1 \in DOMAIN s /\ \A i \in 1..(Len(s) - 1) : i + 1 \in DOMAIN s /\ i + 1 # 1
  BY <1>1
<1>3. \A i \in DOMAIN s : i = 1 \/ (i - 1 \in DOMAIN Tail(s) /\ Tail(s)[i - 1] = s[i])
  BY <1>1
<1>4. {Head(s).uid} \cup Uids(Tail(s)) = Uids(s)
  <2>1. \A u \in Uids(s) : u = Head(s).uid \/ u \in Uids(Tail(s))
    <3> TAKE u \in Uids(s)
    <3>1. PICK i \in DOMAIN s : u = s[i].uid
      BY DEF Uids
    <3>2. CASE i = 1
      BY <1>1, <3>1, <3>2
    <3>3. CASE i - 1 \in DOMAIN Tail(s) /\ Tail(s)[i - 1] = s[i]
      BY <3>1, <3>3 DEF Uids
    <3>4. QED
      BY <1>3, <3>2, <3>3
  <2>2. Head(s).uid \in Uids(s)
    BY <1>1, <1>2 DEF Uids
  <2>3. \A u \in Uids(Tail(s)) : u \in Uids(s)
    <3> TAKE u \in Uids(Tail(s))
    <3>1. PICK i \in DOMAIN Tail(s) : u = Tail(s)[i].uid
      BY DEF Uids
    <3>2. i + 1 \in DOMAIN s /\ u = s[i + 1].uid
      BY <1>1, <1>2, <3>1
    <3>3. QED
      BY <3>2 DEF Uids
  <2>4. QED
    BY <2>1, <2>2, <2>3
<1>5. ASSUME Distinct(s) PROVE Distinct(Tail(s)) /\ Head(s).uid \notin Uids(Tail(s))
  <2>1. ASSUME NEW i \in DOMAIN Tail(s), NEW j \in DOMAIN Tail(s), Tail(s)[i].uid = Tail(s)[j].uid
        PROVE  i = j
    <3>1. i + 1 \in DOMAIN s /\ j + 1 \in DOMAIN s /\ s[i + 1].uid = s[j + 1].uid
      BY <1>1, <1>2, <2>1
    <3>2. i + 1 = j + 1
      BY <1>5, <3>1 DEF Distinct
    <3>3. QED
      BY <1>1, <3>2
  <2>2. ASSUME NEW i \in DOMAIN Tail(s), Tail(s)[i].uid = Head(s).uid PROVE FALSE
    <3>1. i + 1 \in DOMAIN s /\ 1 \in DOMAIN s /\ s[i + 1].uid = s[1].uid /\ i + 1 # 1
      BY <1>1, <1>2, <2>2
    <3>2. QED
      BY <1>5, <3>1 DEF Distinct
  <2>3. QED
    BY <2>1, <2>2 DEF Distinct, Uids
<1>6. QED
  BY <1>1, <1>4, <1>5

(* Every row goes one of three ways.                                       *)
LEMMA ThreeWays ==
    ASSUME NEW R, NEW s \in Seq(R), Distinct(s), NEW A, NEW B, NEW C,
           A \cap B = {}, A \cap C = {}, B \cap C = {}, A \cup B \cup C = DOMAIN s
    PROVE  /\ Rows(s, A) \in Seq(R) /\ Rows(s, B) \in Seq(R) /\ Rows(s, C) \in Seq(R)
           /\ Distinct(Rows(s, A)) /\ Distinct(Rows(s, B)) /\ Distinct(Rows(s, C))
           /\ Uids(Rows(s, A)) \cap Uids(Rows(s, B)) = {}
           /\ Uids(Rows(s, A)) \cap Uids(Rows(s, C)) = {}
           /\ Uids(Rows(s, B)) \cap Uids(Rows(s, C)) = {}
           /\ Uids(Rows(s, A)) \cup Uids(Rows(s, B)) \cup Uids(Rows(s, C)) = Uids(s)
<1>1. Rows(s, A) \in Seq(R) /\ Rows(s, B) \in Seq(R) /\ Rows(s, C) \in Seq(R)
  BY RowsEffect
<1>2. Distinct(Rows(s, A)) /\ Distinct(Rows(s, B)) /\ Distinct(Rows(s, C))
  BY RowsUids
<1>3. Uids(Rows(s, A)) \cap Uids(Rows(s, B)) = {}
  BY RowsApart
<1>4. Uids(Rows(s, A)) \cap Uids(Rows(s, C)) = {}
  BY RowsApart
<1>5. Uids(Rows(s, B)) \cap Uids(Rows(s, C)) = {}
  BY RowsApart
<1>6. Uids(Rows(s, A)) \cup Uids(Rows(s, B)) \cup Uids(Rows(s, C)) = Uids(s)
  <2>1. /\ Uids(Rows(s, A)) = {s[i].uid : i \in A \cap DOMAIN s}
        /\ Uids(Rows(s, B)) = {s[i].uid : i \in B \cap DOMAIN s}
        /\ Uids(Rows(s, C)) = {s[i].uid : i \in C \cap DOMAIN s}
    BY RowsUids
  <2>2. {s[i].uid : i \in A \cap DOMAIN s} \cup {s[i].uid : i \in B \cap DOMAIN s}
          \cup {s[i].uid : i \in C \cap DOMAIN s} = {s[i].uid : i \in DOMAIN s}
    OBVIOUS
  <2>3. QED
    BY <2>1, <2>2 DEF Uids
<1>7. QED
  BY <1>1, <1>2, <1>3, <1>4, <1>5, <1>6

(* Places in lists put together and in parts of lists.                     *)
LEMMA ConcatAt ==
    ASSUME NEW R, NEW s \in Seq(R), NEW t \in Seq(R)
    PROVE  /\ s \o t \in Seq(R) /\ Len(s \o t) = Len(s) + Len(t)
           /\ DOMAIN (s \o t) = 1..(Len(s) + Len(t))
           /\ \A i \in 1..Len(s) : (s \o t)[i] = s[i]
           /\ \A i \in 1..Len(t) : (s \o t)[Len(s) + i] = t[i]
  OBVIOUS

(* A stretch of a list.                                                    *)
LEMMA PartOf ==
    ASSUME NEW R, NEW s \in Seq(R), NEW a \in 1..(Len(s) + 1), NEW b \in 0..Len(s), a <= b + 1
    PROVE  /\ SubSeq(s, a, b) \in Seq(R) /\ Len(SubSeq(s, a, b)) = b - a + 1
           /\ DOMAIN SubSeq(s, a, b) = 1..(b - a + 1)
           /\ \A k \in 1..(b - a + 1) : SubSeq(s, a, b)[k] = s[k + a - 1]
<1>1. SubSeq(s, a, b) \in Seq(R)
  OBVIOUS
<1>2. Len(SubSeq(s, a, b)) = b - a + 1
  OBVIOUS
<1>3. DOMAIN SubSeq(s, a, b) = 1..(b - a + 1)
  BY <1>1, <1>2
<1>4. \A k \in 1..(b - a + 1) : SubSeq(s, a, b)[k] = s[k + a - 1]
  OBVIOUS
<1>5. QED
  BY <1>1, <1>2, <1>3, <1>4

(* A list that takes its rows, each once, from another list.               *)
LEMMA Reindexed ==
    ASSUME NEW s, NEW t, NEW h \in [DOMAIN t -> DOMAIN s],
           \A k \in DOMAIN t : t[k].uid = s[h[k]].uid,
           \A k, l \in DOMAIN t : h[k] = h[l] => k = l
    PROVE  /\ Uids(t) = {s[i].uid : i \in {h[k] : k \in DOMAIN t}} /\ Uids(t) \subseteq Uids(s)
           /\ Distinct(s) => Distinct(t)
<1>1. Uids(t) = {s[i].uid : i \in {h[k] : k \in DOMAIN t}}
  BY DEF Uids
<1>2. Uids(t) \subseteq Uids(s)
  BY DEF Uids
<1>3. ASSUME Distinct(s) PROVE Distinct(t)
  <2> SUFFICES ASSUME NEW k \in DOMAIN t, NEW l \in DOMAIN t, t[k].uid = t[l].uid PROVE k = l
    BY DEF Distinct
  <2>1. h[k] = h[l]
    BY <1>3 DEF Distinct
  <2>2. QED
    BY <2>1
<1>4. QED
  BY <1>1, <1>2, <1>3

(* t stands for the first n rows of the L of s, and rest are the others.   *)
InTwo(L, n, s, t, rest) ==
    /\ L \in Nat /\ n \in 0..L
    /\ DOMAIN s = 1..L /\ DOMAIN t = 1..n /\ DOMAIN rest = 1..(L - n)
    /\ \A i \in 1..n : t[i].uid = s[i].uid
    /\ \A k \in 1..(L - n) : rest[k].uid = s[k + n].uid

(* A list that is divided loses and copies no request.                     *)
LEMMA TwoParts ==
    ASSUME NEW L, NEW n, NEW s, NEW t, NEW rest, InTwo(L, n, s, t, rest)
    PROVE  /\ Uids(t) \cup Uids(rest) = Uids(s)
           /\ Distinct(s) => Distinct(t) /\ Distinct(rest) /\ Uids(t) \cap Uids(rest) = {}
<1>0. /\ L \in Nat /\ n \in 0..L
      /\ DOMAIN s = 1..L /\ DOMAIN t = 1..n /\ DOMAIN rest = 1..(L - n)
      /\ \A i \in 1..n : t[i].uid = s[i].uid
      /\ \A k \in 1..(L - n) : rest[k].uid = s[k + n].uid
  BY DEF InTwo
<1> USE <1>0
<1>1. \A i \in 1..n : i \in 1..L
  OBVIOUS
<1>2. \A k \in 1..(L - n) : k + n \in 1..L /\ k + n > n
  OBVIOUS
<1>3. \A i \in 1..L : i \in 1..n \/ (i - n \in 1..(L - n) /\ (i - n) + n = i)
  OBVIOUS
<1>4. Uids(t) \subseteq Uids(s)
  BY <1>1 DEF Uids
<1>5. Uids(rest) \subseteq Uids(s)
  BY <1>2, SMTT(30) DEF Uids
<1>6. \A i \in 1..L : s[i].uid \in Uids(t) \cup Uids(rest)
  <2> TAKE i \in 1..L
  <2>1. CASE i \in 1..n
    BY <2>1 DEF Uids
  <2>2. CASE i - n \in 1..(L - n) /\ (i - n) + n = i
    <3>1. rest[i - n].uid = s[i].uid
      BY <2>2
    <3>2. QED
      BY <2>2, <3>1 DEF Uids
  <2>3. QED
    BY <1>3, <2>1, <2>2
<1>7. Uids(t) \cup Uids(rest) = Uids(s)
  <2>1. \A u \in Uids(s) : u \in Uids(t) \cup Uids(rest)
    <3> TAKE u \in Uids(s)
    <3>1. PICK i \in 1..L : u = s[i].uid
      BY DEF Uids
    <3>2. QED
      BY <1>6, <3>1
  <2>2. QED
    BY <1>4, <1>5, <2>1
<1>8. ASSUME Distinct(s) PROVE Distinct(t)
  BY <1>1, <1>8 DEF Distinct
<1>9. ASSUME Distinct(s) PROVE Distinct(rest)
  <2> SUFFICES ASSUME NEW k \in 1..(L - n), NEW l \in 1..(L - n), rest[k].uid = rest[l].uid
               PROVE  k = l
    BY DEF Distinct
  <2>1. k + n \in DOMAIN s /\ l + n \in DOMAIN s
    BY <1>2
  <2>2. s[k + n].uid = s[l + n].uid
    OBVIOUS
  <2>3. k + n = l + n
    <3> DEFINE a == k + n
               b == l + n
    <3>1. a \in DOMAIN s /\ b \in DOMAIN s /\ s[a].uid = s[b].uid
      BY <2>1, <2>2
    <3> HIDE DEF a, b
    <3>2. a = b
      BY <1>9, <3>1 DEF Distinct
    <3>3. QED
      BY <3>2 DEF a, b
  <2>4. QED
    BY <2>3
<1>10. ASSUME Distinct(s) PROVE Uids(t) \cap Uids(rest) = {}
  <2> SUFFICES ASSUME NEW u \in Uids(t), u \in Uids(rest) PROVE FALSE
    OBVIOUS
  <2> PICK i \in 1..n : u = t[i].uid
    BY DEF Uids
  <2> PICK k \in 1..(L - n) : u = rest[k].uid
    BY DEF Uids
  <2> DEFINE a == k + n
  <2>1. a \in DOMAIN s /\ i \in DOMAIN s /\ a > n
    BY <1>1, <1>2
  <2>2. s[i].uid = s[a].uid
    OBVIOUS
  <2>3. i <= n /\ n \in Int /\ i \in Int /\ a \in Int
    OBVIOUS
  <2> HIDE DEF a
  <2>4. i = a
    BY <1>10, <2>1, <2>2 DEF Distinct
  <2>5. QED
    BY <2>1, <2>3, <2>4
<1>11. QED
  BY <1>7, <1>8, <1>9, <1>10

(* The first n rows of a list are taken, maybe as rows of another kind.    *)
FirstTaken(s, n, t, rest) ==
    /\ n \in 0..Len(s) /\ DOMAIN t = 1..n /\ \A i \in 1..n : t[i].uid = s[i].uid
    /\ rest = SubSeq(s, n + 1, Len(s))

(* Taking the first rows loses and copies no request.                      *)
LEMMA FirstOnes ==
    ASSUME NEW R, NEW s \in Seq(R), NEW n, NEW t, NEW rest, FirstTaken(s, n, t, rest)
    PROVE  /\ rest \in Seq(R) /\ Len(rest) = Len(s) - n
           /\ Uids(t) \cup Uids(rest) = Uids(s)
           /\ Distinct(s) => Distinct(t) /\ Distinct(rest) /\ Uids(t) \cap Uids(rest) = {}
<1>0. /\ n \in 0..Len(s) /\ DOMAIN t = 1..n /\ \A i \in 1..n : t[i].uid = s[i].uid
      /\ rest = SubSeq(s, n + 1, Len(s))
  BY DEF FirstTaken
<1> USE <1>0
<1>1. /\ DOMAIN s = 1..Len(s) /\ Len(s) \in Nat /\ n \in Nat /\ n <= Len(s)
      /\ DOMAIN t = 1..n
  BY ListDomain
<1>2. /\ rest \in Seq(R) /\ Len(rest) = Len(s) - n /\ DOMAIN rest = 1..(Len(s) - n)
      /\ \A k \in 1..(Len(s) - n) : rest[k] = s[k + n] /\ k + n \in 1..Len(s)
  <2> DEFINE a == n + 1
             b == Len(s)
  <2>1. a \in 1..(Len(s) + 1) /\ b \in 0..Len(s) /\ a <= b + 1 /\ b - a + 1 = Len(s) - n
    BY <1>1
  <2>2. \A k \in 1..(Len(s) - n) : k + a - 1 = k + n /\ k + n \in 1..Len(s)
    BY <1>1
  <2>3. rest = SubSeq(s, a, b)
    OBVIOUS
  <2> HIDE DEF a, b
  <2>4. /\ SubSeq(s, a, b) \in Seq(R) /\ Len(SubSeq(s, a, b)) = b - a + 1
        /\ DOMAIN SubSeq(s, a, b) = 1..(b - a + 1)
        /\ \A k \in 1..(b - a + 1) : SubSeq(s, a, b)[k] = s[k + a - 1]
    BY <2>1, PartOf
  <2>5. QED
    BY <2>1, <2>2, <2>3, <2>4
<1>3. \A k \in 1..(Len(s) - n) : rest[k].uid = s[k + n].uid
  BY <1>2
<1> DEFINE L == Len(s)
<1> HIDE DEF L
<1>4. /\ Uids(t) \cup Uids(rest) = Uids(s)
      /\ Distinct(s) => Distinct(t) /\ Distinct(rest) /\ Uids(t) \cap Uids(rest) = {}
  <2>1. L \in Nat /\ n \in 0..L
    BY <1>1 DEF L
  <2>2. DOMAIN s = 1..L
    BY <1>1 DEF L
  <2>3. DOMAIN t = 1..n
    BY <1>1
  <2>4. DOMAIN rest = 1..(L - n)
    BY <1>2 DEF L
  <2>5. \A k \in 1..(L - n) : rest[k].uid = s[k + n].uid
    BY <1>3 DEF L
  <2>6. \A i \in 1..n : t[i].uid = s[i].uid
    OBVIOUS
  <2>7. InTwo(L, n, s, t, rest)
    BY <2>1, <2>2, <2>3, <2>4, <2>5, <2>6 DEF InTwo
  <2>8. QED
    BY <2>7, TwoParts
<1>5. QED
  BY <1>2, <1>4

(* One row of a list goes to its front, changed but for its uid.           *)
Moved(s, i, e, t) == i \in DOMAIN s /\ e.uid = s[i].uid /\ t = <<e>> \o RemoveAt(s, i)

(* Moving a row to the front loses and copies no request.                  *)
LEMMA ToTheFront ==
    ASSUME NEW R, NEW s \in Seq(R), NEW e \in R, NEW i, NEW t, Moved(s, i, e, t)
    PROVE  /\ t \in Seq(R) /\ Len(t) = Len(s) /\ Uids(t) = Uids(s)
           /\ Distinct(s) => Distinct(t)
<1>0. i \in DOMAIN s /\ e.uid = s[i].uid /\ t = <<e>> \o RemoveAt(s, i)
  BY DEF Moved
<1> USE <1>0
<1>1. DOMAIN s = 1..Len(s) /\ Len(s) \in Nat /\ i \in 1..Len(s)
  BY ListDomain
<1> DEFINE a == SubSeq(s, 1, i - 1)
           b == SubSeq(s, i + 1, Len(s))
<1>2. a \in Seq(R) /\ Len(a) = i - 1 /\ \A k \in 1..(i - 1) : a[k] = s[k]
  <2>1. i - 1 \in 0..Len(s) /\ 1 \in 1..(Len(s) + 1) /\ 1 <= (i - 1) + 1
    BY <1>1
  <2> DEFINE n == i - 1
  <2> HIDE DEF n
  <2>2. n \in 0..Len(s) /\ 1 \in 1..(Len(s) + 1) /\ 1 <= n + 1 /\ n \in Int
    BY <2>1 DEF n
  <2>3. /\ SubSeq(s, 1, n) \in Seq(R) /\ Len(SubSeq(s, 1, n)) = n - 1 + 1
        /\ \A k \in 1..(n - 1 + 1) : SubSeq(s, 1, n)[k] = s[k + 1 - 1]
    BY <2>2, PartOf
  <2>4. n - 1 + 1 = n /\ \A k \in 1..n : k + 1 - 1 = k
    BY <2>2
  <2>5. /\ SubSeq(s, 1, n) \in Seq(R) /\ Len(SubSeq(s, 1, n)) = n
        /\ \A k \in 1..n : SubSeq(s, 1, n)[k] = s[k]
    BY <2>3, <2>4
  <2>6. QED
    BY <2>5 DEF n
<1>3. b \in Seq(R) /\ Len(b) = Len(s) - i /\ \A k \in 1..(Len(s) - i) : b[k] = s[k + i]
  <2> DEFINE c == i + 1
             d == Len(s)
  <2>1. c \in 1..(Len(s) + 1) /\ d \in 0..Len(s) /\ c <= d + 1 /\ d - c + 1 = Len(s) - i
    BY <1>1
  <2>2. \A k \in 1..(Len(s) - i) : k + c - 1 = k + i
    BY <1>1
  <2>3. b = SubSeq(s, c, d)
    OBVIOUS
  <2> HIDE DEF b, c, d
  <2>4. /\ SubSeq(s, c, d) \in Seq(R) /\ Len(SubSeq(s, c, d)) = d - c + 1
        /\ \A k \in 1..(d - c + 1) : SubSeq(s, c, d)[k] = s[k + c - 1]
    BY <2>1, PartOf
  <2>5. QED
    BY <2>1, <2>2, <2>3, <2>4
<1> DEFINE ab == a \o b
           f == <<e>>
<1>4. t = f \o ab
  BY DEF RemoveAt
<1>5. f \in Seq(R) /\ Len(f) = 1 /\ f[1] = e
  OBVIOUS
<1> HIDE DEF a, b, f
<1>6. /\ ab \in Seq(R) /\ Len(ab) = Len(a) + Len(b)
      /\ \A k \in 1..Len(a) : ab[k] = a[k]
      /\ \A k \in 1..Len(b) : ab[Len(a) + k] = b[k]
  <2>1. a \in Seq(R) /\ b \in Seq(R)
    BY <1>2, <1>3
  <2>2. QED
    BY <2>1, ConcatAt
<1> HIDE DEF ab
<1>7. /\ f \o ab \in Seq(R) /\ Len(f \o ab) = Len(f) + Len(ab)
      /\ DOMAIN (f \o ab) = 1..(Len(f) + Len(ab))
      /\ \A k \in 1..Len(f) : (f \o ab)[k] = f[k]
      /\ \A k \in 1..Len(ab) : (f \o ab)[Len(f) + k] = ab[k]
  <2>1. f \in Seq(R) /\ ab \in Seq(R)
    BY <1>5, <1>6
  <2>2. QED
    BY <2>1, ConcatAt
<1>8. /\ t \in Seq(R) /\ Len(t) = Len(s) /\ DOMAIN t = 1..Len(s) /\ t[1] = e
      /\ \A k \in 1..(Len(s) - 1) : t[1 + k] = ab[k]
  <2>1. Len(ab) = Len(s) - 1
    BY <1>1, <1>2, <1>3, <1>6
  <2>2. Len(f) + Len(ab) = Len(s) /\ Len(f) = 1 /\ 1 \in 1..Len(f)
    BY <1>1, <1>5, <2>1
  <2>3. t \in Seq(R) /\ Len(t) = Len(s) /\ DOMAIN t = 1..Len(s)
    BY <1>4, <1>7, <2>2
  <2>4. t[1] = e
    BY <1>4, <1>5, <1>7, <2>2
  <2>5. \A k \in 1..(Len(s) - 1) : t[1 + k] = ab[k]
    BY <1>4, <1>7, <2>1, <2>2
  <2>6. QED
    BY <2>3, <2>4, <2>5
<1> DEFINE Place(k) == IF k = 1 THEN i ELSE IF k <= i THEN k - 1 ELSE k
           h == [k \in DOMAIN t |-> Place(k)]
<1>9. ASSUME NEW k \in DOMAIN t
      PROVE  h[k] \in DOMAIN s /\ t[k].uid = s[h[k]].uid
  <2>1. k \in 1..Len(s) /\ h[k] = Place(k)
    BY <1>8
  <2> HIDE DEF h
  <2>2. CASE k = 1
    BY <1>1, <1>8, <2>1, <2>2
  <2>3. CASE k # 1 /\ k <= i
    <3>1. /\ k - 1 \in 1..Len(a) /\ k - 1 \in 1..(Len(s) - 1) /\ 1 + (k - 1) = k
          /\ k - 1 \in 1..(i - 1) /\ k - 1 \in 1..Len(s)
      BY <1>1, <1>2, <2>1, <2>3
    <3>2. t[1 + (k - 1)] = ab[k - 1] /\ ab[k - 1] = a[k - 1] /\ a[k - 1] = s[k - 1]
      BY <1>2, <1>6, <1>8, <3>1
    <3>3. h[k] = k - 1
      BY <2>1, <2>3
    <3>4. QED
      BY <1>1, <3>1, <3>2, <3>3
  <2>4. CASE k # 1 /\ ~(k <= i)
    <3>1. /\ k - i \in 1..Len(b) /\ k - 1 \in 1..(Len(s) - 1) /\ 1 + (k - 1) = k
          /\ Len(a) + (k - i) = k - 1 /\ k - i \in 1..(Len(s) - i) /\ (k - i) + i = k
      <4>1. Len(b) = Len(s) - i /\ Len(a) = i - 1
        BY <1>2, <1>3
      <4>2. k - i \in 1..(Len(s) - i) /\ k - 1 \in 1..(Len(s) - 1) /\ 1 + (k - 1) = k
        BY <1>1, <2>1, <2>4
      <4>3. (i - 1) + (k - i) = k - 1 /\ (k - i) + i = k
        BY <1>1, <2>1
      <4>4. QED
        BY <4>1, <4>2, <4>3
    <3>2. t[1 + (k - 1)] = ab[k - 1]
      BY <1>8, <3>1
    <3>3. ab[Len(a) + (k - i)] = b[k - i]
      BY <1>6, <3>1
    <3>4. b[k - i] = s[(k - i) + i]
      BY <1>3, <3>1
    <3>5. h[k] = k
      BY <2>1, <2>4
    <3>6. t[k] = s[k]
      BY <3>1, <3>2, <3>3, <3>4
    <3>7. QED
      BY <1>1, <2>1, <3>5, <3>6
  <2>5. QED
    BY <2>2, <2>3, <2>4
<1>10. \A k, l \in DOMAIN t : h[k] = h[l] => k = l
  <2> TAKE k, l \in DOMAIN t
  <2>1. k \in 1..Len(s) /\ l \in 1..Len(s) /\ h[k] = Place(k) /\ h[l] = Place(l)
    BY <1>8
  <2> HIDE DEF h
  <2>2. QED
    BY <1>1, <2>1
<1>11. \A j \in DOMAIN s : \E k \in DOMAIN t : h[k] = j
  <2> TAKE j \in DOMAIN s
  <2>1. \A k \in 1..Len(s) : k \in DOMAIN t /\ h[k] = Place(k)
    BY <1>8
  <2> HIDE DEF h
  <2>2. CASE j = i
    <3>1. 1 \in 1..Len(s) /\ Place(1) = j
      BY <1>1, <2>2
    <3>2. QED
      BY <2>1, <3>1
  <2>3. CASE j < i
    <3>1. j + 1 \in 1..Len(s) /\ j + 1 # 1 /\ j + 1 <= i /\ (j + 1) - 1 = j
      BY <1>1, <2>3
    <3>2. Place(j + 1) = j
      BY <3>1
    <3> HIDE DEF Place
    <3>3. QED
      BY <2>1, <3>1, <3>2
  <2>4. CASE j > i
    <3>1. j \in 1..Len(s) /\ Place(j) = j
      BY <1>1, <2>4
    <3>2. QED
      BY <2>1, <3>1
  <2>5. QED
    BY <1>1, <2>2, <2>3, <2>4
<1>12. h \in [DOMAIN t -> DOMAIN s]
  BY <1>9
<1> HIDE DEF h
<1>13. /\ Uids(t) = {s[j].uid : j \in {h[k] : k \in DOMAIN t}}
       /\ Distinct(s) => Distinct(t)
  <2>1. \A k \in DOMAIN t : t[k].uid = s[h[k]].uid
    BY <1>9
  <2>2. \A k, l \in DOMAIN t : h[k] = h[l] => k = l
    BY <1>10
  <2>3. h \in [DOMAIN t -> DOMAIN s]
    BY <1>12
  <2>4. /\ Uids(t) = {s[j].uid : j \in {h[k] : k \in DOMAIN t}}
        /\ Distinct(s) => Distinct(t)
    BY ONLY <2>1, <2>2, <2>3, Reindexed
  <2>5. QED
    BY <2>4
<1>14. {h[k] : k \in DOMAIN t} = DOMAIN s
  BY <1>11, <1>12, ZenonT(40)
<1>15. QED
  BY <1>8, <1>13, <1>14 DEF Uids

--------------------------------------------------------------------------------
(* Prompts, and the age of a request.                                      *)

(* The tokens of a prompt that is not done.                                *)
LEMMA SegmentsSum ==
    ASSUME NEW s \in Seq(Nat \ {0})
    PROVE  SumFunction(s) \in Nat /\ (s # <<>> => SumFunction(s) >= 1)
<1>1. /\ DOMAIN s = 1..Len(s) /\ Len(s) \in Nat
      /\ IsFiniteSet(DOMAIN s) /\ Cardinality(DOMAIN s) = Len(s)
  BY ListDomain
<1>2. \A i \in DOMAIN s : s[i] \in Int /\ s[i] >= 1
  OBVIOUS
<1>3. SumFunctionOnSet(s, DOMAIN s) \in Int
  BY <1>1, <1>2, SumInt
<1>4. SumFunctionOnSet(s, DOMAIN s) >= 1 * Cardinality(DOMAIN s)
  BY <1>1, <1>2, SumAtLeast
<1>5. s # <<>> => Len(s) >= 1
  OBVIOUS
<1>6. QED
  BY <1>1, <1>3, <1>4, <1>5 DEF SumFunction

(* The smaller and the larger of two numbers.                              *)
LEMMA LesserOf ==
    ASSUME NEW a \in Int, NEW b \in Int
    PROVE  /\ Min({a, b}) \in {a, b} /\ Min({a, b}) \in Int /\ Min({a, b}) <= a /\ Min({a, b}) <= b
           /\ Max({a, b}) \in {a, b} /\ Max({a, b}) \in Int /\ Max({a, b}) >= a /\ Max({a, b}) >= b
<1>1. IsFiniteSet({a, b}) /\ {a, b} \subseteq Int /\ {a, b} # {}
  BY PairIsFinite
<1>2. Min({a, b}) \in {a, b} /\ \A y \in {a, b} : Min({a, b}) <= y
  BY <1>1, MinIn
<1>3. Max({a, b}) \in {a, b} /\ \A y \in {a, b} : Max({a, b}) >= y
  BY <1>1, MaxIn
<1>4. QED
  BY <1>1, <1>2, <1>3

(* An age grows up to the deadline of adaptive prefill.                    *)
LEMMA OlderIs ==
    ASSUME policy \in Policies, NEW age \in Nat
    PROVE  Older(age) \in Nat
<1>1. policy.maxDefer \in Nat
  BY PoliciesAssumption
<1>2. Min({age + 1, policy.maxDefer + 1}) \in {age + 1, policy.maxDefer + 1}
  <2> DEFINE a == age + 1
             b == policy.maxDefer + 1
  <2>1. a \in Int /\ b \in Int
    BY <1>1
  <2> HIDE DEF a, b
  <2>2. Min({a, b}) \in {a, b}
    BY <2>1, LesserOf
  <2>3. QED
    BY <2>2 DEF a, b
<1>3. QED
  BY <1>1, <1>2 DEF Older

(* A request grows older.                                                  *)
LEMMA JobOlder ==
    ASSUME NEW job \in Waiting, NEW a \in Nat, NEW t, t = [job EXCEPT !.age = a]
    PROVE  /\ t \in Waiting /\ t.uid = job.uid /\ t.segments = job.segments
           /\ t.limit = job.limit /\ t.history = job.history /\ t.bytes = job.bytes
<1>1. /\ job \in Job /\ job.segments # <<>> /\ Last(job.segments) = 1
      /\ job = [uid |-> job.uid, segments |-> job.segments, limit |-> job.limit,
                history |-> job.history, bytes |-> job.bytes, age |-> job.age]
      /\ job.uid \in Nat /\ job.segments \in Seq(Nat \ {0}) /\ job.limit \in Nat \ {0}
      /\ job.history \in Nat /\ job.bytes \in Nat
  BY DEF Waiting, Job
<1>2. t = [uid |-> job.uid, segments |-> job.segments, limit |-> job.limit,
           history |-> job.history, bytes |-> job.bytes, age |-> a]
  BY <1>1
<1>3. t \in Job
  BY <1>1, <1>2 DEF Job
<1>4. QED
  BY <1>1, <1>2, <1>3 DEF Waiting

(* Waiting requests that grow older stay what they are.                    *)
LEMMA AgedOK ==
    ASSUME policy \in Policies, NEW s \in Seq(Waiting)
    PROVE  /\ Aged(s) \in Seq(Waiting) /\ DOMAIN Aged(s) = DOMAIN s /\ Len(Aged(s)) = Len(s)
           /\ Uids(Aged(s)) = Uids(s) /\ (Distinct(s) => Distinct(Aged(s)))
           /\ \A i \in DOMAIN s : /\ Aged(s)[i].uid = s[i].uid
                                  /\ Aged(s)[i].segments = s[i].segments
<1> DEFINE t == Aged(s)
<1>1. ASSUME NEW i \in DOMAIN s
      PROVE  t[i] \in Waiting /\ t[i].uid = s[i].uid /\ t[i].segments = s[i].segments
  <2>1. s[i] \in Waiting /\ s[i].age \in Nat
    BY DEF Waiting, Job
  <2>2. Older(s[i].age) \in Nat
    BY <2>1, OlderIs
  <2>3. t[i] = [s[i] EXCEPT !.age = Older(s[i].age)]
    BY DEF Aged
  <2>4. QED
    BY <2>1, <2>2, <2>3, JobOlder
<1>2. t = [i \in DOMAIN s |-> t[i]]
  BY DEF Aged
<1> HIDE DEF t
<1>3. t \in Seq(Waiting) /\ DOMAIN t = DOMAIN s /\ Len(t) = Len(s)
  <2>1. \A i \in DOMAIN s : t[i] \in Waiting
    BY <1>1
  <2>2. QED
    BY <1>2, <2>1, ListMade
<1>4. Uids(t) = Uids(s) /\ (Distinct(s) => Distinct(t))
  BY <1>1, <1>3, SameUids
<1>5. QED
  BY <1>1, <1>3, <1>4 DEF t

(* The budget never admits more requests than it is asked about.           *)
LEMMA AdmissibleIn ==
    ASSUME NEW gen, NEW n \in Int
    PROVE  /\ n <= 0 => Admissible(gen, n) = n
           /\ n > 0 => Admissible(gen, n) \in 0..n
<1> DEFINE K == {k \in 0..n : \A j \in 1..k : Committed(gen, j) <= policy.budget}
           fit == Max(K)
<1>1. CASE policy.budget = 0 \/ n <= 0
  BY <1>1 DEF Admissible
<1>2. CASE ~(policy.budget = 0 \/ n <= 0)
  <2>1. IsFiniteSet(K)
    <3>1. IsFiniteSet(0..n)
      BY FS_Interval
    <3>2. K \in SUBSET (0..n)
      OBVIOUS
    <3> HIDE DEF K
    <3>3. QED
      BY <3>1, <3>2, FS_Subset
  <2>2. 0 \in K
    BY <1>2
  <2>3. K \subseteq 0..n /\ K \subseteq Int /\ K # {}
    BY <2>2
  <2>4. Admissible(gen, n) = IF fit = 0 /\ gen = <<>> /\ prompts = <<>> THEN 1 ELSE fit
    BY <1>2 DEF Admissible
  <2> HIDE DEF K
  <2>5. fit \in K
    BY <2>1, <2>3, MaxIn
  <2> HIDE DEF fit
  <2>6. QED
    BY <1>2, <2>3, <2>4, <2>5
<1>3. QED
  BY <1>1, <1>2

(* The last token of a prompt becomes a segment of its own.                *)
LEMMA SplitLastOK ==
    ASSUME NEW s \in Seq(Nat \ {0}), s # <<>>
    PROVE  /\ SplitLast(s) \in Seq(Nat \ {0}) /\ SplitLast(s) # <<>>
           /\ Last(SplitLast(s)) = 1
<1> DEFINE n == Len(s)
           front == SubSeq(s, 1, n - 1)
           two == <<s[n] - 1, 1>>
<1>1. n \in Nat /\ n >= 1 /\ s[n] \in Nat \ {0}
  OBVIOUS
<1>2. Last(s) = s[n] /\ Front(s) = front
  BY DEF Last, Front
<1>3. CASE s[n] = 1
  BY <1>2, <1>3 DEF SplitLast
<1>4. CASE s[n] # 1
  <2>1. SplitLast(s) = front \o two
    BY <1>2, <1>4 DEF SplitLast
  <2>2. front \in Seq(Nat \ {0})
    <3> DEFINE b == n - 1
    <3>1. 1 \in 1..(Len(s) + 1) /\ b \in 0..Len(s) /\ 1 <= b + 1
      BY <1>1
    <3> HIDE DEF b
    <3>2. SubSeq(s, 1, b) \in Seq(Nat \ {0})
      BY <3>1, PartOf
    <3>3. QED
      BY <3>2 DEF b
  <2>3. two \in Seq(Nat \ {0}) /\ Len(two) = 2 /\ two[2] = 1
    <3> DEFINE a == s[n] - 1
    <3>1. a \in Nat \ {0} /\ two = <<a, 1>>
      BY <1>1, <1>4
    <3> HIDE DEF a, two
    <3>2. QED
      BY <3>1
  <2> HIDE DEF front, two
  <2>4. /\ front \o two \in Seq(Nat \ {0}) /\ Len(front \o two) = Len(front) + Len(two)
        /\ \A i \in 1..Len(two) : (front \o two)[Len(front) + i] = two[i]
    <3> DEFINE R == Nat \ {0}
    <3>1. front \in Seq(R) /\ two \in Seq(R)
      BY <2>2, <2>3
    <3> HIDE DEF R
    <3>2. /\ front \o two \in Seq(R) /\ Len(front \o two) = Len(front) + Len(two)
          /\ \A i \in 1..Len(two) : (front \o two)[Len(front) + i] = two[i]
      BY <3>1, ConcatAt
    <3>3. QED
      BY <3>2 DEF R
  <2>5. Len(front) \in Nat /\ 2 \in 1..Len(two)
    BY <2>2, <2>3
  <2>6. Len(front \o two) = Len(front) + 2 /\ (front \o two)[Len(front) + 2] = 1
    BY <2>3, <2>4, <2>5
  <2>7. SplitLast(s) # <<>>
    BY <2>1, <2>4, <2>5, <2>6
  <2>8. QED
    BY <2>1, <2>4, <2>6, <2>7 DEF Last
<1>5. QED
  BY <1>3, <1>4

(* A sum does not depend on the numbering of its terms.                    *)
LEMMA SumShift ==
    ASSUME NEW n \in Nat, NEW f, NEW g, \A i \in 1..n : f[i] \in Int /\ g[i + 1] = f[i]
    PROVE  SumFunctionOnSet(g, 2..(n + 1)) = SumFunctionOnSet(f, 1..n)
<1> DEFINE N == {k \in Nat : k <= n =>
                    SumFunctionOnSet(g, 2..(k + 1)) = SumFunctionOnSet(f, 1..k)}
<1>1. 0 \in N
  <2>1. 2..(0 + 1) = {} /\ 1..0 = {}
    OBVIOUS
  <2>2. QED
    BY <2>1, SumEmpty
<1>2. ASSUME NEW k \in Nat, k \in N PROVE k + 1 \in N
  <2> SUFFICES ASSUME k + 1 <= n
               PROVE SumFunctionOnSet(g, 2..((k + 1) + 1)) = SumFunctionOnSet(f, 1..(k + 1))
    OBVIOUS
  <2> DEFINE A == 2..(k + 1)
             B == 1..k
             a == (k + 1) + 1
             b == k + 1
  <2>1. 2..((k + 1) + 1) = A \cup {a} /\ 1..(k + 1) = B \cup {b} /\ a \notin A /\ b \notin B
    OBVIOUS
  <2>2. SumFunctionOnSet(g, A) = SumFunctionOnSet(f, B)
    BY <1>2
  <2>3. IsFiniteSet(A) /\ IsFiniteSet(B)
    BY FS_Interval
  <2>4. \A x \in A : g[x] \in Int
    <3> TAKE x \in A
    <3>1. x - 1 \in 1..n /\ (x - 1) + 1 = x
      OBVIOUS
    <3>2. QED
      BY <3>1
  <2>5. \A x \in B : f[x] \in Int
    OBVIOUS
  <2>6. g[a] = f[b] /\ f[b] \in Int
    OBVIOUS
  <2> HIDE DEF A, B, a, b
  <2>7. SumFunctionOnSet(g, A \cup {a}) = g[a] + SumFunctionOnSet(g, A)
    BY <2>1, <2>3, <2>4, <2>6, SumAdd
  <2>8. SumFunctionOnSet(f, B \cup {b}) = f[b] + SumFunctionOnSet(f, B)
    BY <2>1, <2>3, <2>5, <2>6, SumAdd
  <2>9. QED
    BY <2>1, <2>2, <2>6, <2>7, <2>8
<1> HIDE DEF N
<1>3. n \in N
  BY <1>1, <1>2, NatSet
<1>4. QED
  BY <1>3 DEF N

(* A slice takes a segment, or a part of it.                               *)
LEMMA TailSum ==
    ASSUME NEW s \in Seq(Nat \ {0}), s # <<>>
    PROVE  SumFunction(s) = s[1] + SumFunction(Tail(s))
<1> DEFINE n == Len(s) - 1
           D == DOMAIN s
<1>1. /\ n \in Nat /\ D = 1..(n + 1) /\ IsFiniteSet(D) /\ 1 \in D
      /\ \A i \in D : s[i] \in Int
  <2>1. IsFiniteSet(D) /\ D = 1..Len(s) /\ Len(s) \in Nat
    BY ListDomain
  <2>2. Len(s) >= 1 /\ Len(s) = n + 1
    BY <2>1
  <2>3. QED
    BY <2>1, <2>2
<1>2. Tail(s) \in Seq(Nat \ {0}) /\ DOMAIN Tail(s) = 1..n /\ \A i \in 1..n : Tail(s)[i] = s[i + 1]
  OBVIOUS
<1>3. D \ {1} = 2..(n + 1)
  BY <1>1
<1> HIDE DEF n, D
<1>4. SumFunctionOnSet(s, D) = s[1] + SumFunctionOnSet(s, D \ {1})
  BY <1>1, SumRemove
<1>5. SumFunctionOnSet(s, 2..(n + 1)) = SumFunctionOnSet(Tail(s), 1..n)
  <2> DEFINE f == Tail(s)
  <2>1. \A i \in 1..n : f[i] \in Int /\ s[i + 1] = f[i]
    <3> TAKE i \in 1..n
    <3>1. i + 1 \in D
      BY <1>1
    <3>2. QED
      BY <1>1, <1>2, <3>1
  <2> HIDE DEF f
  <2>2. SumFunctionOnSet(s, 2..(n + 1)) = SumFunctionOnSet(f, 1..n)
    BY <1>1, <2>1, SumShift
  <2>3. QED
    BY <2>2 DEF f
<1>6. QED
  BY <1>2, <1>3, <1>4, <1>5 DEF SumFunction, D

(* Shortening the first segment shortens the prompt by as much.            *)
LEMMA FirstLessSum ==
    ASSUME NEW s \in Seq(Nat \ {0}), s # <<>>, NEW c \in Int,
           NEW t, t = [s EXCEPT ![1] = @ - c]
    PROVE  SumFunction(t) = SumFunction(s) - c
<1> DEFINE D == DOMAIN s
           R == D \ {1}
<1>1. IsFiniteSet(D) /\ 1 \in D /\ \A i \in D : s[i] \in Int
  <2>1. IsFiniteSet(D) /\ D = 1..Len(s) /\ Len(s) \in Nat
    BY ListDomain
  <2>2. QED
    BY <2>1
<1>2. DOMAIN t = D /\ t[1] = s[1] - c /\ \A i \in R : t[i] = s[i]
  BY <1>1
<1>3. IsFiniteSet(R) /\ \A i \in R : s[i] \in Int
  BY <1>1, FS_Subset
<1> HIDE DEF D, R
<1>4. \A i \in D : t[i] \in Int
  BY <1>1, <1>2 DEF R
<1>5. SumFunctionOnSet(s, D) = s[1] + SumFunctionOnSet(s, R)
  BY <1>1, SumRemove DEF R
<1>6. SumFunctionOnSet(t, D) = t[1] + SumFunctionOnSet(t, R)
  <2> USE <1>1, <1>4
  <2>1. IsFiniteSet(D)
    OBVIOUS
  <2>2. \A i \in D : t[i] \in Int
    OBVIOUS
  <2>3. 1 \in D
    OBVIOUS
  <2>4. SumFunctionOnSet(t, D) = t[1] + SumFunctionOnSet(t, D \ {1})
    BY ONLY <2>1, <2>2, <2>3, SumRemove
  <2>5. QED
    BY <2>4 DEF R
<1>7. SumFunctionOnSet(s, R) = SumFunctionOnSet(t, R)
  BY <1>2, <1>3, SumAgree
<1>8. SumFunctionOnSet(s, R) \in Int
  BY <1>3, SumInt
<1>9. SumFunctionOnSet(t, D) = SumFunctionOnSet(s, D) - c
  BY <1>1, <1>2, <1>5, <1>6, <1>7, <1>8
<1>10. QED
  BY <1>2, <1>9 DEF SumFunction, D

--------------------------------------------------------------------------------
(* The two lists of the prompt batch, and the generation batch.            *)

WorkRow == [uid : Nat, segments : Seq(Nat \ {0}), done : Nat, total : Nat,
            history : Nat, age : Nat]
Working == {w \in WorkRow : /\ w.segments # <<>> /\ Last(w.segments) = 1
                            /\ w.done + SumFunction(w.segments) = w.total}
PromptRow == [uid : Nat, tokens : Nat, limit : Nat \ {0}, extent : Nat]
Generating == {g \in [uid : Nat, tokens : Nat, num : Nat, limit : Nat, extent : Nat] :
                  g.num < g.limit /\ g.extent = g.tokens + (g.limit - g.num)}

Pair(p, w) == /\ p.uid = w.uid /\ p.tokens = w.history + w.done
              /\ p.extent = w.history + w.total + p.limit
Paired(ps, ws) == /\ ps \in Seq(PromptRow) /\ ws \in Seq(Working) /\ DOMAIN ps = DOMAIN ws
                  /\ \A i \in DOMAIN ps : Pair(ps[i], ws[i])

(* What the rows may still grow to.                                        *)
Extents(s) == {s[i].extent : i \in DOMAIN s}

(* The extents of the rows that filter keeps.                              *)
LEMMA ExtentsOfRows ==
    ASSUME NEW R, NEW s \in Seq(R), NEW kept
    PROVE  Extents(Rows(s, kept)) = {s[i].extent : i \in kept \cap DOMAIN s}
<1> DEFINE places == kept \cap DOMAIN s
<1>1. PICK nth : Picks(s, kept, nth)
  BY RowsEffect
<1>2. Rows(s, kept) \in Seq(R) /\ Len(Rows(s, kept)) = Cardinality(places)
  BY RowsEffect
<1>3. /\ nth \in [1..Cardinality(places) -> places] /\ \A k \in DOMAIN nth : Rows(s, kept)[k] = s[nth[k]]
      /\ \A i \in places : \E k \in DOMAIN nth : nth[k] = i
  BY <1>1 DEF Picks
<1>4. DOMAIN Rows(s, kept) = DOMAIN nth
  BY <1>2, <1>3
<1> HIDE DEF places
<1>5. \A k \in DOMAIN nth : Rows(s, kept)[k].extent \in {s[i].extent : i \in places}
  BY <1>3
<1>6. \A i \in places : s[i].extent \in {Rows(s, kept)[k].extent : k \in DOMAIN nth}
  <2> TAKE i \in places
  <2>1. PICK k \in DOMAIN nth : nth[k] = i
    BY <1>3
  <2>2. Rows(s, kept)[k] = s[i]
    BY <1>3, <2>1
  <2>3. QED
    BY <2>2
<1>7. QED
  BY <1>4, <1>5, <1>6 DEF Extents, places

(* The extents of two lists joined.                                        *)
LEMMA ExtentsOfBoth ==
    ASSUME NEW R, NEW s \in Seq(R), NEW t \in Seq(R)
    PROVE  Extents(s \o t) = Extents(s) \cup Extents(t)
<1> DEFINE u == s \o t
<1>1. /\ u \in Seq(R) /\ DOMAIN u = 1..(Len(s) + Len(t))
      /\ \A i \in 1..Len(s) : u[i] = s[i]
      /\ \A i \in 1..Len(t) : u[Len(s) + i] = t[i]
  BY ConcatAt
<1>2. DOMAIN s = 1..Len(s) /\ Len(s) \in Nat /\ DOMAIN t = 1..Len(t) /\ Len(t) \in Nat
  BY ListDomain
<1> HIDE DEF u
<1>3. \A k \in DOMAIN u : u[k].extent \in Extents(s) \cup Extents(t)
  <2> TAKE k \in DOMAIN u
  <2>1. CASE k \in 1..Len(s)
    BY <1>1, <1>2, <2>1 DEF Extents
  <2>2. CASE k \notin 1..Len(s)
    <3>1. k - Len(s) \in 1..Len(t) /\ Len(s) + (k - Len(s)) = k
      BY <1>1, <1>2, <2>2
    <3>2. u[k] = t[k - Len(s)]
      BY <1>1, <3>1
    <3>3. QED
      BY <1>2, <3>1, <3>2 DEF Extents
  <2>3. QED
    BY <2>1, <2>2
<1>4. \A i \in DOMAIN s : s[i].extent \in Extents(u)
  <2> TAKE i \in DOMAIN s
  <2>1. i \in DOMAIN u /\ u[i] = s[i]
    BY <1>1, <1>2
  <2>2. QED
    BY <2>1 DEF Extents
<1>5. \A i \in DOMAIN t : t[i].extent \in Extents(u)
  <2> TAKE i \in DOMAIN t
  <2>1. Len(s) + i \in DOMAIN u /\ u[Len(s) + i] = t[i]
    BY <1>1, <1>2
  <2>2. QED
    BY <2>1 DEF Extents
<1>6. QED
  BY <1>3, <1>4, <1>5 DEF Extents, u

(* The two lists of the prompt phase, filtered alike, stay parallel.       *)
LEMMA PairedRows ==
    ASSUME NEW ps, NEW ws, Paired(ps, ws), NEW kept
    PROVE  Paired(Rows(ps, kept), Rows(ws, kept))
<1> DEFINE places == kept \cap DOMAIN ps
           nth == Nths(places)
           a == Rows(ps, kept)
           b == Rows(ws, kept)
<1>1. ps \in Seq(PromptRow) /\ ws \in Seq(Working) /\ DOMAIN ws = DOMAIN ps
  BY DEF Paired
<1>2. a \in Seq(PromptRow) /\ Len(a) = Cardinality(places) /\ Picks(ps, kept, nth)
  BY <1>1, RowsPicked
<1>3. b \in Seq(Working) /\ Len(b) = Cardinality(places) /\ Picks(ws, kept, nth)
  BY <1>1, RowsPicked
<1>4. DOMAIN a = 1..Cardinality(places) /\ DOMAIN b = 1..Cardinality(places)
  BY <1>2, <1>3
<1>5. nth \in [1..Cardinality(places) -> places] /\ \A k \in DOMAIN nth : a[k] = ps[nth[k]]
  BY <1>2 DEF Picks
<1>6. \A k \in DOMAIN nth : b[k] = ws[nth[k]]
  BY <1>3 DEF Picks
<1>7. \A i \in places : Pair(ps[i], ws[i])
  BY DEF Paired
<1> HIDE DEF places, nth, a, b
<1>8. \A k \in DOMAIN a : Pair(a[k], b[k])
  BY <1>4, <1>5, <1>6, <1>7
<1>9. QED
  BY <1>2, <1>3, <1>4, <1>8 DEF Paired, a, b

(* The two lists of the prompt phase, extended alike, stay parallel.       *)
LEMMA PairedBoth ==
    ASSUME NEW ps, NEW ws, Paired(ps, ws), NEW qs, NEW vs, Paired(qs, vs)
    PROVE  Paired(ps \o qs, ws \o vs)
<1> DEFINE a == ps \o qs
           b == ws \o vs
           n == Len(ps)
           m == Len(qs)
<1>1. /\ ps \in Seq(PromptRow) /\ ws \in Seq(Working) /\ DOMAIN ws = DOMAIN ps
      /\ qs \in Seq(PromptRow) /\ vs \in Seq(Working) /\ DOMAIN vs = DOMAIN qs
      /\ \A i \in DOMAIN ps : Pair(ps[i], ws[i])
      /\ \A i \in DOMAIN qs : Pair(qs[i], vs[i])
  BY DEF Paired
<1>2. n \in Nat /\ m \in Nat /\ Len(ws) = n /\ Len(vs) = m /\ DOMAIN ps = 1..n /\ DOMAIN qs = 1..m
  <2>1. DOMAIN ps = 1..n /\ n \in Nat
    BY <1>1
  <2>2. DOMAIN qs = 1..m /\ m \in Nat
    BY <1>1
  <2>3. Len(ws) = n
    BY <1>1
  <2>4. Len(vs) = m
    BY <1>1
  <2>5. QED
    BY <2>1, <2>2, <2>3, <2>4
<1>3. /\ a \in Seq(PromptRow) /\ DOMAIN a = 1..(n + m)
      /\ \A i \in 1..n : a[i] = ps[i]
      /\ \A i \in 1..m : a[n + i] = qs[i]
  BY <1>1, ConcatAt
<1>4. /\ b \in Seq(Working) /\ DOMAIN b = 1..(n + m)
      /\ \A i \in 1..n : b[i] = ws[i]
      /\ \A i \in 1..m : b[n + i] = vs[i]
  <2>1. /\ b \in Seq(Working) /\ DOMAIN b = 1..(Len(ws) + Len(vs))
        /\ \A i \in 1..Len(ws) : b[i] = ws[i]
        /\ \A i \in 1..Len(vs) : b[Len(ws) + i] = vs[i]
    BY <1>1, ConcatAt
  <2> HIDE DEF b, n, m
  <2>2. QED
    BY <1>2, <2>1
<1> HIDE DEF a, b, n, m
<1>5. ASSUME NEW k \in 1..(n + m) PROVE Pair(a[k], b[k])
  <2>1. CASE k \in 1..n
    BY <1>1, <1>2, <1>3, <1>4, <2>1
  <2>2. CASE k \notin 1..n
    <3>1. k - n \in 1..m /\ n + (k - n) = k
      BY <1>2, <2>2
    <3>2. a[k] = qs[k - n] /\ b[k] = vs[k - n]
      BY <1>3, <1>4, <3>1
    <3>3. QED
      BY <1>1, <1>2, <3>1, <3>2
  <2>3. QED
    BY <2>1, <2>2
<1>6. QED
  BY <1>3, <1>4, <1>5 DEF Paired, a, b

(* A request that enters the prompt batch.                                 *)
LEMMA NewRowOK ==
    ASSUME NEW job \in Waiting, NEW p, NEW w,
           p = [uid |-> job.uid, tokens |-> job.history, limit |-> job.limit,
                extent |-> CandidateExtent(job)],
           w = [uid |-> job.uid, segments |-> job.segments, done |-> 0,
                total |-> SumFunction(job.segments), history |-> job.history, age |-> job.age]
    PROVE  p \in PromptRow /\ w \in Working /\ Pair(p, w) /\ p.uid = job.uid
<1>1. /\ job \in Job /\ job.segments # <<>> /\ Last(job.segments) = 1
      /\ job.uid \in Nat /\ job.segments \in Seq(Nat \ {0}) /\ job.limit \in Nat \ {0}
      /\ job.history \in Nat /\ job.age \in Nat
  BY DEF Waiting, Job
<1> DEFINE n == SumFunction(job.segments)
<1>2. n \in Nat
  BY <1>1, SegmentsSum
<1>3. CandidateExtent(job) = job.history + n + job.limit
  BY DEF CandidateExtent
<1> HIDE DEF n
<1>4. job.history + n + job.limit \in Nat
  BY <1>1, <1>2
<1>5. p \in PromptRow
  BY <1>1, <1>3, <1>4 DEF PromptRow
<1>6. w \in WorkRow
  BY <1>1, <1>2 DEF WorkRow, n
<1>7. w.segments = job.segments /\ w.done = 0 /\ w.total = n /\ w.history = job.history /\ w.uid = job.uid
  BY DEF n
<1>8. w.done + SumFunction(w.segments) = w.total
  BY <1>2, <1>7 DEF n
<1>9. w \in Working
  BY <1>1, <1>6, <1>7, <1>8 DEF Working
<1>10. Pair(p, w)
  BY <1>1, <1>2, <1>3, <1>7 DEF Pair
<1>11. QED
  BY <1>5, <1>9, <1>10

(* _make_batch makes two parallel lists of the requests it admits.         *)
LEMMA NewRowsOK ==
    ASSUME NEW jobs \in Seq(Waiting)
    PROVE  /\ Paired(NewPrompts(jobs), NewProcessing(jobs))
           /\ Len(NewPrompts(jobs)) = Len(jobs)
           /\ Uids(NewPrompts(jobs)) = Uids(jobs)
           /\ Distinct(jobs) => Distinct(NewPrompts(jobs))
           /\ Extents(NewPrompts(jobs)) = {CandidateExtent(jobs[i]) : i \in DOMAIN jobs}
<1> DEFINE ps == NewPrompts(jobs)
           ws == NewProcessing(jobs)
<1>1. /\ ps = [i \in DOMAIN jobs |-> ps[i]] /\ ws = [i \in DOMAIN jobs |-> ws[i]]
      /\ \A i \in DOMAIN jobs :
            /\ ps[i] = [uid |-> jobs[i].uid, tokens |-> jobs[i].history, limit |-> jobs[i].limit,
                        extent |-> CandidateExtent(jobs[i])]
            /\ ws[i] = [uid |-> jobs[i].uid, segments |-> jobs[i].segments, done |-> 0,
                        total |-> SumFunction(jobs[i].segments), history |-> jobs[i].history,
                        age |-> jobs[i].age]
  BY DEF NewPrompts, NewProcessing
<1> HIDE DEF ps, ws
<1>2. ASSUME NEW i \in DOMAIN jobs
      PROVE  /\ ps[i] \in PromptRow /\ ws[i] \in Working /\ Pair(ps[i], ws[i])
             /\ ps[i].uid = jobs[i].uid /\ ps[i].extent = CandidateExtent(jobs[i])
  <2> DEFINE job == jobs[i]
             p == ps[i]
             w == ws[i]
  <2>1. job \in Waiting
    OBVIOUS
  <2>2. p = [uid |-> job.uid, tokens |-> job.history, limit |-> job.limit,
             extent |-> CandidateExtent(job)]
    BY <1>1
  <2>3. w = [uid |-> job.uid, segments |-> job.segments, done |-> 0,
             total |-> SumFunction(job.segments), history |-> job.history, age |-> job.age]
    BY <1>1
  <2> HIDE DEF job, p, w
  <2>4. p \in PromptRow /\ w \in Working /\ Pair(p, w) /\ p.uid = job.uid
    BY <2>1, <2>2, <2>3, NewRowOK
  <2>5. p.extent = CandidateExtent(job)
    BY <2>2
  <2>6. QED
    BY <2>4, <2>5 DEF job, p, w
<1>3. ps \in Seq(PromptRow) /\ DOMAIN ps = DOMAIN jobs /\ Len(ps) = Len(jobs)
  BY <1>1, <1>2, ListMade
<1>4. ws \in Seq(Working) /\ DOMAIN ws = DOMAIN jobs
  BY <1>1, <1>2, ListMade
<1>5. Paired(ps, ws)
  BY <1>2, <1>3, <1>4 DEF Paired
<1>6. Uids(ps) = Uids(jobs) /\ (Distinct(jobs) => Distinct(ps))
  BY <1>2, <1>3, SameUids
<1>7. Extents(ps) = {CandidateExtent(jobs[i]) : i \in DOMAIN jobs}
  BY <1>2, <1>3 DEF Extents
<1>8. QED
  BY <1>3, <1>5, <1>6, <1>7 DEF ps, ws

(* A row grows older.                                                      *)
LEMMA WorkOlder ==
    ASSUME NEW w \in Working, NEW a \in Nat, NEW t, t = [w EXCEPT !.age = a]
    PROVE  /\ t \in Working /\ t.uid = w.uid /\ t.segments = w.segments /\ t.done = w.done
           /\ t.history = w.history /\ t.total = w.total
<1>1. /\ w \in WorkRow /\ w.segments # <<>> /\ Last(w.segments) = 1
      /\ w.done + SumFunction(w.segments) = w.total
      /\ w = [uid |-> w.uid, segments |-> w.segments, done |-> w.done, total |-> w.total,
              history |-> w.history, age |-> w.age]
      /\ w.uid \in Nat /\ w.segments \in Seq(Nat \ {0}) /\ w.done \in Nat
      /\ w.total \in Nat /\ w.history \in Nat
  BY DEF Working, WorkRow
<1>2. t = [uid |-> w.uid, segments |-> w.segments, done |-> w.done, total |-> w.total,
           history |-> w.history, age |-> a]
  BY <1>1
<1>3. t \in WorkRow
  BY <1>1, <1>2 DEF WorkRow
<1>4. /\ t.uid = w.uid /\ t.segments = w.segments /\ t.done = w.done
      /\ t.history = w.history /\ t.total = w.total
  BY <1>2
<1>5. QED
  BY <1>1, <1>3, <1>4 DEF Working

(* Prompts at work that grow older stay beside their rows.                 *)
LEMMA PairedAged ==
    ASSUME policy \in Policies, NEW ps, NEW ws, Paired(ps, ws)
    PROVE  /\ Paired(ps, Aged(ws))
           /\ \A i \in DOMAIN ws : Aged(ws)[i].segments = ws[i].segments
<1> DEFINE t == Aged(ws)
<1>1. /\ ps \in Seq(PromptRow) /\ ws \in Seq(Working) /\ DOMAIN ps = DOMAIN ws
      /\ \A i \in DOMAIN ps : Pair(ps[i], ws[i])
  BY DEF Paired
<1>2. t = [i \in DOMAIN ws |-> [ws[i] EXCEPT !.age = Older(ws[i].age)]]
  BY DEF Aged
<1> HIDE DEF t
<1>3. t = [i \in DOMAIN ws |-> t[i]] /\ \A i \in DOMAIN ws : t[i] = [ws[i] EXCEPT !.age = Older(ws[i].age)]
  BY <1>2
<1>4. ASSUME NEW i \in DOMAIN ws
      PROVE  /\ t[i] \in Working /\ t[i].uid = ws[i].uid /\ t[i].segments = ws[i].segments
             /\ t[i].done = ws[i].done /\ t[i].history = ws[i].history /\ t[i].total = ws[i].total
  <2> DEFINE w == ws[i]
             a == Older(ws[i].age)
             v == t[i]
  <2>1. w \in Working
    BY <1>1
  <2>2. w.age \in Nat
    BY <2>1 DEF Working, WorkRow
  <2>3. a \in Nat
    BY <2>2, OlderIs
  <2>4. v = [w EXCEPT !.age = a]
    BY <1>3
  <2> HIDE DEF w, a, v
  <2>5. /\ v \in Working /\ v.uid = w.uid /\ v.segments = w.segments /\ v.done = w.done
        /\ v.history = w.history /\ v.total = w.total
    BY <2>1, <2>3, <2>4, WorkOlder
  <2>6. QED
    BY <2>5 DEF w, v
<1>5. t \in Seq(Working) /\ DOMAIN t = DOMAIN ws
  BY <1>1, <1>3, <1>4, ListMade
<1>6. \A i \in DOMAIN ps : Pair(ps[i], t[i])
  BY <1>1, <1>4 DEF Pair
<1>7. QED
  BY <1>1, <1>4, <1>5, <1>6 DEF Paired, t

(* The last token of a prompt.                                             *)
LEMMA LastTokenSum == SumFunction(<<1>>) = 1
<1>1. <<1>> \in Seq(Nat \ {0}) /\ <<1>> # <<>> /\ <<1>>[1] = 1 /\ Tail(<<1>>) = <<>>
  OBVIOUS
<1>2. SumFunction(<<1>>) = 1 + SumFunction(<<>>)
  BY <1>1, TailSum
<1>3. DOMAIN <<>> = {}
  OBVIOUS
<1>4. SumFunction(<<>>) = SumFunctionOnSet(<<>>, {})
  BY <1>3 DEF SumFunction
<1>5. SumFunctionOnSet(<<>>, {}) = 0
  BY SumEmpty
<1>6. QED
  BY <1>2, <1>4, <1>5

(* A prompt of which one token is left becomes a row of the other batch:   *)
(* the token goes through the model, the extent stays.                     *)
LEMMA PromotedRow ==
    ASSUME NEW p \in PromptRow, NEW w \in Working, Pair(p, w), Ready(w), NEW g,
           g = [uid |-> p.uid, tokens |-> p.tokens + 1, num |-> 0, limit |-> p.limit,
                extent |-> p.extent]
    PROVE  g \in Generating /\ g.uid = p.uid /\ g.extent = p.extent
<1>1. /\ p.uid \in Nat /\ p.tokens \in Nat /\ p.limit \in Nat \ {0} /\ p.extent \in Nat
  BY DEF PromptRow
<1>2. w.done \in Nat /\ w.history \in Nat /\ w.total \in Nat /\ w.done + SumFunction(w.segments) = w.total
  BY DEF Working, WorkRow
<1>3. SumFunction(<<1>>) = 1
  BY LastTokenSum
<1>4. w.segments = <<1>>
  BY DEF Ready
<1>5. w.done + 1 = w.total
  BY <1>2, <1>3, <1>4
<1>6. p.tokens = w.history + w.done /\ p.extent = w.history + w.total + p.limit
  BY DEF Pair
<1>7. p.extent = (p.tokens + 1) + (p.limit - 0)
  BY <1>1, <1>2, <1>5, <1>6
<1>8. g.uid = p.uid /\ g.tokens = p.tokens + 1 /\ g.num = 0 /\ g.limit = p.limit /\ g.extent = p.extent
  OBVIOUS
<1>9. g \in [uid : Nat, tokens : Nat, num : Nat, limit : Nat, extent : Nat]
  BY <1>1
<1>10. g.num < g.limit /\ g.extent = g.tokens + (g.limit - g.num)
  BY <1>1, <1>7, <1>8
<1>11. QED
  BY <1>8, <1>9, <1>10 DEF Generating

ReadyOnes(ws) == {i \in DOMAIN ws : Ready(ws[i])}
WaitingOnes(ws) == {i \in DOMAIN ws : ~Ready(ws[i])}

(* Rows promoted to the decode batch are those that were ready.            *)
LEMMA PromotedRows ==
    ASSUME NEW ps, NEW ws, Paired(ps, ws)
    PROVE  /\ Promoted(ps, ws) \in Seq(Generating)
           /\ Uids(Promoted(ps, ws)) = Uids(Rows(ps, ReadyOnes(ws)))
           /\ Extents(Promoted(ps, ws)) = Extents(Rows(ps, ReadyOnes(ws)))
           /\ Len(Promoted(ps, ws)) = Len(Rows(ps, ReadyOnes(ws)))
           /\ Distinct(ps) => Distinct(Promoted(ps, ws))
<1> DEFINE ready == Rows(ps, ReadyOnes(ws))
           vs == Rows(ws, ReadyOnes(ws))
           t == Promoted(ps, ws)
<1>1. Paired(ready, vs)
  BY PairedRows
<1>2. /\ ready \in Seq(PromptRow) /\ vs \in Seq(Working) /\ DOMAIN ready = DOMAIN vs
      /\ \A i \in DOMAIN ready : Pair(ready[i], vs[i])
  BY <1>1 DEF Paired
<1>3. \A i \in DOMAIN vs : Ready(vs[i])
  <2>1. ws \in Seq(Working)
    BY DEF Paired
  <2>2. \A k \in DOMAIN vs : \E i \in ReadyOnes(ws) \cap DOMAIN ws : vs[k] = ws[i]
    BY <2>1, RowsUids
  <2>3. QED
    BY <2>2 DEF ReadyOnes
<1>4. /\ t = [i \in DOMAIN ready |-> t[i]]
      /\ \A i \in DOMAIN ready :
            t[i] = [uid |-> ready[i].uid, tokens |-> ready[i].tokens + 1, num |-> 0,
                    limit |-> ready[i].limit, extent |-> ready[i].extent]
  BY DEF Promoted, ReadyOnes
<1>5. ps \in Seq(PromptRow)
  BY DEF Paired
<1>6. Distinct(ps) => Distinct(ready)
  BY <1>5, RowsUids
<1> HIDE DEF ready, vs, t
<1>7. ASSUME NEW i \in DOMAIN ready
      PROVE  t[i] \in Generating /\ t[i].uid = ready[i].uid /\ t[i].extent = ready[i].extent
  <2> DEFINE p == ready[i]
             w == vs[i]
             g == t[i]
  <2>1. p \in PromptRow /\ w \in Working /\ Pair(p, w) /\ Ready(w)
    BY <1>2, <1>3
  <2>2. g = [uid |-> p.uid, tokens |-> p.tokens + 1, num |-> 0, limit |-> p.limit,
             extent |-> p.extent]
    BY <1>4
  <2> HIDE DEF p, w, g
  <2>3. g \in Generating /\ g.uid = p.uid /\ g.extent = p.extent
    BY <2>1, <2>2, PromotedRow
  <2>4. QED
    BY <2>3 DEF p, g
<1>8. t \in Seq(Generating) /\ DOMAIN t = DOMAIN ready /\ Len(t) = Len(ready)
  BY <1>2, <1>4, <1>7, ListMade
<1>9. Uids(t) = Uids(ready) /\ (Distinct(ready) => Distinct(t))
  BY <1>7, <1>8, SameUids
<1>10. Extents(t) = Extents(ready)
  BY <1>7, <1>8 DEF Extents
<1>11. QED
  BY <1>6, <1>8, <1>9, <1>10 DEF t, ready

(* What filter keeps and what it drops adds up.                            *)
LEMMA RowsLengths ==
    ASSUME NEW R, NEW s \in Seq(R), NEW A, NEW B, A \cap B = {}, A \cup B = DOMAIN s
    PROVE  Len(Rows(s, A)) + Len(Rows(s, B)) = Len(s)
<1>1. IsFiniteSet(DOMAIN s) /\ Cardinality(DOMAIN s) = Len(s)
  BY ListDomain
<1>2. A \cap DOMAIN s = A /\ B \cap DOMAIN s = B
  OBVIOUS
<1>3. Len(Rows(s, A)) = Cardinality(A) /\ Cardinality(A) \in Nat
  BY <1>2, RowsEffect
<1>4. Len(Rows(s, B)) = Cardinality(B) /\ Cardinality(B) \in Nat
  BY <1>2, RowsEffect
<1>5. IsFiniteSet(A) /\ IsFiniteSet(B)
  BY <1>1, FS_Subset
<1>6. Cardinality(A \cap B) = 0
  BY FS_EmptySet
<1>7. Cardinality(A \cup B) = Cardinality(A) + Cardinality(B) - Cardinality(A \cap B)
  BY <1>5, FS_Union
<1>8. QED
  BY <1>1, <1>3, <1>4, <1>6, <1>7

(* The two batches hold requests of their kind, apart from each other.     *)
Batches(g, ps, ws) ==
    /\ g \in Seq(Generating) /\ Distinct(g)
    /\ Paired(ps, ws) /\ Distinct(ps)
    /\ Uids(g) \cap Uids(ps) = {}

(* Rows move from ps to the batch beside it, or stay.                      *)
Keeps(g, ps, h, qs) ==
    /\ Uids(h) \cup Uids(qs) = Uids(g) \cup Uids(ps)
    /\ Extents(h) \cup Extents(qs) = Extents(g) \cup Extents(ps)
    /\ Len(h) + Len(qs) = Len(g) + Len(ps) /\ Len(qs) <= Len(ps)

(* Promotion moves each ready prompt out of both lists into the decode     *)
(* batch.                                                                  *)
LEMMA PromotionOK ==
    ASSUME NEW g, NEW ps, NEW ws, Batches(g, ps, ws)
    PROVE  /\ Batches(g \o Promoted(ps, ws), Unpromoted(ps, ws), Unpromoted(ws, ws))
           /\ Keeps(g, ps, g \o Promoted(ps, ws), Unpromoted(ps, ws))
           /\ \A i \in DOMAIN Unpromoted(ws, ws) : ~Ready(Unpromoted(ws, ws)[i])
<1> DEFINE A == ReadyOnes(ws)
           B == WaitingOnes(ws)
           new == Promoted(ps, ws)
           ready == Rows(ps, A)
           qs == Unpromoted(ps, ws)
           vs == Unpromoted(ws, ws)
           h == g \o new
<1>1. /\ g \in Seq(Generating) /\ Distinct(g) /\ Distinct(ps)
      /\ Uids(g) \cap Uids(ps) = {}
      /\ ps \in Seq(PromptRow) /\ ws \in Seq(Working) /\ DOMAIN ps = DOMAIN ws
  BY DEF Batches, Paired
<1>2. Paired(ps, ws)
  BY DEF Batches
<1>3. A \cap B = {} /\ A \cup B = DOMAIN ps /\ B = DOMAIN ps \ A
  BY <1>1 DEF ReadyOnes, WaitingOnes
<1>4. qs = Rows(ps, B) /\ vs = Rows(ws, B)
  BY DEF Unpromoted, WaitingOnes
<1>5. new \in Seq(Generating) /\ Uids(new) = Uids(ready) /\ Extents(new) = Extents(ready)
      /\ Len(new) = Len(ready) /\ Distinct(new)
  BY <1>1, <1>2, PromotedRows
<1>6. Paired(qs, vs)
  BY <1>2, <1>4, PairedRows
<1>7. \A i \in DOMAIN vs : ~Ready(vs[i])
  <2>1. \A k \in DOMAIN vs : \E i \in B \cap DOMAIN ws : vs[k] = ws[i]
    BY <1>1, <1>4, RowsUids
  <2>2. QED
    BY <2>1 DEF WaitingOnes
<1> HIDE DEF A, B, new, ready, qs, vs
<1>8. /\ qs \in Seq(PromptRow) /\ Distinct(qs) /\ ready \in Seq(PromptRow)
      /\ Len(qs) <= Len(ps) /\ Len(qs) \in Nat
  <2>1. Distinct(Rows(ps, B)) /\ Len(Rows(ps, B)) <= Len(ps) /\ Len(Rows(ps, B)) \in Nat
    BY <1>1, RowsUids
  <2>2. Rows(ps, B) \in Seq(PromptRow)
    BY <1>1, RowsEffect
  <2>3. ready \in Seq(PromptRow)
    BY <1>1, RowsEffect DEF ready
  <2>4. QED
    BY <1>4, <2>1, <2>2, <2>3
<1>9. Uids(ready) \cap Uids(qs) = {}
  BY <1>1, <1>3, <1>4, RowsApart DEF ready
<1>10. Uids(ready) \cup Uids(qs) = Uids(ps)
  BY <1>1, <1>3, <1>4, RowsSplit DEF ready
<1>11. Len(ready) + Len(qs) = Len(ps)
  BY <1>1, <1>3, <1>4, RowsLengths DEF ready
<1>12. Extents(ready) \cup Extents(qs) = Extents(ps)
  <2>1. Extents(ready) = {ps[i].extent : i \in A \cap DOMAIN ps}
    BY <1>1, ExtentsOfRows DEF ready
  <2>2. Extents(qs) = {ps[i].extent : i \in B \cap DOMAIN ps}
    BY <1>1, <1>4, ExtentsOfRows
  <2>3. QED
    BY <1>3, <2>1, <2>2 DEF Extents
<1>13. h \in Seq(Generating) /\ Len(h) = Len(g) + Len(new) /\ Uids(h) = Uids(g) \cup Uids(new)
       /\ (Uids(g) \cap Uids(new) = {} => Distinct(h))
  <2>1. g \in Seq(Generating) /\ new \in Seq(Generating)
    BY <1>1, <1>5
  <2>2. /\ h \in Seq(Generating) /\ Len(h) = Len(g) + Len(new) /\ Uids(h) = Uids(g) \cup Uids(new)
        /\ Distinct(g) /\ Distinct(new) /\ Uids(g) \cap Uids(new) = {} => Distinct(h)
    BY <2>1, Concat
  <2> HIDE DEF h
  <2>3. QED
    BY <1>1, <1>5, <2>2
<1>14. Extents(h) = Extents(g) \cup Extents(new)
  BY <1>1, <1>5, ExtentsOfBoth
<1> HIDE DEF h
<1>15. Uids(g) \cap Uids(new) = {} /\ Uids(h) \cap Uids(qs) = {}
  BY <1>1, <1>5, <1>9, <1>10, <1>13
<1>16. Batches(h, qs, vs)
  BY <1>6, <1>8, <1>13, <1>15 DEF Batches
<1>17. Len(h) + Len(qs) = Len(g) + Len(ps)
  <2>1. Len(g) \in Nat
    BY <1>1
  <2>2. Len(ready) \in Nat
    BY <1>8
  <2>3. Len(h) = Len(g) + Len(new)
    BY <1>13
  <2>4. Len(new) = Len(ready)
    BY <1>5
  <2>5. Len(qs) \in Nat
    BY <1>8
  <2>6. QED
    BY ONLY <1>11, <2>1, <2>2, <2>3, <2>4, <2>5
<1>18. Keeps(g, ps, h, qs)
  BY <1>5, <1>8, <1>10, <1>12, <1>13, <1>14, <1>17 DEF Keeps
<1>19. QED
  BY <1>7, <1>16, <1>18 DEF h, new, qs, vs

(* One slice of a prompt.                                                  *)
LEMMA SlicedRow ==
    ASSUME NEW w \in Working, ~Ready(w), NEW chunk \in Nat \ {0}
    PROVE  /\ Sliced(w, chunk) \in Working /\ Sliced(w, chunk).uid = w.uid
           /\ Sliced(w, chunk).history = w.history /\ Sliced(w, chunk).total = w.total
           /\ SliceOf(w, chunk) \in Nat
           /\ Sliced(w, chunk).done = w.done + SliceOf(w, chunk)
<1> DEFINE s == w.segments
           n == SliceOf(w, chunk)
           rest == IF n = s[1] THEN Tail(s) ELSE [s EXCEPT ![1] = s[1] - n]
           t == Sliced(w, chunk)
<1>1. /\ w \in WorkRow /\ s # <<>> /\ Last(s) = 1 /\ w.done + SumFunction(s) = w.total
      /\ w = [uid |-> w.uid, segments |-> s, done |-> w.done, total |-> w.total,
              history |-> w.history, age |-> w.age]
      /\ w.uid \in Nat /\ s \in Seq(Nat \ {0}) /\ w.done \in Nat
      /\ w.total \in Nat /\ w.history \in Nat
  BY DEF Working, WorkRow
<1>2. s # <<1>>
  BY DEF Ready
<1>3. t = [uid |-> w.uid, segments |-> rest, done |-> w.done + n, total |-> w.total,
           history |-> w.history, age |-> 0]
  <2>1. t = [w EXCEPT !.done = @ + n, !.age = 0,
                      !.segments = IF n = @[1] THEN Tail(@) ELSE [w.segments EXCEPT ![1] = @ - n]]
    BY DEF Sliced
  <2> HIDE DEF n, t
  <2>2. rest = IF n = w.segments[1] THEN Tail(w.segments)
               ELSE [w.segments EXCEPT ![1] = w.segments[1] - n]
    OBVIOUS
  <2> HIDE DEF rest
  <2>3. w = [uid |-> w.uid, segments |-> w.segments, done |-> w.done, total |-> w.total,
             history |-> w.history, age |-> w.age]
    BY <1>1
  <2>4. t = [uid |-> w.uid, segments |-> rest, done |-> w.done + n, total |-> w.total,
             history |-> w.history, age |-> 0]
    BY <2>1, <2>2, <2>3
  <2>5. QED
    BY <2>4
<1>4. s[1] \in Nat \ {0}
  BY <1>1
<1>5. n \in {s[1], chunk} /\ n <= s[1]
  <2>1. s[1] \in Int /\ chunk \in Int
    BY <1>4
  <2>2. n = Min({s[1], chunk})
    BY DEF SliceOf
  <2> HIDE DEF s, n
  <2>3. QED
    BY <2>1, <2>2, LesserOf
<1> HIDE DEF s, n, t
<1>6. n \in Nat \ {0} /\ n <= s[1]
  BY <1>4, <1>5
<1>7. Len(s) \in Nat /\ Len(s) >= 2
  <2>1. Len(s) \in Nat /\ Len(s) >= 1
    BY <1>1
  <2>2. ASSUME Len(s) = 1 PROVE FALSE
    <3>1. Last(s) = s[1]
      BY <2>2 DEF Last
    <3>2. s = <<s[1]>>
      BY <1>1, <2>2
    <3>3. QED
      BY <1>1, <1>2, <3>1, <3>2
  <2> DEFINE L == Len(s)
  <2>3. L \in Nat /\ L >= 1 /\ L # 1
    BY <2>1, <2>2
  <2> HIDE DEF L
  <2>4. L \in Nat /\ L >= 2
    BY ONLY <2>3
  <2>5. QED
    BY <2>4 DEF L
<1>8. /\ rest \in Seq(Nat \ {0}) /\ rest # <<>> /\ Last(rest) = 1
      /\ SumFunction(rest) = SumFunction(s) - n
  <2>1. CASE n = s[1]
    <3>1. rest = Tail(s)
      BY <2>1
    <3>2. SumFunction(s) = s[1] + SumFunction(Tail(s))
      BY <1>1, TailSum
    <3>3. Tail(s) \in Seq(Nat \ {0}) /\ Len(Tail(s)) = Len(s) - 1 /\ Tail(s) # <<>>
      <4>1. Tail(s) \in Seq(Nat \ {0}) /\ Len(Tail(s)) = Len(s) - 1
        BY <1>1
      <4>2. ASSUME Tail(s) = <<>> PROVE FALSE
        <5> DEFINE r == Tail(s)
        <5>1. Len(r) = 0
          <6>1. r = <<>>
            BY <4>2
          <6> HIDE DEF r
          <6>2. QED
            BY <6>1
        <5> DEFINE L == Len(s)
        <5>2. 0 = L - 1 /\ L \in Nat /\ L >= 2
          BY <1>7, <4>1, <5>1
        <5> HIDE DEF L
        <5>3. QED
          BY ONLY <5>2
      <4>3. QED
        BY <4>1, <4>2
    <3>4. Tail(s)[Len(s) - 1] = s[Len(s)]
      <4>1. Len(s) - 1 \in 1..(Len(s) - 1) /\ (Len(s) - 1) + 1 = Len(s)
        BY <1>7
      <4>2. \A i \in 1..(Len(s) - 1) : Tail(s)[i] = s[i + 1]
        BY <1>1, <1>7
      <4>3. QED
        BY <4>1, <4>2
    <3>5. Last(Tail(s)) = 1
      BY <1>1, <3>3, <3>4 DEF Last
    <3>6. SumFunction(Tail(s)) \in Nat
      BY <3>3, SegmentsSum
    <3> HIDE DEF rest
    <3>7. QED
      BY <1>4, <2>1, <3>1, <3>2, <3>3, <3>5, <3>6
  <2>2. CASE n # s[1]
    <3>1. rest = [s EXCEPT ![1] = s[1] - n]
      BY <2>2
    <3>2. n < s[1] /\ s[1] - n \in Nat \ {0}
      BY <1>4, <1>6, <2>2
    <3> HIDE DEF rest
    <3>3. rest \in Seq(Nat \ {0}) /\ Len(rest) = Len(s) /\ rest # <<>>
      BY <1>1, <1>7, <3>1, <3>2
    <3>4. rest[Len(s)] = s[Len(s)]
      BY <1>1, <1>7, <3>1
    <3>5. Last(rest) = 1
      BY <1>1, <3>3, <3>4 DEF Last
    <3>6. n \in Int /\ rest = [s EXCEPT ![1] = @ - n]
      BY <1>6, <3>1
    <3>7. SumFunction(rest) = SumFunction(s) - n
      BY <1>1, <3>6, FirstLessSum
    <3>8. QED
      BY <3>3, <3>5, <3>7
  <2>3. QED
    BY <2>1, <2>2
<1> HIDE DEF rest
<1>9. /\ t.uid = w.uid /\ t.segments = rest /\ t.done = w.done + n /\ t.total = w.total
      /\ t.history = w.history
  BY <1>3
<1>10. t \in WorkRow
  BY <1>1, <1>3, <1>6, <1>8 DEF WorkRow
<1>11. SumFunction(s) \in Nat
  BY <1>1, SegmentsSum
<1>12. t.done + SumFunction(t.segments) = t.total
  BY <1>1, <1>6, <1>8, <1>9, <1>11
<1>13. t \in Working
  BY <1>8, <1>9, <1>10, <1>12 DEF Working
<1>14. QED
  BY <1>6, <1>9, <1>13 DEF t, n

OneSlice(ps, ws, chunk, qs, vs) ==
    /\ chunk \in Nat \ {0} /\ \A i \in DOMAIN ws : ~Ready(ws[i])
    /\ qs = [i \in DOMAIN ws |-> [ps[i] EXCEPT !.tokens = @ + SliceOf(ws[i], chunk)]]
    /\ vs = [i \in DOMAIN ws |-> Sliced(ws[i], chunk)]

(* A slice advances every prompt and moves none.                           *)
LEMMA SlicingOK ==
    ASSUME NEW ps, NEW ws, Paired(ps, ws), NEW chunk, NEW qs, NEW vs,
           OneSlice(ps, ws, chunk, qs, vs)
    PROVE  /\ Paired(qs, vs) /\ Uids(qs) = Uids(ps) /\ Extents(qs) = Extents(ps)
           /\ Len(qs) = Len(ps) /\ (Distinct(ps) => Distinct(qs))
<1>0. /\ chunk \in Nat \ {0} /\ \A i \in DOMAIN ws : ~Ready(ws[i])
      /\ qs = [i \in DOMAIN ws |-> [ps[i] EXCEPT !.tokens = @ + SliceOf(ws[i], chunk)]]
      /\ vs = [i \in DOMAIN ws |-> Sliced(ws[i], chunk)]
  BY DEF OneSlice
<1> USE <1>0
<1>1. /\ ps \in Seq(PromptRow) /\ ws \in Seq(Working) /\ DOMAIN ps = DOMAIN ws
      /\ \A i \in DOMAIN ps : Pair(ps[i], ws[i])
  BY DEF Paired
<1>2. /\ qs = [i \in DOMAIN ps |-> qs[i]] /\ vs = [i \in DOMAIN ws |-> vs[i]]
      /\ \A i \in DOMAIN ws : /\ qs[i] = [ps[i] EXCEPT !.tokens = ps[i].tokens + SliceOf(ws[i], chunk)]
                              /\ vs[i] = Sliced(ws[i], chunk)
  BY <1>1
<1>3. ASSUME NEW i \in DOMAIN ws
      PROVE  /\ qs[i] \in PromptRow /\ vs[i] \in Working /\ Pair(qs[i], vs[i])
             /\ qs[i].uid = ps[i].uid /\ qs[i].extent = ps[i].extent
  <2> DEFINE p == ps[i]
             w == ws[i]
             q == qs[i]
             v == vs[i]
             n == SliceOf(w, chunk)
  <2>1. p \in PromptRow /\ w \in Working /\ Pair(p, w) /\ ~Ready(w)
    BY <1>1
  <2>2. q = [p EXCEPT !.tokens = p.tokens + n] /\ v = Sliced(w, chunk)
    BY <1>2
  <2> HIDE DEF p, w, q, v
  <2>3. /\ v \in Working /\ v.uid = w.uid /\ v.history = w.history /\ v.total = w.total
        /\ n \in Nat /\ v.done = w.done + n
    BY <2>1, <2>2, SlicedRow
  <2> HIDE DEF n
  <2>4. /\ p = [uid |-> p.uid, tokens |-> p.tokens, limit |-> p.limit, extent |-> p.extent]
        /\ p.uid \in Nat /\ p.tokens \in Nat /\ p.limit \in Nat \ {0} /\ p.extent \in Nat
    BY <2>1 DEF PromptRow
  <2>5. q = [uid |-> p.uid, tokens |-> p.tokens + n, limit |-> p.limit, extent |-> p.extent]
    BY <2>2, <2>4
  <2>6. q \in PromptRow
    BY <2>3, <2>4, <2>5 DEF PromptRow
  <2>7. q.uid = p.uid /\ q.tokens = p.tokens + n /\ q.limit = p.limit /\ q.extent = p.extent
    BY <2>5
  <2>8. w.done \in Nat /\ w.history \in Nat /\ w.total \in Nat
    BY <2>1 DEF Working, WorkRow
  <2>9. Pair(q, v)
    BY <2>1, <2>3, <2>4, <2>7, <2>8 DEF Pair
  <2>10. QED
    BY <2>3, <2>6, <2>7, <2>9 DEF p, q, v
<1>4. qs \in Seq(PromptRow) /\ DOMAIN qs = DOMAIN ps /\ Len(qs) = Len(ps)
  <2>1. \A i \in DOMAIN ps : qs[i] \in PromptRow
    BY <1>1, <1>3
  <2>2. QED
    BY <1>1, <1>2, <2>1, ListMade
<1>5. vs \in Seq(Working) /\ DOMAIN vs = DOMAIN ws
  <2>1. \A i \in DOMAIN ws : vs[i] \in Working
    BY <1>3
  <2>2. QED
    BY <1>1, <1>2, <2>1, ListMade
<1>6. Paired(qs, vs)
  BY <1>1, <1>3, <1>4, <1>5 DEF Paired
<1>7. Uids(qs) = Uids(ps) /\ (Distinct(ps) => Distinct(qs))
  BY <1>1, <1>3, <1>4, SameUids
<1>8. Extents(qs) = Extents(ps)
  BY <1>1, <1>3, <1>4 DEF Extents
<1>9. QED
  BY <1>4, <1>6, <1>7, <1>8

--------------------------------------------------------------------------------
(* Which requests of the queue are admitted.                               *)

Window(n) == Min({Len(queue), Max({n, policy.window})})
CheapestOf(window, picked) == CHOOSE i \in (1..window) \ picked :
    \A j \in (1..window) \ (picked \cup {i}) : Before(Cost(picked, i), Cost(picked, j))

(* One request after the other is picked, up to n of them.                 *)
PicksUpTo(f, window, n) ==
    f = [k \in 1..n |-> IF k = 1 THEN {1} ELSE f[k - 1] \cup {CheapestOf(window, f[k - 1])}]
Picked(window, n) == CHOOSE f : PicksUpTo(f, window, n)

(* Selection by a window takes the first, or the cheapest near the head.   *)
LEMMA SelectedIs ==
    ASSUME NEW n
    PROVE  Selected(n) = IF n <= 0 THEN {} ELSE IF Window(n) = n THEN 1..n
                         ELSE Picked(Window(n), n)[n]
BY DEF Selected, Window, CheapestOf, PicksUpTo, Picked

(* The recursion of the selection has a solution.                          *)
LEMMA PickedExists ==
    ASSUME NEW window, NEW n \in Nat
    PROVE  \E f : PicksUpTo(f, window, n)
<1> DEFINE N == {m \in Nat : \E f : PicksUpTo(f, window, m)}
<1>1. 0 \in N
  <2> DEFINE f == [k \in 1..0 |-> {}]
  <2>1. f = [k \in 1..0 |-> IF k = 1 THEN {1} ELSE f[k - 1] \cup {CheapestOf(window, f[k - 1])}]
    OBVIOUS
  <2> HIDE DEF f
  <2>2. QED
    BY <2>1 DEF PicksUpTo
<1>2. ASSUME NEW m \in Nat, m \in N PROVE m + 1 \in N
  <2>1. PICK f : PicksUpTo(f, window, m)
    BY <1>2
  <2> DEFINE new == IF m = 0 THEN {1} ELSE f[m] \cup {CheapestOf(window, f[m])}
             g == [k \in 1..(m + 1) |-> IF k = m + 1 THEN new ELSE f[k]]
  <2>2. \A k \in 1..m : f[k] = IF k = 1 THEN {1} ELSE f[k - 1] \cup {CheapestOf(window, f[k - 1])}
    BY <2>1 DEF PicksUpTo
  <2>3. \A k \in 1..m : g[k] = f[k]
    OBVIOUS
  <2>4. g[m + 1] = new
    OBVIOUS
  <2>5. \A k \in 1..(m + 1) : k # 1 => k - 1 \in 1..m
    OBVIOUS
  <2>6. g = [k \in 1..(m + 1) |-> g[k]]
    OBVIOUS
  <2> HIDE DEF g
  <2>7. ASSUME NEW k \in 1..(m + 1)
        PROVE  g[k] = IF k = 1 THEN {1} ELSE g[k - 1] \cup {CheapestOf(window, g[k - 1])}
    <3>1. CASE k = m + 1
      <4>1. CASE m = 0
        BY <2>4, <3>1, <4>1
      <4>2. CASE m # 0
        <5>1. k # 1 /\ k - 1 = m /\ m \in 1..m
          BY <3>1, <4>2
        <5>2. g[k - 1] = f[m]
          BY <2>3, <5>1
        <5>3. QED
          BY <2>4, <3>1, <4>2, <5>1, <5>2
      <4>3. QED
        BY <4>1, <4>2
    <3>2. CASE k # m + 1
      <4>1. k \in 1..m /\ (k # 1 => k - 1 \in 1..m)
        BY <3>2
      <4>2. QED
        BY <2>2, <2>3, <4>1
    <3>3. QED
      BY <3>1, <3>2
  <2>8. g = [k \in 1..(m + 1) |->
                IF k = 1 THEN {1} ELSE g[k - 1] \cup {CheapestOf(window, g[k - 1])}]
    BY <2>6, <2>7
  <2>9. PicksUpTo(g, window, m + 1)
    BY <2>8 DEF PicksUpTo
  <2>10. QED
    BY <2>9
<1> HIDE DEF N
<1>3. n \in N
  BY <1>1, <1>2, NatSet
<1>4. QED
  BY <1>3 DEF N

(* No more requests are selected than asked for, and the oldest is one.    *)
LEMMA SelectedFew ==
    ASSUME NEW n \in Int
    PROVE  /\ n <= 0 => Selected(n) = {}
           /\ n > 0 => /\ IsFiniteSet(Selected(n)) /\ Cardinality(Selected(n)) \in 0..n
                       /\ 1 \in Selected(n)
<1>1. CASE n <= 0
  BY <1>1, SelectedIs
<1>2. CASE n > 0 /\ Window(n) = n
  <2>1. n \in Nat /\ Selected(n) = 1..n /\ 1 \in 1..n
    BY <1>2, SelectedIs
  <2>2. IsFiniteSet(1..n) /\ Cardinality(1..n) = n
    BY <2>1, FS_Interval
  <2>3. QED
    BY <2>1, <2>2
<1>3. CASE n > 0 /\ Window(n) # n
  <2> DEFINE window == Window(n)
             f == Picked(window, n)
  <2>1. n \in Nat /\ Selected(n) = f[n]
    BY <1>3, SelectedIs
  <2> HIDE DEF window
  <2>2. PicksUpTo(f, window, n)
    BY <2>1, PickedExists DEF Picked
  <2> HIDE DEF f
  <2>3. \A k \in 1..n : f[k] = IF k = 1 THEN {1} ELSE f[k - 1] \cup {CheapestOf(window, f[k - 1])}
    BY <2>2 DEF PicksUpTo
  <2> DEFINE N == {m \in Nat : m + 1 <= n => /\ IsFiniteSet(f[m + 1]) /\ 1 \in f[m + 1]
                                             /\ Cardinality(f[m + 1]) \in 0..(m + 1)}
  <2>4. 0 \in N
    <3>1. f[1] = {1}
      <4>1. 1 \in 1..n
        BY <1>3, <2>1
      <4>2. QED
        BY <2>3, <4>1
    <3>2. IsFiniteSet({1}) /\ Cardinality({1}) = 1
      BY FS_Singleton
    <3>3. QED
      BY <3>1, <3>2
  <2>5. ASSUME NEW m \in Nat, m \in N PROVE m + 1 \in N
    <3>1. SUFFICES ASSUME (m + 1) + 1 <= n
                   PROVE  /\ IsFiniteSet(f[(m + 1) + 1]) /\ 1 \in f[(m + 1) + 1]
                          /\ Cardinality(f[(m + 1) + 1]) \in 0..((m + 1) + 1)
      OBVIOUS
    <3> DEFINE old == f[m + 1]
               new == CheapestOf(window, old)
    <3>2. IsFiniteSet(old) /\ 1 \in old /\ Cardinality(old) \in 0..(m + 1)
      BY <2>1, <2>5, <3>1
    <3>3. f[(m + 1) + 1] = old \cup {new}
      <4>1. (m + 1) + 1 \in 1..n /\ (m + 1) + 1 # 1 /\ ((m + 1) + 1) - 1 = m + 1
        BY <2>1, <3>1
      <4>2. QED
        BY <2>3, <4>1
    <3> HIDE DEF old, new
    <3>4. /\ IsFiniteSet(old \cup {new})
          /\ Cardinality(old \cup {new}) = IF new \in old THEN Cardinality(old)
                                           ELSE Cardinality(old) + 1
      BY <3>2, FS_AddElement
    <3>5. QED
      BY <3>2, <3>3, <3>4
  <2> HIDE DEF N
  <2>6. n - 1 \in N
    <3>1. n - 1 \in Nat
      BY <1>3
    <3>2. QED
      BY <2>4, <2>5, <3>1, NatSet
  <2>7. IsFiniteSet(f[n]) /\ 1 \in f[n] /\ Cardinality(f[n]) \in 0..n
    <3>1. (n - 1) + 1 = n /\ n <= n
      OBVIOUS
    <3>2. QED
      BY <2>6, <3>1 DEF N
  <2>8. QED
    BY <1>3, <2>1, <2>7
<1>4. QED
  BY <1>1, <1>2, <1>3

--------------------------------------------------------------------------------
(* The stages of a round.                                                  *)

(* A row that was given a token and has not ended goes on.                 *)
LEMMA DecodedRow ==
    ASSUME NEW g \in Generating, NEW t, t = [g EXCEPT !.num = @ + 1, !.tokens = @ + 1]
    PROVE  /\ t.uid = g.uid /\ t.extent = g.extent
           /\ ~(t.num >= t.limit) => t \in Generating
           /\ t \in [uid : Nat, tokens : Nat, num : Nat, limit : Nat, extent : Nat]
<1>1. /\ g = [uid |-> g.uid, tokens |-> g.tokens, num |-> g.num, limit |-> g.limit,
              extent |-> g.extent]
      /\ g.uid \in Nat /\ g.tokens \in Nat /\ g.num \in Nat /\ g.limit \in Nat /\ g.extent \in Nat
      /\ g.num < g.limit /\ g.extent = g.tokens + (g.limit - g.num)
  BY DEF Generating
<1>2. t = [uid |-> g.uid, tokens |-> g.tokens + 1, num |-> g.num + 1, limit |-> g.limit,
           extent |-> g.extent]
  BY <1>1
<1>3. t \in [uid : Nat, tokens : Nat, num : Nat, limit : Nat, extent : Nat]
  BY <1>1, <1>2
<1>4. t.uid = g.uid /\ t.extent = g.extent /\ t.num = g.num + 1 /\ t.limit = g.limit
      /\ t.tokens = g.tokens + 1
  BY <1>2
<1>5. t.extent = t.tokens + (t.limit - t.num)
  BY <1>1, <1>4
<1>6. ~(t.num >= t.limit) => t.num < t.limit
  BY <1>1, <1>4
<1>7. QED
  BY <1>3, <1>4, <1>5, <1>6 DEF Generating

(* Rows leave the batches, none comes.                                     *)
Shrinks(g, h) == /\ Uids(h) \subseteq Uids(g) /\ Extents(h) \subseteq Extents(g)
                 /\ Len(h) <= Len(g) /\ Len(h) \in Nat

(* filter only shrinks a batch.                                            *)
LEMMA ShrunkRows ==
    ASSUME NEW R, NEW s \in Seq(R), NEW kept
    PROVE  Shrinks(s, Rows(s, kept))
<1>1. /\ Uids(Rows(s, kept)) = {s[i].uid : i \in kept \cap DOMAIN s}
      /\ Len(Rows(s, kept)) <= Len(s) /\ Len(Rows(s, kept)) \in Nat
  BY RowsUids
<1>2. Extents(Rows(s, kept)) = {s[i].extent : i \in kept \cap DOMAIN s}
  BY ExtentsOfRows
<1>3. QED
  BY <1>1, <1>2 DEF Shrinks, Uids, Extents

(* After decoding exactly the finished rows have left.                     *)
LEMMA DecodeOK ==
    ASSUME generation \in Seq(Generating), Distinct(generation), NEW matched
    PROVE  /\ After(matched) \in Seq(Generating) /\ Distinct(After(matched))
           /\ Uids(After(matched)) = Uids(generation)
                                     \ {generation[i].uid : i \in Finished(matched) \cap DOMAIN generation}
           /\ Shrinks(generation, After(matched))
<1> DEFINE t == Decoded
           R == [uid : Nat, tokens : Nat, num : Nat, limit : Nat, extent : Nat]
           done == Finished(matched)
           kept == DOMAIN generation \ done
<1>1. /\ t = [i \in DOMAIN generation |-> t[i]]
      /\ \A i \in DOMAIN generation : t[i] = [generation[i] EXCEPT !.num = @ + 1, !.tokens = @ + 1]
  BY DEF Decoded
<1>2. \A i \in DOMAIN generation : t[i].num >= t[i].limit => i \in done
  BY <1>1 DEF Finished
<1>3. After(matched) = Rows(t, kept)
  BY DEF After
<1> HIDE DEF t, done
<1>4. ASSUME NEW i \in DOMAIN generation
      PROVE  /\ t[i].uid = generation[i].uid /\ t[i].extent = generation[i].extent
             /\ ~(t[i].num >= t[i].limit) => t[i] \in Generating
             /\ t[i] \in R
  <2> DEFINE g == generation[i]
             v == t[i]
  <2>1. g \in Generating
    OBVIOUS
  <2>2. v = [g EXCEPT !.num = @ + 1, !.tokens = @ + 1]
    BY <1>1
  <2> HIDE DEF g, v
  <2>3. /\ v.uid = g.uid /\ v.extent = g.extent /\ (~(v.num >= v.limit) => v \in Generating)
        /\ v \in R
    BY <2>1, <2>2, DecodedRow
  <2>4. QED
    BY <2>3 DEF g, v
<1>5. t \in Seq(R) /\ DOMAIN t = DOMAIN generation /\ Len(t) = Len(generation)
  <2>1. \A i \in DOMAIN generation : t[i] \in R
    BY <1>4
  <2> HIDE DEF R
  <2>2. QED
    BY <1>1, <2>1, ListMade
<1>6. Uids(t) = Uids(generation) /\ Distinct(t)
  BY <1>4, <1>5, SameUids
<1>7. Extents(t) = Extents(generation)
  BY <1>4, <1>5, ZenonT(40) DEF Extents
<1>8. \A i \in kept \cap DOMAIN t : t[i] \in Generating
  BY <1>2, <1>4, <1>5
<1> HIDE DEF R, kept
<1>9. Rows(t, kept) \in Seq(Generating)
  BY <1>5, <1>8, RowsIn
<1>10. /\ Uids(Rows(t, kept)) = {t[i].uid : i \in kept \cap DOMAIN t}
       /\ Distinct(Rows(t, kept))
  BY <1>5, <1>6, RowsUids
<1>11. Uids(Rows(t, kept)) = Uids(generation)
                             \ {generation[i].uid : i \in done \cap DOMAIN generation}
  <2>1. {t[i].uid : i \in kept \cap DOMAIN t} = {generation[i].uid : i \in kept}
    BY <1>4, <1>5 DEF kept
  <2>2. \A i, j \in DOMAIN generation : generation[i].uid = generation[j].uid => i = j
    BY DEF Distinct
  <2>3. QED
    BY <1>10, <2>1, <2>2 DEF Uids, kept
<1>12. Shrinks(t, Rows(t, kept))
  BY <1>5, ShrunkRows
<1>13. Shrinks(generation, Rows(t, kept))
  BY <1>5, <1>6, <1>7, <1>12 DEF Shrinks
<1>14. QED
  BY <1>3, <1>9, <1>10, <1>11, <1>13 DEF done

--------------------------------------------------------------------------------
(* What every reachable state of a generator without self-MTP satisfies.   *)

RowsInv ==
    /\ policy \in Policies /\ inserted \in 0..MaxJobs
    /\ steps \in 0..(policy.cadence - 1) /\ turn \in {0, 1}
    /\ queue \in Seq(Waiting) /\ Distinct(queue)
    /\ Batches(generation, prompts, processing)
    /\ Uids(queue) \cap (Uids(prompts) \cup Uids(generation)) = {}
    /\ Live \cup left = 0..(inserted - 1) /\ Live \cap left = {}
    /\ Len(prompts) <= policy.prefill
    /\ Len(generation) < policy.completion + policy.prefill

(* What the rows in the batches may still grow to, n rows of these extents.*)
Charge(n, extents) == n * (FixedBytes + BytesPerUnit * (Max(extents) + AllocationStep - 1))
Affordable(n, extents) ==
    policy.budget # 0 /\ policy.window = 1 => n <= 1 \/ Charge(n, extents) <= policy.budget

BudgetInv == Affordable(Len(generation) + Len(prompts), Extents(generation) \cup Extents(prompts))

(* A new generator is empty.                                               *)
LEMMA BatchInitInv ==
    ASSUME BatchInit
    PROVE  RowsInv /\ BudgetInv
<1>1. /\ policy \in Policies /\ inserted = 0 /\ queue = <<>> /\ processing = <<>>
      /\ prompts = <<>> /\ generation = <<>> /\ steps = 0 /\ left = {} /\ turn = 0
  BY DEF BatchInit
<1>2. /\ policy.prefill \in Nat \ {0} /\ policy.completion \in Nat
      /\ policy.cadence \in Nat \ {0} /\ MaxJobs \in Nat
  BY <1>1, PoliciesAssumption, CostAssumption
<1>3. <<>> \in Seq(Waiting) /\ Len(<<>>) = 0 /\ Uids(<<>>) = {} /\ Distinct(<<>>)
  BY NoRows
<1>4. Batches(generation, prompts, processing)
  <2>1. <<>> \in Seq(PromptRow) /\ <<>> \in Seq(Working) /\ <<>> \in Seq(Generating)
    BY NoRows
  <2>2. DOMAIN <<>> = {}
    OBVIOUS
  <2>3. Paired(<<>>, <<>>)
    BY <2>1, <2>2 DEF Paired
  <2>4. QED
    BY <1>1, <1>3, <2>1, <2>3 DEF Batches
<1>5. Live = {} /\ 0..(inserted - 1) = {}
  BY <1>1, <1>3 DEF Live
<1>6. steps \in 0..(policy.cadence - 1) /\ inserted \in 0..MaxJobs
  BY <1>1, <1>2
<1>7. Len(prompts) <= policy.prefill /\ Len(generation) < policy.completion + policy.prefill
  BY <1>1, <1>2, <1>3
<1>8. RowsInv
  BY <1>1, <1>3, <1>4, <1>5, <1>6, <1>7 DEF RowsInv
<1>9. BudgetInv
  BY <1>1, <1>3 DEF BudgetInv, Affordable
<1>10. QED
  BY <1>8, <1>9

(* insert_segments.                                                        *)
LEMMA InsertOK ==
    ASSUME RowsInv, BudgetInv, NEW p \in Prompts, Insert(p)
    PROVE  RowsInv' /\ BudgetInv'
<1> DEFINE job == [uid |-> inserted, segments |-> SplitLast(p.segments), limit |-> p.limit,
                   history |-> p.history, bytes |-> p.bytes, age |-> 0]
<1>1. /\ inserted < MaxJobs /\ queue' = Append(queue, job) /\ inserted' = inserted + 1
      /\ UNCHANGED <<policy, processing, prompts, generation, steps, left, turn>>
  BY DEF Insert
<1>2. /\ policy \in Policies /\ inserted \in 0..MaxJobs
      /\ queue \in Seq(Waiting) /\ Distinct(queue)
      /\ Uids(queue) \cap (Uids(prompts) \cup Uids(generation)) = {}
      /\ Live \cup left = 0..(inserted - 1) /\ Live \cap left = {}
  BY DEF RowsInv
<1>3. inserted \in Nat /\ inserted' \in 0..MaxJobs
  BY <1>1, <1>2, CostAssumption
<1>4. job \in Waiting
  <2>1. /\ p.segments \in Seq(Nat \ {0}) /\ p.segments # <<>> /\ p.limit \in Nat \ {0}
        /\ p.history \in Nat /\ p.bytes \in Nat
    BY PromptsAssumption
  <2>2. /\ SplitLast(p.segments) \in Seq(Nat \ {0}) /\ SplitLast(p.segments) # <<>>
        /\ Last(SplitLast(p.segments)) = 1
    BY <2>1, SplitLastOK
  <2>3. QED
    BY <1>3, <2>1, <2>2 DEF Waiting, Job
<1>5. job.uid = inserted
  OBVIOUS
<1> HIDE DEF job
<1>6. inserted \notin Live /\ inserted \notin left
  <2>1. inserted \notin 0..(inserted - 1)
    BY <1>3
  <2>2. QED
    BY <1>2, <2>1
<1>7. queue' \in Seq(Waiting) /\ Distinct(queue') /\ Uids(queue') = Uids(queue) \cup {inserted}
  <2>1. /\ <<job>> \in Seq(Waiting) /\ Uids(<<job>>) = {inserted} /\ Distinct(<<job>>)
    BY <1>4, <1>5, OneRow
  <2>2. queue' = queue \o <<job>>
    BY <1>1, <1>2, <1>4
  <2> DEFINE one == <<job>>
  <2> HIDE DEF one
  <2>3. /\ one \in Seq(Waiting) /\ Uids(one) = {inserted} /\ Distinct(one)
        /\ Uids(queue) \cap Uids(one) = {} /\ queue' = queue \o one
    BY <1>6, <2>1, <2>2 DEF one, Live
  <2>4. QED
    BY <1>2, <2>3, Concat
<1>8. 0..(inserted' - 1) = 0..(inserted - 1) \cup {inserted}
  BY <1>1, <1>3
<1>9. Live' = Live \cup {inserted}
  BY <1>1, <1>7 DEF Live, Uids
<1>10. Uids(queue)' \cap (Uids(prompts)' \cup Uids(generation)') = {}
  <2>1. Uids(prompts)' = Uids(prompts) /\ Uids(generation)' = Uids(generation)
    BY <1>1 DEF Uids
  <2>2. QED
    BY <1>2, <1>6, <1>7, <2>1 DEF Live, Uids
<1>11. Live' \cup left' = 0..(inserted' - 1) /\ Live' \cap left' = {}
  BY <1>1, <1>2, <1>6, <1>8, <1>9
<1>12. /\ policy' \in Policies /\ steps' \in 0..(policy'.cadence - 1) /\ turn' \in {0, 1}
       /\ Batches(generation', prompts', processing')
       /\ Len(prompts') <= policy'.prefill
       /\ Len(generation') < policy'.completion + policy'.prefill
  BY <1>1 DEF RowsInv
<1>13. RowsInv'
  BY <1>3, <1>7, <1>10, <1>11, <1>12 DEF RowsInv
<1>14. BudgetInv'
  BY <1>1 DEF BudgetInv, Affordable, Charge, Extents
<1>15. QED
  BY <1>13, <1>14

--------------------------------------------------------------------------------
(* The budget.                                                             *)

(* Products of natural numbers grow with their factors.                    *)
LEMMA TimesMonotone ==
    ASSUME NEW a \in Nat, NEW b \in Nat, NEW c \in Nat, NEW d \in Nat, a <= b, c <= d
    PROVE  a * c <= b * d
<1> DEFINE e == b - a
           f == d - c
<1>1. e \in Nat /\ f \in Nat /\ b = a + e /\ d = c + f
  OBVIOUS
<1> HIDE DEF e, f
<1>2. (a + e) * (c + f) = a * c + a * f + e * c + e * f
  BY <1>1
<1>3. a * c \in Nat /\ a * f \in Nat /\ e * c \in Nat /\ e * f \in Nat
  BY <1>1
<1>4. a * c <= a * c + a * f + e * c + e * f
  BY <1>3
<1>5. QED
  BY <1>1, <1>2, <1>4

(* Every row pays for the longest: fewer and shorter rows cost no more.    *)
LEMMA ChargeLess ==
    ASSUME NEW n \in Nat, NEW m \in Nat, m <= n,
           NEW xs, xs \subseteq Nat, IsFiniteSet(xs), NEW ys, ys \subseteq xs, ys # {}
    PROVE  Charge(m, ys) <= Charge(n, xs) /\ Charge(m, ys) \in Nat /\ Charge(n, xs) \in Nat
<1> DEFINE a == Max(ys)
           b == Max(xs)
           c == FixedBytes + BytesPerUnit * (a + AllocationStep - 1)
           d == FixedBytes + BytesPerUnit * (b + AllocationStep - 1)
<1>1. IsFiniteSet(ys) /\ xs # {} /\ xs \subseteq Int /\ ys \subseteq Int
  <2>1. IsFiniteSet(ys)
    BY FS_Subset
  <2>2. xs # {}
    OBVIOUS
  <2>3. xs \subseteq Int
    OBVIOUS
  <2>4. ys \subseteq Int
    BY <2>3
  <2>5. QED
    BY <2>1, <2>2, <2>3, <2>4
<1>2. a \in ys
  BY <1>1, MaxIn
<1>3. b \in xs /\ \A y \in xs : b >= y
  BY <1>1, MaxIn
<1> HIDE DEF a, b
<1>4. a \in Nat /\ b \in Nat /\ a <= b
  BY <1>2, <1>3
<1>5. FixedBytes \in Nat /\ BytesPerUnit \in Nat /\ AllocationStep \in Nat \ {0}
  BY CostAssumption
<1>6. /\ a + AllocationStep - 1 \in Nat /\ b + AllocationStep - 1 \in Nat
      /\ a + AllocationStep - 1 <= b + AllocationStep - 1
  BY <1>4, <1>5
<1>7. BytesPerUnit * (a + AllocationStep - 1) <= BytesPerUnit * (b + AllocationStep - 1)
  BY <1>5, <1>6, TimesMonotone
<1>8. /\ BytesPerUnit * (a + AllocationStep - 1) \in Nat
      /\ BytesPerUnit * (b + AllocationStep - 1) \in Nat
  BY <1>5, <1>6
<1>9. c \in Nat /\ d \in Nat /\ c <= d
  BY <1>5, <1>7, <1>8
<1> HIDE DEF c, d
<1>10. m * c <= n * d /\ m * c \in Nat /\ n * d \in Nat
  BY <1>9, TimesMonotone
<1>11. QED
  BY <1>10 DEF Charge, a, b, c, d

(* Without a longest row there is no charge to speak of.                   *)
Weighed(n, extents) ==
    /\ n \in Nat /\ extents \subseteq Nat /\ IsFiniteSet(extents)
    /\ n # 0 => extents # {}

(* Fewer rows of fewer extents need no more of the budget.                 *)
LEMMA AffordableLess ==
    ASSUME policy \in Policies, NEW n, NEW xs, Weighed(n, xs), Affordable(n, xs),
           NEW m, NEW ys, Weighed(m, ys), m <= n, ys \subseteq xs
    PROVE  Affordable(m, ys)
<1>1. n \in Nat /\ m \in Nat /\ xs \subseteq Nat /\ IsFiniteSet(xs) /\ (m # 0 => ys # {})
  BY DEF Weighed
<1>2. SUFFICES ASSUME policy.budget # 0, policy.window = 1, ~(m <= 1)
               PROVE  Charge(m, ys) <= policy.budget
  BY DEF Affordable
<1>3. m # 0 /\ ~(n <= 1)
  BY <1>1, <1>2
<1>4. Charge(n, xs) <= policy.budget
  BY <1>2, <1>3 DEF Affordable
<1>5. Charge(m, ys) <= Charge(n, xs) /\ Charge(m, ys) \in Nat /\ Charge(n, xs) \in Nat
  BY <1>1, <1>3, ChargeLess
<1>6. policy.budget \in Nat
  BY PoliciesAssumption
<1>7. QED
  BY <1>4, <1>5, <1>6

(* The rows of both batches can be weighed.                                *)
LEMMA MeasuredRows ==
    ASSUME NEW g \in Seq(Generating), NEW ps \in Seq(PromptRow)
    PROVE  Weighed(Len(g) + Len(ps), Extents(g) \cup Extents(ps))
<1>1. /\ DOMAIN g = 1..Len(g) /\ Len(g) \in Nat /\ IsFiniteSet(DOMAIN g)
  BY ListDomain
<1>2. /\ DOMAIN ps = 1..Len(ps) /\ Len(ps) \in Nat /\ IsFiniteSet(DOMAIN ps)
  BY ListDomain
<1>3. \A i \in DOMAIN g : g[i].extent \in Nat
  BY DEF Generating
<1>4. \A i \in DOMAIN ps : ps[i].extent \in Nat
  <2> TAKE i \in DOMAIN ps
  <2>1. ps[i] \in PromptRow
    OBVIOUS
  <2>2. QED
    BY <2>1 DEF PromptRow
<1>5. IsFiniteSet(Extents(g))
  <2> DEFINE f == [i \in DOMAIN g |-> g[i].extent]
  <2>1. f = [i \in DOMAIN g |-> f[i]] /\ Extents(g) = {f[i] : i \in DOMAIN g}
    BY DEF Extents
  <2> HIDE DEF f
  <2>2. IsFiniteSet({f[i] : i \in DOMAIN g})
    BY <1>1, <2>1, ValuesAreFinite
  <2>3. QED
    BY <2>1, <2>2
<1>6. IsFiniteSet(Extents(ps))
  <2> DEFINE f == [i \in DOMAIN ps |-> ps[i].extent]
  <2>1. f = [i \in DOMAIN ps |-> f[i]] /\ Extents(ps) = {f[i] : i \in DOMAIN ps}
    BY DEF Extents
  <2> HIDE DEF f
  <2>2. IsFiniteSet({f[i] : i \in DOMAIN ps})
    BY <1>2, <2>1, ValuesAreFinite
  <2>3. QED
    BY <2>1, <2>2
<1>7. IsFiniteSet(Extents(g) \cup Extents(ps))
  BY <1>5, <1>6, FS_Union
<1>8. Extents(g) \cup Extents(ps) \subseteq Nat
  BY <1>3, <1>4 DEF Extents
<1>9. ASSUME Len(g) + Len(ps) # 0 PROVE Extents(g) \cup Extents(ps) # {}
  <2>1. Len(g) # 0 \/ Len(ps) # 0
    BY <1>1, <1>2, <1>9
  <2>2. CASE Len(g) # 0
    <3>1. 1 \in DOMAIN g
      BY <1>1, <2>2
    <3>2. QED
      BY <3>1 DEF Extents
  <2>3. CASE Len(ps) # 0
    <3>1. 1 \in DOMAIN ps
      BY <1>2, <2>3
    <3>2. QED
      BY <3>1 DEF Extents
  <2>4. QED
    BY <2>1, <2>2, <2>3
<1>10. Len(g) + Len(ps) \in Nat
  BY <1>1, <1>2
<1>11. QED
  BY <1>7, <1>8, <1>9, <1>10 DEF Weighed

(* _final_extent_states: what a row may still grow to never changes.       *)
LEMMA FinalExtentsAre ==
    ASSUME NEW g, Batches(g, prompts, processing)
    PROVE  /\ FinalExtents(g) \in Seq(Nat) /\ Len(FinalExtents(g)) = Len(g) + Len(prompts)
           /\ ToSet(FinalExtents(g)) = Extents(g) \cup Extents(prompts)
           /\ FinalExtents(g) = [i \in DOMAIN (g \o prompts) |-> (g \o prompts)[i].extent]
<1> DEFINE a == [i \in DOMAIN g |-> g[i].tokens + Max({g[i].limit - g[i].num, 0})]
           b == [i \in DOMAIN processing |->
                    processing[i].history + processing[i].total + prompts[i].limit]
           n == Len(g)
           m == Len(prompts)
           both == g \o prompts
           R == [uid : Nat, tokens : Nat, num : Nat, limit : Nat, extent : Nat] \cup PromptRow
<1>1. /\ g \in Seq(Generating) /\ prompts \in Seq(PromptRow)
      /\ processing \in Seq(Working) /\ DOMAIN prompts = DOMAIN processing
      /\ \A i \in DOMAIN prompts : Pair(prompts[i], processing[i])
  BY DEF Batches, Paired
<1>2. n \in Nat /\ DOMAIN g = 1..n
  BY <1>1, ListDomain
<1>3. m \in Nat /\ DOMAIN prompts = 1..m
  BY <1>1, ListDomain
<1>4. \A i \in 1..n : a[i] = g[i].extent /\ g[i].extent \in Nat
  <2> TAKE i \in 1..n
  <2> DEFINE row == g[i]
  <2>1. row \in Generating
    BY <1>1, <1>2
  <2>2. a[i] = row.tokens + Max({row.limit - row.num, 0})
    BY <1>2
  <2> HIDE DEF row, a
  <2>3. /\ row.tokens \in Nat /\ row.limit \in Nat /\ row.num \in Nat /\ row.extent \in Nat
        /\ row.num < row.limit /\ row.extent = row.tokens + (row.limit - row.num)
    BY <2>1 DEF Generating
  <2>4. Max({row.limit - row.num, 0}) = row.limit - row.num
    <3> DEFINE k == row.limit - row.num
    <3>1. k \in Int /\ 0 \in Int /\ k > 0
      BY <2>3
    <3> HIDE DEF k
    <3>2. Max({k, 0}) \in {k, 0} /\ Max({k, 0}) >= k
      BY <3>1, LesserOf
    <3>3. Max({k, 0}) = k
      BY <3>1, <3>2
    <3>4. QED
      BY <3>3 DEF k
  <2>5. QED
    BY <2>2, <2>3, <2>4 DEF row
<1>5. \A i \in 1..m : b[i] = prompts[i].extent /\ prompts[i].extent \in Nat
  <2> TAKE i \in 1..m
  <2>1. b[i] = processing[i].history + processing[i].total + prompts[i].limit
    BY <1>1, <1>3
  <2>2. Pair(prompts[i], processing[i]) /\ prompts[i] \in PromptRow
    BY <1>1, <1>3
  <2>3. QED
    BY <2>1, <2>2 DEF Pair, PromptRow
<1>6. a = [i \in 1..n |-> a[i]] /\ b = [i \in 1..m |-> b[i]] /\ FinalExtents(g) = a \o b
  BY <1>1, <1>2, <1>3 DEF FinalExtents
<1> HIDE DEF a, b
<1>7. a \in Seq(Nat) /\ Len(a) = n
  <2>1. \A i \in DOMAIN g : a[i] \in Nat
    BY <1>2, <1>4
  <2>2. QED
    BY <1>1, <1>2, <1>6, <2>1, ListMade
<1>8. b \in Seq(Nat) /\ Len(b) = m
  <2>1. \A i \in DOMAIN prompts : b[i] \in Nat
    BY <1>3, <1>5
  <2>2. QED
    BY <1>1, <1>3, <1>6, <2>1, ListMade
<1>9. /\ a \o b \in Seq(Nat) /\ Len(a \o b) = n + m /\ DOMAIN (a \o b) = 1..(n + m)
      /\ \A i \in 1..n : (a \o b)[i] = a[i]
      /\ \A i \in 1..m : (a \o b)[n + i] = b[i]
  <2>1. a \in Seq(Nat) /\ b \in Seq(Nat)
    BY <1>7, <1>8
  <2> DEFINE c == a \o b
  <2>2. /\ c \in Seq(Nat) /\ Len(c) = Len(a) + Len(b) /\ DOMAIN c = 1..(Len(a) + Len(b))
        /\ \A i \in 1..Len(a) : c[i] = a[i]
        /\ \A i \in 1..Len(b) : c[Len(a) + i] = b[i]
    BY <2>1, ConcatAt
  <2> HIDE DEF c, n, m
  <2>3. /\ c \in Seq(Nat) /\ Len(c) = n + m /\ DOMAIN c = 1..(n + m)
        /\ \A i \in 1..n : c[i] = a[i]
        /\ \A i \in 1..m : c[n + i] = b[i]
    BY <1>7, <1>8, <2>2
  <2>4. QED
    BY <2>3 DEF c
<1>10. g \in Seq(R) /\ prompts \in Seq(R)
  <2>1. \A i \in DOMAIN g : g[i] \in R
    <3> TAKE i \in DOMAIN g
    <3>1. g[i] \in Generating
      BY <1>1
    <3>2. QED
      BY <3>1 DEF Generating
  <2>2. \A i \in DOMAIN prompts : prompts[i] \in R
    <3> TAKE i \in DOMAIN prompts
    <3>1. prompts[i] \in PromptRow
      BY <1>1
    <3>2. QED
      BY <3>1
  <2> HIDE DEF R
  <2>3. QED
    BY <1>1, <2>1, <2>2, ListOf
<1> HIDE DEF R
<1>11. /\ DOMAIN both = 1..(n + m)
       /\ \A i \in 1..n : both[i] = g[i]
       /\ \A i \in 1..m : both[n + i] = prompts[i]
  BY <1>10, ConcatAt
<1> HIDE DEF n, m, both
<1>12. \A k \in 1..(n + m) : \/ k \in 1..n
                             \/ k - n \in 1..m /\ n + (k - n) = k
  BY <1>2, <1>3
<1>13. \A k \in 1..(n + m) : (a \o b)[k] = both[k].extent
  <2> TAKE k \in 1..(n + m)
  <2>1. CASE k \in 1..n
    BY <1>4, <1>9, <1>11, <2>1
  <2>2. CASE k - n \in 1..m /\ n + (k - n) = k
    <3>1. (a \o b)[k] = b[k - n] /\ both[k] = prompts[k - n]
      BY <1>9, <1>11, <2>2
    <3>2. QED
      BY <1>5, <2>2, <3>1
  <2>3. QED
    BY <1>12, <2>1, <2>2
<1>14. a \o b = [k \in DOMAIN both |-> both[k].extent]
  <2>1. a \o b = [k \in 1..(n + m) |-> (a \o b)[k]]
    <3> DEFINE c == a \o b
    <3>1. c \in Seq(Nat) /\ DOMAIN c = 1..(n + m)
      BY <1>9
    <3> HIDE DEF c
    <3>2. c = [k \in 1..(n + m) |-> c[k]]
      BY <3>1
    <3>3. QED
      BY <3>2 DEF c
  <2>2. QED
    BY <1>11, <1>13, <2>1
<1>15. ToSet(a \o b) = {both[k].extent : k \in 1..(n + m)}
  BY <1>9, <1>13 DEF ToSet
<1>16. {both[k].extent : k \in 1..(n + m)} = Extents(g) \cup Extents(prompts)
  <2>1. Extents(both) = Extents(g) \cup Extents(prompts)
    BY <1>10, ExtentsOfBoth DEF both
  <2>2. QED
    BY <1>11, <2>1 DEF Extents
<1>17. QED
  BY <1>6, <1>9, <1>14, <1>15, <1>16 DEF n, m, both

(* cohort_bytes of a list that is not empty.                               *)
LEMMA CohortIs ==
    ASSUME NEW s \in Seq(Nat)
    PROVE  CohortBytes(s) = IF Len(s) = 0 THEN 0 ELSE Charge(Len(s), ToSet(s))
<1>1. s = <<>> <=> Len(s) = 0
  OBVIOUS
<1>2. QED
  BY <1>1 DEF CohortBytes, Charge

(* BudgetHolds, as it is checked.                                          *)
LEMMA BudgetFollows ==
    ASSUME policy \in Policies, Batches(generation, prompts, processing), BudgetInv
    PROVE  BudgetHolds
<1> DEFINE xs == FinalExtents(generation)
           n == Len(generation) + Len(prompts)
<1>1. SUFFICES ASSUME policy.budget # 0, policy.window = 1
               PROVE  CohortBytes(xs) <= policy.budget \/ Len(prompts) + Len(generation) = 1
  BY DEF BudgetHolds
<1>2. /\ xs \in Seq(Nat) /\ Len(xs) = n
      /\ ToSet(xs) = Extents(generation) \cup Extents(prompts)
  BY FinalExtentsAre
<1>3. Len(generation) \in Nat /\ Len(prompts) \in Nat
  BY ListDomain DEF Batches, Paired
<1>4. CohortBytes(xs) = IF Len(xs) = 0 THEN 0 ELSE Charge(Len(xs), ToSet(xs))
  BY <1>2, CohortIs
<1>5. n <= 1 \/ Charge(n, Extents(generation) \cup Extents(prompts)) <= policy.budget
  BY <1>1 DEF BudgetInv, Affordable
<1>6. n \in Nat /\ (n = 1 => Len(prompts) + Len(generation) = 1)
  BY <1>3
<1>7. policy.budget \in Nat
  BY PoliciesAssumption
<1> HIDE DEF xs, n
<1>8. CASE n = 0
  BY <1>2, <1>4, <1>7, <1>8
<1>9. CASE n = 1
  BY <1>6, <1>9
<1>10. CASE n # 0 /\ n # 1
  <2>1. ~(n <= 1)
    BY <1>6, <1>10
  <2>2. QED
    BY <1>2, <1>4, <1>5, <1>10, <2>1
<1>11. QED
  BY <1>8, <1>9, <1>10

(* What a waiting request may grow to is a number.                         *)
LEMMA CandidateIn ==
    ASSUME NEW job \in Waiting
    PROVE  CandidateExtent(job) \in Nat /\ Unverified(job) \in Nat /\ job.bytes \in Nat
<1>1. /\ job.segments \in Seq(Nat \ {0}) /\ job.limit \in Nat \ {0}
      /\ job.history \in Nat /\ job.bytes \in Nat
  BY DEF Waiting, Job
<1>2. SumFunction(job.segments) \in Nat
  BY <1>1, SegmentsSum
<1>3. CandidateExtent(job) \in Nat
  BY <1>1, <1>2 DEF CandidateExtent
<1>4. Unverified(job) \in Nat
  BY <1>1 DEF Unverified
<1>5. QED
  BY <1>1, <1>3, <1>4

(* _cohort_committed covers what the rows at work and the requests that    *)
(* are admitted may grow to.                                               *)
LEMMA CommittedCovers ==
    ASSUME queue \in Seq(Waiting), NEW g, Batches(g, prompts, processing),
           NEW n \in 1..Len(queue)
    PROVE  /\ Charge(Len(g) + Len(prompts) + n,
                     (Extents(g) \cup Extents(prompts)) \cup {CandidateExtent(queue[i]) : i \in 1..n})
              <= Committed(g, n)
           /\ Committed(g, n) \in Int
           /\ Weighed(Len(g) + Len(prompts) + n,
                       (Extents(g) \cup Extents(prompts)) \cup {CandidateExtent(queue[i]) : i \in 1..n})
<1> DEFINE xs == FinalExtents(g)
           ys == [i \in 1..n |-> CandidateExtent(queue[i])]
           f == [i \in 1..n |-> Unverified(queue[i])]
           h == [i \in (n + 1)..Len(queue) |-> queue[i].bytes]
           k == Len(g) + Len(prompts)
           E == Extents(g) \cup Extents(prompts)
           C == {CandidateExtent(queue[i]) : i \in 1..n}
<1>1. Len(queue) \in Nat /\ DOMAIN queue = 1..Len(queue) /\ n \in Nat \ {0} /\ n <= Len(queue)
  BY ListDomain
<1>2. \A i \in 1..Len(queue) : /\ CandidateExtent(queue[i]) \in Nat /\ Unverified(queue[i]) \in Nat
                               /\ queue[i].bytes \in Nat
  BY <1>1, CandidateIn
<1>3. 1..n \subseteq 1..Len(queue) /\ (n + 1)..Len(queue) \subseteq 1..Len(queue)
  BY <1>1
<1>4. IsFiniteSet(1..n) /\ IsFiniteSet((n + 1)..Len(queue))
  <2>1. n + 1 \in Int /\ n \in Int /\ Len(queue) \in Int
    BY <1>1
  <2>2. QED
    BY <2>1, FS_Interval
<1>5. SumFunction(f) \in Nat
  <2>1. DOMAIN f = 1..n /\ \A i \in 1..n : f[i] \in Nat
    BY <1>2, <1>3
  <2> HIDE DEF f
  <2>2. SumFunctionOnSet(f, 1..n) \in Nat
    BY <1>4, <2>1, SumSubset
  <2>3. QED
    BY <2>1, <2>2 DEF SumFunction
<1>6. SumFunction(h) \in Nat
  <2> DEFINE D == (n + 1)..Len(queue)
  <2>1. DOMAIN h = D /\ \A i \in D : h[i] \in Nat
    BY <1>2, <1>3
  <2>2. IsFiniteSet(D)
    BY <1>4
  <2> HIDE DEF h, D
  <2>3. SumFunctionOnSet(h, D) \in Nat
    BY <2>1, <2>2, SumSubset
  <2>4. QED
    BY <2>1, <2>3 DEF SumFunction
<1>7. /\ xs \in Seq(Nat) /\ Len(xs) = k /\ ToSet(xs) = E
  BY FinalExtentsAre
<1>8. ys \in Seq(Nat) /\ Len(ys) = n /\ ToSet(ys) = C
  <2>1. /\ DOMAIN ys = 1..n /\ \A i \in 1..n : ys[i] = CandidateExtent(queue[i]) /\ ys[i] \in Nat
        /\ ys = [i \in 1..n |-> ys[i]]
    BY <1>2, <1>3
  <2> HIDE DEF ys
  <2>2. ys \in Seq(Nat) /\ Len(ys) = n
    BY <1>1, <2>1
  <2>3. QED
    BY <2>1, <2>2 DEF ToSet
<1>9. Committed(g, n) = CohortBytes(xs \o ys) + SumFunction(f) + SumFunction(h)
  BY DEF Committed
<1> HIDE DEF xs, ys, f, h
<1>10. /\ xs \o ys \in Seq(Nat) /\ Len(xs \o ys) = k + n /\ ToSet(xs \o ys) = E \cup C
  <2> DEFINE c == xs \o ys
  <2>1. /\ c \in Seq(Nat) /\ Len(c) = Len(xs) + Len(ys) /\ DOMAIN c = 1..(Len(xs) + Len(ys))
        /\ \A i \in 1..Len(xs) : c[i] = xs[i]
        /\ \A i \in 1..Len(ys) : c[Len(xs) + i] = ys[i]
    <3>1. xs \in Seq(Nat) /\ ys \in Seq(Nat)
      BY <1>7, <1>8
    <3>2. QED
      BY <3>1, ConcatAt
  <2>2. DOMAIN xs = 1..Len(xs) /\ DOMAIN ys = 1..Len(ys) /\ Len(xs) \in Nat /\ Len(ys) \in Nat
    BY <1>7, <1>8, ListDomain
  <2> DEFINE a == Len(xs)
             b == Len(ys)
  <2> HIDE DEF c, k, E, C
  <2>3. ToSet(c) = ToSet(xs) \cup ToSet(ys)
    <3>1. \A i \in DOMAIN xs : i \in DOMAIN c /\ c[i] = xs[i]
      BY <2>1, <2>2
    <3>2. \A i \in DOMAIN ys : a + i \in DOMAIN c /\ c[a + i] = ys[i]
      BY <2>1, <2>2
    <3>3. \A j \in DOMAIN c : \/ j \in DOMAIN xs
                              \/ j - a \in DOMAIN ys /\ a + (j - a) = j
      BY <2>1, <2>2
    <3> HIDE DEF a
    <3>4. QED
      BY <3>1, <3>2, <3>3 DEF ToSet
  <2>4. QED
    BY <1>7, <1>8, <2>1, <2>3 DEF c
<1>11. k \in Nat
  BY ListDomain DEF Batches, Paired
<1> HIDE DEF k
<1>12. CohortBytes(xs \o ys) = Charge(k + n, E \cup C)
  <2>1. k + n # 0
    BY <1>1, <1>11
  <2>2. QED
    BY <1>10, <2>1, CohortIs
<1>13. Charge(k + n, E \cup C) \in Nat /\ Weighed(k + n, E \cup C)
  <2>1. Weighed(k, E)
    BY MeasuredRows DEF k, Batches, Paired
  <2>2. IsFiniteSet(C)
    <3> DEFINE q == [i \in 1..n |-> CandidateExtent(queue[i])]
    <3>1. q = [i \in 1..n |-> q[i]] /\ C = {q[i] : i \in 1..n}
      OBVIOUS
    <3> HIDE DEF q
    <3>2. IsFiniteSet({q[i] : i \in 1..n})
      BY <1>4, <3>1, ValuesAreFinite
    <3>3. QED
      BY <3>1, <3>2
  <2>3. C \subseteq Nat /\ C # {}
    <3>1. 1 \in 1..n
      BY <1>1
    <3>2. QED
      BY <1>2, <1>3, <3>1
  <2> HIDE DEF E, C
  <2>4. IsFiniteSet(E) /\ E \subseteq Nat
    BY <2>1 DEF Weighed
  <2>5. IsFiniteSet(E \cup C)
    BY <2>2, <2>4, FS_Union
  <2>6. E \cup C \subseteq Nat /\ E \cup C # {}
    BY <2>3, <2>4
  <2>7. k + n \in Nat
    BY <1>1, <1>11
  <2>8. k + n <= k + n
    BY <2>7
  <2>9. Charge(k + n, E \cup C) \in Nat
    BY <2>5, <2>6, <2>7, <2>8, ChargeLess
  <2>10. QED
    BY <2>5, <2>6, <2>7, <2>9 DEF Weighed
<1>14. Committed(g, n) >= Charge(k + n, E \cup C) /\ Committed(g, n) \in Int
  BY <1>5, <1>6, <1>9, <1>12, <1>13
<1>15. QED
  BY <1>13, <1>14 DEF k, E, C

(* _budget_admissible: what is admitted fits, or is one request alone.     *)
LEMMA AdmittedFit ==
    ASSUME NEW gen, NEW m \in Int, policy.budget # 0, Admissible(gen, m) > 0
    PROVE  \/ Committed(gen, Admissible(gen, m)) <= policy.budget
           \/ Admissible(gen, m) = 1 /\ gen = <<>> /\ prompts = <<>>
<1> DEFINE K == {k \in 0..m : \A j \in 1..k : Committed(gen, j) <= policy.budget}
           fit == Max(K)
<1>1. m > 0
  BY AdmissibleIn
<1>2. Admissible(gen, m) = IF fit = 0 /\ gen = <<>> /\ prompts = <<>> THEN 1 ELSE fit
  BY <1>1 DEF Admissible
<1>3. fit \in K
  <2>1. IsFiniteSet(K) /\ K \subseteq Int
    <3>1. IsFiniteSet(0..m)
      BY FS_Interval
    <3>2. K \subseteq 0..m
      OBVIOUS
    <3> HIDE DEF K
    <3>3. IsFiniteSet(K)
      BY <3>1, <3>2, FS_Subset
    <3>4. QED
      BY <3>2, <3>3
  <2>2. 0 \in K
    BY <1>1
  <2> HIDE DEF K
  <2>3. QED
    BY <2>1, <2>2, MaxIn
<1> HIDE DEF fit
<1>4. fit \in 0..m /\ \A j \in 1..fit : Committed(gen, j) <= policy.budget
  BY <1>3
<1>5. CASE fit = 0
  BY <1>2, <1>5
<1>6. CASE fit # 0
  <2>1. fit \in 1..fit /\ Admissible(gen, m) = fit
    BY <1>2, <1>4, <1>6
  <2>2. QED
    BY <1>4, <2>1
<1>7. QED
  BY <1>5, <1>6

(* Batches that shrink stay within the budget.                             *)
LEMMA ShrunkBudget ==
    ASSUME policy \in Policies, NEW g, NEW ps, NEW h, NEW qs,
           g \in Seq(Generating), ps \in Seq(PromptRow), h \in Seq(Generating), qs \in Seq(PromptRow),
           Affordable(Len(g) + Len(ps), Extents(g) \cup Extents(ps)),
           Shrinks(g, h), Shrinks(ps, qs)
    PROVE  Affordable(Len(h) + Len(qs), Extents(h) \cup Extents(qs))
<1>1. Weighed(Len(g) + Len(ps), Extents(g) \cup Extents(ps))
  BY MeasuredRows
<1>2. Weighed(Len(h) + Len(qs), Extents(h) \cup Extents(qs))
  BY MeasuredRows
<1>3. Extents(h) \cup Extents(qs) \subseteq Extents(g) \cup Extents(ps)
  BY DEF Shrinks
<1>4. Len(h) + Len(qs) <= Len(g) + Len(ps)
  <2>1. Len(g) \in Nat /\ Len(ps) \in Nat
    BY ListDomain
  <2>2. Len(h) <= Len(g) /\ Len(qs) <= Len(ps) /\ Len(h) \in Nat /\ Len(qs) \in Nat
    BY DEF Shrinks
  <2>3. QED
    BY <2>1, <2>2
<1> DEFINE n == Len(g) + Len(ps)
           m == Len(h) + Len(qs)
           xs == Extents(g) \cup Extents(ps)
           ys == Extents(h) \cup Extents(qs)
<1>5. Weighed(n, xs) /\ Weighed(m, ys) /\ m <= n /\ ys \subseteq xs /\ Affordable(n, xs)
  BY <1>1, <1>2, <1>3, <1>4
<1> HIDE DEF n, m, xs, ys
<1>6. Affordable(m, ys)
  BY <1>5, AffordableLess
<1>7. QED
  BY <1>6 DEF m, ys

(* remove: the two lists of the prompt batch lose the same place.          *)
LEMMA RemoveOK ==
    ASSUME RowsInv, BudgetInv, NEW u \in Live, RemoveJob(u)
    PROVE  RowsInv' /\ BudgetInv'
<1> DEFINE kept == {i \in DOMAIN prompts : prompts[i].uid # u}
<1>1. /\ queue' = Without(queue, u) /\ prompts' = Rows(prompts, kept)
      /\ processing' = Rows(processing, kept) /\ generation' = Without(generation, u)
      /\ left' = left \cup {u} /\ UNCHANGED <<policy, inserted, steps, turn>>
  BY DEF RemoveJob
<1>2. prompts' = Without(prompts, u)
  BY <1>1 DEF Without
<1>3. /\ policy \in Policies /\ queue \in Seq(Waiting) /\ Distinct(queue)
      /\ Batches(generation, prompts, processing)
      /\ Uids(queue) \cap (Uids(prompts) \cup Uids(generation)) = {}
      /\ Live \cup left = 0..(inserted - 1) /\ Live \cap left = {}
      /\ Len(prompts) <= policy.prefill
      /\ Len(generation) < policy.completion + policy.prefill
  BY DEF RowsInv
<1>4. /\ generation \in Seq(Generating) /\ Distinct(generation)
      /\ Paired(prompts, processing) /\ Distinct(prompts)
      /\ Uids(generation) \cap Uids(prompts) = {} /\ prompts \in Seq(PromptRow)
  BY <1>3 DEF Batches, Paired
<1> HIDE DEF kept
<1>5. queue' \in Seq(Waiting) /\ Distinct(queue') /\ Uids(queue') = Uids(queue) \ {u}
  BY <1>1, <1>3, WithoutOne
<1>6. /\ prompts' \in Seq(PromptRow) /\ Distinct(prompts') /\ Uids(prompts') = Uids(prompts) \ {u}
      /\ Len(prompts') <= Len(prompts)
  BY <1>2, <1>4, WithoutOne
<1>7. /\ generation' \in Seq(Generating) /\ Distinct(generation')
      /\ Uids(generation') = Uids(generation) \ {u} /\ Len(generation') <= Len(generation)
  BY <1>1, <1>4, WithoutOne
<1>8. Paired(prompts', processing')
  BY <1>1, <1>4, PairedRows
<1>9. Uids(generation') \cap Uids(prompts') = {}
  BY <1>4, <1>6, <1>7
<1>10. Batches(generation', prompts', processing')
  BY <1>6, <1>7, <1>8, <1>9 DEF Batches
<1>11. Live' = Live \ {u}
  BY <1>5, <1>6, <1>7 DEF Live, Uids
<1>12. Uids(queue') \cap (Uids(prompts') \cup Uids(generation')) = {}
  BY <1>3, <1>5, <1>6, <1>7
<1>13. Live' \cup left' = 0..(inserted' - 1) /\ Live' \cap left' = {}
  BY <1>1, <1>3, <1>11
<1>14. Len(prompts') <= policy'.prefill /\ Len(generation') < policy'.completion + policy'.prefill
  <2>1. policy.prefill \in Nat /\ policy.completion \in Nat
    BY <1>3, PoliciesAssumption
  <2>2. Len(prompts) \in Nat /\ Len(generation) \in Nat
    BY <1>4, ListDomain
  <2>3. Len(prompts') \in Nat /\ Len(generation') \in Nat
    BY <1>6, <1>7, ListDomain
  <2>4. QED
    BY <1>1, <1>3, <1>6, <1>7, <2>1, <2>2, <2>3
<1>15. /\ policy' \in Policies /\ inserted' \in 0..MaxJobs
       /\ steps' \in 0..(policy'.cadence - 1) /\ turn' \in {0, 1}
  BY <1>1 DEF RowsInv
<1>16. RowsInv'
  <2>1. Uids(queue)' = Uids(queue') /\ Uids(prompts)' = Uids(prompts') /\ Uids(generation)' = Uids(generation')
    BY DEF Uids
  <2>2. QED
    BY <1>5, <1>10, <1>12, <1>13, <1>14, <1>15, <2>1 DEF RowsInv
<1>17. BudgetInv'
  <2>1. Shrinks(generation, generation')
    BY <1>1, <1>4, ShrunkRows DEF Without
  <2>2. Shrinks(prompts, prompts')
    BY <1>1, <1>4, ShrunkRows
  <2>3. Affordable(Len(generation) + Len(prompts), Extents(generation) \cup Extents(prompts))
    BY DEF BudgetInv
  <2>4. Affordable(Len(generation') + Len(prompts'), Extents(generation') \cup Extents(prompts'))
    BY <1>3, <1>4, <1>6, <1>7, <2>1, <2>2, <2>3, ShrunkBudget
  <2>5. QED
    BY <1>1, <2>4 DEF BudgetInv, Affordable, Charge, Extents
<1>18. QED
  BY <1>16, <1>17

--------------------------------------------------------------------------------
(* A round ends well when its queue and batches are in order and hold all  *)
(* the requests that did not finish in it.                                 *)
Ends(matched, q, g, ps, ws) ==
    /\ q \in Seq(Waiting) /\ Distinct(q) /\ Batches(g, ps, ws)
    /\ Uids(q) \cap (Uids(ps) \cup Uids(g)) = {}
    /\ Uids(q) \cup Uids(ps) \cup Uids(g) = Live \ {generation[i].uid : i \in Finished(matched)}
    /\ Len(ps) <= policy.prefill
    /\ Len(g) < policy.completion + policy.prefill
    /\ Affordable(Len(g) + Len(ps), Extents(g) \cup Extents(ps))

(* A round that ends well keeps the invariants.                            *)
LEMMA RoundEndOK ==
    ASSUME RowsInv, NEW matched \in SUBSET DOMAIN generation, Decode(matched),
           Ends(matched, queue', generation', prompts', processing')
    PROVE  RowsInv' /\ BudgetInv'
<1>1. /\ UNCHANGED <<policy, inserted>> /\ turn' = 1 - turn
      /\ steps' = IF generation = <<>> THEN steps ELSE (steps + 1) % policy.cadence
      /\ left' = left \cup {generation[i].uid : i \in Finished(matched)}
  BY DEF Decode
<1>2. /\ policy \in Policies /\ inserted \in 0..MaxJobs
      /\ steps \in 0..(policy.cadence - 1) /\ turn \in {0, 1}
      /\ generation \in Seq(Generating)
      /\ Live \cup left = 0..(inserted - 1) /\ Live \cap left = {}
  BY DEF RowsInv, Batches
<1>3. steps' \in 0..(policy'.cadence - 1)
  <2>1. policy.cadence \in Nat \ {0} /\ steps \in Nat
    BY <1>2, PoliciesAssumption
  <2>2. (steps + 1) % policy.cadence \in 0..(policy.cadence - 1)
    BY <2>1
  <2>3. QED
    BY <1>1, <1>2, <2>2
<1>4. turn' \in {0, 1}
  BY <1>1, <1>2
<1> DEFINE F == {generation[i].uid : i \in Finished(matched)}
<1>5. F \subseteq Live
  <2>1. DOMAIN Decoded = DOMAIN generation
    BY DEF Decoded
  <2>2. Finished(matched) \subseteq DOMAIN generation
    BY <2>1 DEF Finished
  <2>3. QED
    BY <2>2 DEF Live, Uids
<1>6. Live' = Live \ F
  BY DEF Ends, Live, Uids
<1> HIDE DEF F
<1>7. left' = left \cup F
  BY <1>1 DEF F
<1>8. Live' \cup left' = 0..(inserted' - 1) /\ Live' \cap left' = {}
  BY <1>1, <1>2, <1>5, <1>6, <1>7
<1>9. RowsInv'
  <2>1. Uids(queue)' = Uids(queue') /\ Uids(prompts)' = Uids(prompts') /\ Uids(generation)' = Uids(generation')
    BY DEF Uids
  <2>2. /\ queue' \in Seq(Waiting) /\ Distinct(queue')
        /\ Batches(generation', prompts', processing')
        /\ Uids(queue') \cap (Uids(prompts') \cup Uids(generation')) = {}
        /\ Len(prompts') <= policy.prefill
        /\ Len(generation') < policy.completion + policy.prefill
    BY DEF Ends
  <2>3. QED
    BY <1>1, <1>2, <1>3, <1>4, <1>8, <2>1, <2>2 DEF RowsInv
<1>10. BudgetInv'
  <2>1. Affordable(Len(generation') + Len(prompts'), Extents(generation') \cup Extents(prompts'))
    BY DEF Ends
  <2>2. QED
    BY <1>1, <2>1 DEF BudgetInv, Affordable, Charge, Extents
<1>11. QED
  BY <1>9, <1>10

(* A round may end after it decoded.                                       *)
LEMMA DecodeEnds ==
    ASSUME RowsInv, BudgetInv, NEW matched \in SUBSET DOMAIN generation
    PROVE  Ends(matched, queue, After(matched), prompts, processing)
<1> DEFINE g == After(matched)
           F == {generation[i].uid : i \in Finished(matched)}
<1>1. /\ policy \in Policies /\ queue \in Seq(Waiting) /\ Distinct(queue)
      /\ Batches(generation, prompts, processing)
      /\ Uids(queue) \cap (Uids(prompts) \cup Uids(generation)) = {}
      /\ Len(prompts) <= policy.prefill
      /\ Len(generation) < policy.completion + policy.prefill
  BY DEF RowsInv
<1>2. /\ generation \in Seq(Generating) /\ Distinct(generation)
      /\ Paired(prompts, processing) /\ Distinct(prompts)
      /\ Uids(generation) \cap Uids(prompts) = {} /\ prompts \in Seq(PromptRow)
  BY <1>1 DEF Batches, Paired
<1>3. /\ g \in Seq(Generating) /\ Distinct(g) /\ Shrinks(generation, g)
      /\ Uids(g) = Uids(generation) \ {generation[i].uid : i \in Finished(matched) \cap DOMAIN generation}
  BY <1>2, DecodeOK
<1>4. F = {generation[i].uid : i \in Finished(matched) \cap DOMAIN generation} /\ F \subseteq Uids(generation)
  <2>1. DOMAIN Decoded = DOMAIN generation
    BY DEF Decoded
  <2>2. Finished(matched) \subseteq DOMAIN generation
    BY <2>1 DEF Finished
  <2>3. Finished(matched) \cap DOMAIN generation = Finished(matched)
    BY <2>2
  <2>4. QED
    BY <2>2, <2>3 DEF Uids
<1> HIDE DEF F, g
<1>5. Batches(g, prompts, processing)
  BY <1>2, <1>3, <1>4 DEF Batches
<1>6. Uids(queue) \cap (Uids(prompts) \cup Uids(g)) = {}
  BY <1>1, <1>3
<1>7. Uids(queue) \cup Uids(prompts) \cup Uids(g) = Live \ F
  BY <1>1, <1>2, <1>3, <1>4 DEF Live
<1>8. Len(g) < policy.completion + policy.prefill
  <2>1. policy.prefill \in Nat /\ policy.completion \in Nat
    BY <1>1, PoliciesAssumption
  <2>2. Len(generation) \in Nat /\ Len(g) \in Nat /\ Len(g) <= Len(generation)
    BY <1>2, <1>3, ListDomain DEF Shrinks
  <2>3. QED
    BY <1>1, <2>1, <2>2
<1>9. Shrinks(prompts, prompts)
  BY <1>2, ListDomain DEF Shrinks
<1>10. Affordable(Len(g) + Len(prompts), Extents(g) \cup Extents(prompts))
  <2>1. Affordable(Len(generation) + Len(prompts), Extents(generation) \cup Extents(prompts))
    BY DEF BudgetInv
  <2>2. QED
    BY <1>1, <1>2, <1>3, <1>9, <2>1, ShrunkBudget
<1>11. QED
  BY <1>1, <1>5, <1>6, <1>7, <1>8, <1>10 DEF Ends, F, g

(* The decode batch is full: prefill waits.                                *)
LEMMA SkipEnds ==
    ASSUME policy \in Policies, NEW matched, NEW gen,
           Ends(matched, queue, gen, prompts, processing), SkipPrefill(gen)
    PROVE  Ends(matched, queue', generation', prompts', processing')
<1>1. /\ generation' = gen /\ queue' = Aged(queue) /\ processing' = Aged(processing)
      /\ prompts' = prompts
  BY DEF SkipPrefill
<1>2. /\ queue \in Seq(Waiting) /\ Distinct(queue) /\ Batches(gen, prompts, processing)
  BY DEF Ends
<1>3. queue' \in Seq(Waiting) /\ Distinct(queue') /\ Uids(queue') = Uids(queue)
  BY <1>1, <1>2, AgedOK
<1>4. Paired(prompts, processing)
  BY <1>2 DEF Batches
<1>5. Paired(prompts, processing')
  BY <1>1, <1>4, PairedAged
<1>6. Batches(gen, prompts, processing')
  BY <1>2, <1>5 DEF Batches
<1>7. QED
  BY <1>1, <1>3, <1>6 DEF Ends

(* Promotion and what is left in the prompt batch.                         *)
LEMMA PromotionEnds ==
    ASSUME policy \in Policies, NEW matched, NEW q, NEW gen, NEW ps, NEW ws,
           Ends(matched, q, gen, ps, ws), ~Full(gen)
    PROVE  Ends(matched, q, gen \o Promoted(ps, ws), Unpromoted(ps, ws), Unpromoted(ws, ws))
<1> DEFINE h == gen \o Promoted(ps, ws)
           qs == Unpromoted(ps, ws)
           vs == Unpromoted(ws, ws)
           D == Live \ {generation[i].uid : i \in Finished(matched)}
<1>1. /\ q \in Seq(Waiting) /\ Distinct(q) /\ Batches(gen, ps, ws)
      /\ Uids(q) \cap (Uids(ps) \cup Uids(gen)) = {}
      /\ Uids(q) \cup Uids(ps) \cup Uids(gen) = D
      /\ Len(ps) <= policy.prefill
      /\ Affordable(Len(gen) + Len(ps), Extents(gen) \cup Extents(ps))
  BY DEF Ends
<1>2. Batches(h, qs, vs) /\ Keeps(gen, ps, h, qs)
  BY <1>1, PromotionOK
<1> HIDE DEF h, qs, vs, D
<1>3. /\ Uids(h) \cup Uids(qs) = Uids(gen) \cup Uids(ps)
      /\ Extents(h) \cup Extents(qs) = Extents(gen) \cup Extents(ps)
      /\ Len(h) + Len(qs) = Len(gen) + Len(ps) /\ Len(qs) <= Len(ps)
  BY <1>2 DEF Keeps
<1>4. /\ Len(gen) \in Nat /\ Len(ps) \in Nat
  <2>1. gen \in Seq(Generating) /\ ps \in Seq(PromptRow)
    BY <1>1 DEF Batches, Paired
  <2>2. QED
    BY <2>1, ListDomain
<1>5. Len(h) \in Nat /\ Len(qs) \in Nat
  <2>1. h \in Seq(Generating) /\ qs \in Seq(PromptRow)
    BY <1>2 DEF Batches, Paired
  <2>2. QED
    BY <2>1, ListDomain
<1>6. policy.prefill \in Nat /\ policy.completion \in Nat
  BY PoliciesAssumption
<1>7. Len(gen) < policy.completion
  BY <1>4, <1>6 DEF Full
<1>8. Len(qs) <= policy.prefill /\ Len(h) < policy.completion + policy.prefill
  BY <1>1, <1>3, <1>4, <1>5, <1>6, <1>7
<1>9. Uids(q) \cap (Uids(qs) \cup Uids(h)) = {} /\ Uids(q) \cup Uids(qs) \cup Uids(h) = D
  BY <1>1, <1>3
<1>10. Affordable(Len(h) + Len(qs), Extents(h) \cup Extents(qs))
  BY <1>1, <1>3
<1>11. QED
  BY <1>1, <1>2, <1>8, <1>9, <1>10 DEF Ends, D, h, qs, vs

(* Prefill is put off, and ready rows are promoted all the same.           *)
LEMMA DeferEnds ==
    ASSUME policy \in Policies, NEW matched, NEW gen,
           Ends(matched, queue, gen, prompts, processing), DeferPrefill(gen)
    PROVE  Ends(matched, queue', generation', prompts', processing')
<1> DEFINE h == gen \o Promoted(prompts, processing)
           qs == Unpromoted(prompts, processing)
           vs == Unpromoted(processing, processing)
<1>1. /\ ~Full(gen) /\ generation' = h /\ prompts' = qs /\ processing' = Aged(vs)
      /\ queue' = Aged(queue)
  BY DEF DeferPrefill
<1>2. Ends(matched, queue, h, qs, vs)
  BY <1>1, PromotionEnds
<1> HIDE DEF h, qs, vs
<1>3. /\ queue \in Seq(Waiting) /\ Distinct(queue) /\ Batches(h, qs, vs)
  BY <1>2 DEF Ends
<1>4. queue' \in Seq(Waiting) /\ Distinct(queue') /\ Uids(queue') = Uids(queue)
  BY <1>1, <1>3, AgedOK
<1>5. Paired(qs, vs)
  BY <1>3 DEF Batches
<1>6. Paired(qs, processing')
  BY <1>1, <1>5, PairedAged
<1>7. Batches(h, qs, processing')
  BY <1>3, <1>6 DEF Batches
<1>8. Ends(matched, queue', h, qs, processing')
  BY <1>2, <1>4, <1>7 DEF Ends
<1>9. QED
  BY <1>1, <1>8

(* How many requests the prompt batch takes in: no more than fit in both   *)
(* batches, in the queue and in the budget.                                *)
LEMMA PlacesIn ==
    ASSUME policy \in Policies, NEW gen \in Seq(Generating), prompts \in Seq(PromptRow),
           queue \in Seq(Waiting)
    PROVE  /\ Places(gen) \in Int
           /\ Places(gen) > 0 => /\ Places(gen) <= policy.prefill - Len(prompts)
                                 /\ Places(gen) <= Len(queue)
                                 /\ policy.budget # 0 =>
                                       \/ Committed(gen, Places(gen)) <= policy.budget
                                       \/ Places(gen) = 1 /\ gen = <<>> /\ prompts = <<>>
<1> DEFINE S == {policy.prefill - Len(prompts), policy.completion - Len(gen), Len(queue)}
           m == Min(S)
<1>1. policy.prefill \in Nat /\ policy.completion \in Nat
  BY PoliciesAssumption
<1>2. Len(prompts) \in Nat /\ Len(gen) \in Nat /\ Len(queue) \in Nat
  BY ListDomain
<1>3. IsFiniteSet(S)
  <2> DEFINE a == policy.prefill - Len(prompts)
             b == policy.completion - Len(gen)
             c == Len(queue)
  <2>1. IsFiniteSet({a, b}) /\ IsFiniteSet({b, c})
    BY PairIsFinite
  <2>2. IsFiniteSet({a, b} \cup {b, c})
    BY <2>1, FS_Union
  <2>3. S = {a, b} \cup {b, c}
    OBVIOUS
  <2> HIDE DEF S, a, b, c
  <2>4. QED
    BY <2>2, <2>3
<1>4. S \subseteq Int /\ S # {}
  BY <1>1, <1>2
<1>5. m \in S /\ \A y \in S : m <= y
  <2> HIDE DEF S
  <2>1. QED
    BY <1>3, <1>4, MinIn
<1>6. m \in Int /\ m <= policy.prefill - Len(prompts) /\ m <= Len(queue)
  <2> HIDE DEF m
  <2>1. QED
    BY <1>4, <1>5
<1>7. Places(gen) = Admissible(gen, m)
  BY DEF Places
<1> HIDE DEF m, S
<1>8. /\ m <= 0 => Admissible(gen, m) = m
      /\ m > 0 => Admissible(gen, m) \in 0..m
  BY <1>6, AdmissibleIn
<1>9. Places(gen) \in Int /\ (Places(gen) > 0 => Places(gen) <= m)
  BY <1>6, <1>7, <1>8
<1>10. ASSUME Places(gen) > 0, policy.budget # 0
       PROVE  \/ Committed(gen, Places(gen)) <= policy.budget
              \/ Places(gen) = 1 /\ gen = <<>> /\ prompts = <<>>
  <2>1. Admissible(gen, m) > 0
    BY <1>7, <1>10
  <2>2. \/ Committed(gen, Admissible(gen, m)) <= policy.budget
        \/ Admissible(gen, m) = 1 /\ gen = <<>> /\ prompts = <<>>
    BY <1>6, <1>10, <2>1, AdmittedFit
  <2>3. QED
    BY <1>7, <2>2
<1>11. ASSUME Places(gen) > 0
       PROVE  Places(gen) <= policy.prefill - Len(prompts) /\ Places(gen) <= Len(queue)
  BY <1>1, <1>2, <1>6, <1>9, <1>11
<1>12. QED
  BY <1>9, <1>10, <1>11

(* Without a window the first requests of the queue are taken.             *)
LEMMA FirstSelected ==
    ASSUME policy.window = 1, NEW n \in Nat \ {0}, n <= Len(queue), Len(queue) \in Nat
    PROVE  Selected(n) = 1..n
<1>1. Max({n, 1}) = n
  <2>1. n \in Int /\ 1 \in Int /\ n >= 1
    OBVIOUS
  <2>2. Max({n, 1}) \in {n, 1} /\ Max({n, 1}) >= n
    BY <2>1, LesserOf
  <2>3. QED
    BY <2>1, <2>2
<1>2. Min({Len(queue), n}) = n
  <2> DEFINE k == Len(queue)
  <2>1. k \in Int /\ n \in Int /\ n <= k
    OBVIOUS
  <2> HIDE DEF k
  <2>2. Min({k, n}) \in {k, n} /\ Min({k, n}) <= n
    BY <2>1, LesserOf
  <2>3. Min({k, n}) = n
    BY <2>1, <2>2
  <2>4. QED
    BY <2>3 DEF k
<1>3. Window(n) = n
  BY <1>1, <1>2 DEF Window
<1>4. QED
  BY <1>3, SelectedIs

(* How many requests are taken, whichever they are.                        *)
LEMMA TakenFew ==
    ASSUME queue \in Seq(Waiting), NEW n \in Int
    PROVE  /\ Len(Rows(queue, Selected(n))) \in Nat
           /\ n <= 0 => Len(Rows(queue, Selected(n))) = 0
           /\ n > 0 => Len(Rows(queue, Selected(n))) <= n
<1> DEFINE taken == Selected(n)
           jobs == Rows(queue, taken)
<1>1. Len(jobs) = Cardinality(taken \cap DOMAIN queue) /\ Cardinality(taken \cap DOMAIN queue) \in Nat
  BY RowsEffect
<1>2. CASE n <= 0
  <2>1. taken \cap DOMAIN queue = {}
    BY <1>2, SelectedFew
  <2>2. Cardinality({}) = 0
    BY FS_EmptySet
  <2>3. Len(jobs) = 0
    BY <1>1, <2>1, <2>2
  <2>4. QED
    BY <1>2, <2>3
<1>3. CASE n > 0
  <2>1. IsFiniteSet(taken) /\ Cardinality(taken) \in 0..n
    BY <1>3, SelectedFew
  <2> HIDE DEF taken
  <2>2. Cardinality(taken \cap DOMAIN queue) <= Cardinality(taken)
    BY <2>1, FS_Subset
  <2>3. Len(jobs) <= n /\ Len(jobs) \in Nat
    BY <1>1, <2>1, <2>2
  <2>4. QED
    BY <1>3, <2>3 DEF taken
<1>4. QED
  BY <1>2, <1>3

(* The requests that are taken have room, and may grow to what the budget  *)
(* has room for.                                                           *)
LEMMA TakenFit ==
    ASSUME policy \in Policies, NEW gen, Batches(gen, prompts, processing), ~Full(gen),
           queue \in Seq(Waiting), Len(prompts) <= policy.prefill,
           Affordable(Len(gen) + Len(prompts), Extents(gen) \cup Extents(prompts)),
           NEW jobs, jobs = Rows(queue, Selected(Places(gen))),
           NEW rows, rows = prompts \o NewPrompts(jobs)
    PROVE  /\ Len(rows) <= policy.prefill
           /\ Affordable(Len(gen) + Len(rows), Extents(gen) \cup Extents(rows))
<1> DEFINE n == Places(gen)
           new == NewPrompts(jobs)
           k == Len(gen) + Len(prompts)
           E == Extents(gen) \cup Extents(prompts)
           C == {CandidateExtent(queue[i]) : i \in 1..n}
<1>1. gen \in Seq(Generating) /\ prompts \in Seq(PromptRow)
  BY DEF Batches, Paired
<1>2. jobs \in Seq(Waiting)
  BY RowsEffect
<1>3. /\ new \in Seq(PromptRow) /\ Len(new) = Len(jobs)
      /\ Extents(new) = {CandidateExtent(jobs[i]) : i \in DOMAIN jobs}
  BY <1>2, NewRowsOK DEF Paired
<1>4. /\ n \in Int
      /\ n > 0 => /\ n <= policy.prefill - Len(prompts) /\ n <= Len(queue)
                  /\ policy.budget # 0 => \/ Committed(gen, n) <= policy.budget
                                          \/ n = 1 /\ gen = <<>> /\ prompts = <<>>
  BY <1>1, PlacesIn
<1> HIDE DEF n, new
<1>5. /\ Len(jobs) \in Nat /\ (n <= 0 => Len(jobs) = 0) /\ (n > 0 => Len(jobs) <= n)
  BY <1>4, TakenFew DEF n
<1>6. rows \in Seq(PromptRow) /\ Len(rows) = Len(prompts) + Len(new)
  BY <1>1, <1>3, Concat DEF new
<1>7. Extents(rows) = Extents(prompts) \cup Extents(new)
  BY <1>1, <1>3, ExtentsOfBoth DEF new
<1>8. policy.prefill \in Nat /\ Len(prompts) \in Nat /\ Len(gen) \in Nat /\ Len(queue) \in Nat
  <2>1. policy.prefill \in Nat
    BY PoliciesAssumption
  <2>2. QED
    BY <1>1, <2>1, ListDomain
<1>9. Len(rows) <= policy.prefill
  BY <1>3, <1>4, <1>5, <1>6, <1>8
<1>10. Affordable(Len(gen) + Len(rows), Extents(gen) \cup Extents(rows))
  <2>1. SUFFICES ASSUME policy.budget # 0, policy.window = 1
                 PROVE  Affordable(Len(gen) + Len(rows), Extents(gen) \cup Extents(rows))
    BY DEF Affordable
  <2>2. Weighed(Len(gen) + Len(rows), Extents(gen) \cup Extents(rows))
    BY <1>1, <1>6, MeasuredRows
  <2>3. CASE n <= 0
    <3>1. Len(jobs) = 0 /\ DOMAIN jobs = {}
      BY <1>2, <1>5, <2>3
    <3>2. Extents(new) = {}
      BY <1>3, <3>1
    <3>3. Len(gen) + Len(rows) = k /\ Extents(gen) \cup Extents(rows) = E
      BY <1>3, <1>6, <1>7, <1>8, <3>1, <3>2
    <3>4. QED
      BY <3>3
  <2>4. CASE n > 0
    <3>1. n \in Nat \ {0} /\ n <= Len(queue) /\ n \in 1..Len(queue)
      BY <1>4, <1>8, <2>4
    <3>2. Selected(n) = 1..n
      BY <1>8, <2>1, <3>1, FirstSelected
    <3>3. Extents(new) \subseteq C
      <4>1. \A i \in DOMAIN jobs : \E j \in Selected(n) \cap DOMAIN queue : jobs[i] = queue[j]
        BY RowsUids DEF n
      <4>2. QED
        BY <1>3, <3>2, <4>1
    <3>4. /\ Charge(k + n, E \cup C) <= Committed(gen, n) /\ Committed(gen, n) \in Int
          /\ Weighed(k + n, E \cup C)
      BY <3>1, CommittedCovers
    <3>5. Affordable(k + n, E \cup C)
      <4>1. CASE Committed(gen, n) <= policy.budget
        <5>1. policy.budget \in Nat
          BY PoliciesAssumption
        <5>2. Charge(k + n, E \cup C) \in Int
          <6>1. k + n \in Nat /\ E \cup C \subseteq Nat /\ IsFiniteSet(E \cup C) /\ (k + n # 0 => E \cup C # {})
            BY <3>4 DEF Weighed
          <6>2. k + n # 0 /\ k + n <= k + n
            BY <1>8, <3>1
          <6> DEFINE z == k + n
                     xs == E \cup C
          <6>3. z \in Nat /\ z <= z /\ xs \subseteq Nat /\ IsFiniteSet(xs) /\ xs # {} /\ xs \subseteq xs
            BY <6>1, <6>2
          <6> HIDE DEF z, xs
          <6>4. Charge(z, xs) \in Nat
            BY <6>3, ChargeLess
          <6>5. QED
            BY <6>4 DEF z, xs
        <5> DEFINE c == Charge(k + n, E \cup C)
                   d == Committed(gen, n)
        <5>3. c <= d /\ d <= policy.budget /\ c \in Int /\ d \in Int
          BY <3>4, <4>1, <5>2
        <5> HIDE DEF c, d
        <5>4. c <= policy.budget
          BY <5>1, <5>3
        <5>5. QED
          BY <5>4 DEF Affordable, c
      <4>2. CASE n = 1 /\ gen = <<>> /\ prompts = <<>>
        <5>1. k + n = 1
          BY <4>2
        <5>2. QED
          BY <5>1 DEF Affordable
      <4>3. QED
        BY <1>4, <2>1, <2>4, <4>1, <4>2
    <3>6. Len(gen) + Len(rows) <= k + n
      BY <1>3, <1>5, <1>6, <1>8, <2>4, <3>1
    <3>7. Extents(gen) \cup Extents(rows) \subseteq E \cup C
      BY <1>7, <3>3
    <3> DEFINE z == k + n
               xs == E \cup C
               y == Len(gen) + Len(rows)
               ys == Extents(gen) \cup Extents(rows)
    <3>8. Weighed(z, xs) /\ Affordable(z, xs) /\ Weighed(y, ys) /\ y <= z /\ ys \subseteq xs
      BY <2>2, <3>4, <3>5, <3>6, <3>7
    <3> HIDE DEF z, xs, y, ys
    <3>9. Affordable(y, ys)
      BY <3>8, AffordableLess
    <3>10. QED
      BY <3>9 DEF y, ys
  <2>5. QED
    BY <1>4, <2>3, <2>4
<1>11. QED
  BY <1>9, <1>10

(* Admission moves the requests it selected from the queue into both lists *)
(* of the prompt phase, within the budget.                                 *)
LEMMA TakenEnds ==
    ASSUME policy \in Policies, NEW matched, NEW gen, ~Full(gen),
           Ends(matched, queue, gen, prompts, processing),
           NEW taken, taken = Selected(Places(gen)), NEW jobs, jobs = Rows(queue, taken),
           NEW rest, rest = Rows(queue, DOMAIN queue \ taken)
    PROVE  Ends(matched, rest, gen, prompts \o NewPrompts(jobs), processing \o NewProcessing(jobs))
<1> DEFINE new == NewPrompts(jobs)
           nws == NewProcessing(jobs)
           rows == prompts \o new
           proc == processing \o nws
           D == Live \ {generation[i].uid : i \in Finished(matched)}
<1>1. /\ queue \in Seq(Waiting) /\ Distinct(queue) /\ Batches(gen, prompts, processing)
      /\ Uids(queue) \cap (Uids(prompts) \cup Uids(gen)) = {}
      /\ Uids(queue) \cup Uids(prompts) \cup Uids(gen) = D
      /\ Len(prompts) <= policy.prefill
      /\ Len(gen) < policy.completion + policy.prefill
      /\ Affordable(Len(gen) + Len(prompts), Extents(gen) \cup Extents(prompts))
  BY DEF Ends
<1>2. /\ gen \in Seq(Generating) /\ Distinct(gen) /\ Paired(prompts, processing)
      /\ Distinct(prompts) /\ Uids(gen) \cap Uids(prompts) = {} /\ prompts \in Seq(PromptRow)
  BY <1>1 DEF Batches, Paired
<1>3. jobs \in Seq(Waiting) /\ Distinct(jobs)
  <2>1. jobs \in Seq(Waiting)
    BY <1>1, RowsEffect
  <2>2. Distinct(jobs)
    BY <1>1, RowsUids
  <2>3. QED
    BY <2>1, <2>2
<1>4. rest \in Seq(Waiting) /\ Distinct(rest)
  <2>1. rest \in Seq(Waiting)
    BY <1>1, RowsEffect
  <2>2. Distinct(rest)
    BY <1>1, RowsUids
  <2>3. QED
    BY <2>1, <2>2
<1>5. Uids(jobs) \cup Uids(rest) = Uids(queue)
  BY <1>1, RowsSplit
<1>6. Uids(jobs) \cap Uids(rest) = {}
  <2>1. taken \cap (DOMAIN queue \ taken) \cap DOMAIN queue = {}
    OBVIOUS
  <2>2. QED
    BY <1>1, <2>1, RowsApart
<1>7. Paired(new, nws) /\ Uids(new) = Uids(jobs) /\ Distinct(new) /\ new \in Seq(PromptRow)
  <2>1. Paired(new, nws) /\ Uids(new) = Uids(jobs) /\ (Distinct(jobs) => Distinct(new))
    BY <1>3, NewRowsOK
  <2> HIDE DEF new, nws
  <2>2. QED
    BY <1>3, <2>1 DEF Paired
<1> HIDE DEF new, nws
<1>8. Paired(rows, proc)
  BY <1>2, <1>7, PairedBoth
<1>9. Uids(rows) = Uids(prompts) \cup Uids(jobs) /\ Distinct(rows)
  <2>1. /\ Uids(rows) = Uids(prompts) \cup Uids(new)
        /\ Distinct(prompts) /\ Distinct(new) /\ Uids(prompts) \cap Uids(new) = {} => Distinct(rows)
    BY <1>2, <1>7, Concat
  <2>2. Uids(prompts) \cap Uids(new) = {}
    BY <1>1, <1>5, <1>7
  <2> HIDE DEF rows
  <2>3. QED
    BY <1>2, <1>7, <2>1, <2>2
<1>10. /\ Len(rows) <= policy.prefill
       /\ Affordable(Len(gen) + Len(rows), Extents(gen) \cup Extents(rows))
  <2>1. jobs = Rows(queue, Selected(Places(gen))) /\ rows = prompts \o NewPrompts(jobs)
    BY DEF new
  <2> HIDE DEF rows
  <2>2. QED
    BY <1>1, <2>1, TakenFit
<1> HIDE DEF rows, proc, D
<1>11. Batches(gen, rows, proc)
  BY <1>1, <1>2, <1>5, <1>8, <1>9 DEF Batches
<1>12. /\ Uids(rest) \cap (Uids(rows) \cup Uids(gen)) = {}
       /\ Uids(rest) \cup Uids(rows) \cup Uids(gen) = D
  BY <1>1, <1>5, <1>6, <1>9
<1>13. Ends(matched, rest, gen, rows, proc)
  BY <1>1, <1>4, <1>10, <1>11, <1>12 DEF Ends, D
<1>14. QED
  BY <1>13 DEF rows, proc, new, nws

(* A slice takes at least one token.                                       *)
LEMMA DecisionsIn ==
    ASSUME policy \in Policies, NEW gen, NEW chunk \in Decisions(gen) \ {0}
    PROVE  chunk \in Nat \ {0}
<1>1. /\ policy.step \in Nat \ {0} /\ policy.slices \subseteq 1..policy.step
      /\ policy.adaptive => policy.slices # {}
  BY PoliciesAssumption
<1>2. chunk = policy.step \/ chunk \in policy.slices \/ (policy.adaptive /\ chunk = Min(policy.slices))
  BY DEF Decisions
<1>3. policy.slices # {} => Min(policy.slices) \in policy.slices
  <2>1. IsFiniteSet(policy.slices)
    <3>1. IsFiniteSet(1..policy.step)
      BY <1>1, FS_Interval
    <3>2. QED
      BY <1>1, <3>1, FS_Subset
  <2>2. policy.slices \subseteq Int
    BY <1>1
  <2>3. QED
    BY <2>1, <2>2, MinIn
<1>4. QED
  BY <1>1, <1>2, <1>3

(* Admission, promotion and one slice of every prompt that is left.        *)
LEMMA PrefillEnds ==
    ASSUME policy \in Policies, NEW matched, NEW gen,
           Ends(matched, queue, gen, prompts, processing), Prefill(gen)
    PROVE  Ends(matched, queue', generation', prompts', processing')
<1> DEFINE taken == Selected(Places(gen))
           jobs == Rows(queue, taken)
           rest == Rows(queue, DOMAIN queue \ taken)
           rows == prompts \o NewPrompts(jobs)
           proc == processing \o NewProcessing(jobs)
           h == gen \o Promoted(rows, proc)
           qs == Unpromoted(rows, proc)
           vs == Unpromoted(proc, proc)
<1>1. PICK chunk \in Decisions(gen) \ {0} :
         /\ ~Full(gen) /\ queue' = Aged(rest)
         /\ Process(gen, rows, proc, chunk)
  BY DEF Prefill
<1>2. /\ generation' = h
      /\ prompts' = [i \in DOMAIN vs |-> [qs[i] EXCEPT !.tokens = @ + SliceOf(vs[i], chunk)]]
      /\ processing' = [i \in DOMAIN vs |-> Sliced(vs[i], chunk)]
  BY <1>1 DEF Process
<1>3. chunk \in Nat \ {0}
  BY DecisionsIn
<1>4. Ends(matched, rest, gen, rows, proc)
  <2> HIDE DEF taken, jobs, rest
  <2>1. Ends(matched, rest, gen, prompts \o NewPrompts(jobs), processing \o NewProcessing(jobs))
    BY <1>1, TakenEnds DEF taken, jobs, rest
  <2>2. QED
    BY <2>1
<1> HIDE DEF taken, jobs, rest, rows, proc
<1>5. Ends(matched, rest, h, qs, vs)
  BY <1>1, <1>4, PromotionEnds
<1>6. \A i \in DOMAIN vs : ~Ready(vs[i])
  <2>1. Batches(gen, rows, proc)
    BY <1>4 DEF Ends
  <2>2. QED
    BY <2>1, PromotionOK
<1> HIDE DEF h, qs, vs
<1>7. rest \in Seq(Waiting) /\ Distinct(rest) /\ Batches(h, qs, vs)
  BY <1>5 DEF Ends
<1>8. queue' \in Seq(Waiting) /\ Distinct(queue') /\ Uids(queue') = Uids(rest)
  BY <1>1, <1>7, AgedOK
<1>9. Paired(qs, vs) /\ Distinct(qs)
  BY <1>7 DEF Batches
<1>10. /\ Paired(prompts', processing') /\ Uids(prompts') = Uids(qs)
       /\ Extents(prompts') = Extents(qs) /\ Len(prompts') = Len(qs) /\ Distinct(prompts')
  <2> DEFINE a == prompts'
             b == processing'
  <2>1. /\ a = [i \in DOMAIN vs |-> [qs[i] EXCEPT !.tokens = @ + SliceOf(vs[i], chunk)]]
        /\ b = [i \in DOMAIN vs |-> Sliced(vs[i], chunk)]
    BY <1>2
  <2> HIDE DEF a, b
  <2>2. OneSlice(qs, vs, chunk, a, b)
    BY <1>3, <1>6, <2>1 DEF OneSlice
  <2>3. /\ Paired(a, b) /\ Uids(a) = Uids(qs) /\ Extents(a) = Extents(qs)
        /\ Len(a) = Len(qs) /\ (Distinct(qs) => Distinct(a))
    BY <1>9, <2>2, SlicingOK
  <2>4. QED
    BY <1>9, <2>3 DEF a, b
<1>11. Batches(h, prompts', processing')
  BY <1>7, <1>10 DEF Batches
<1>12. Ends(matched, queue', h, prompts', processing')
  BY <1>5, <1>8, <1>10, <1>11 DEF Ends
<1>13. QED
  BY <1>2, <1>12

(* next, without self-MTP.                                                 *)
LEMMA RoundRowsOK ==
    ASSUME RowsInv, BudgetInv, Round
    PROVE  RowsInv' /\ BudgetInv'
<1>1. PICK matched \in SUBSET DOMAIN generation :
         /\ Decode(matched)
         /\ \E gen \in {After(matched)} : SkipPrefill(gen) \/ DeferPrefill(gen) \/ Prefill(gen)
  BY DEF Round
<1> DEFINE gen == After(matched)
<1>2. SkipPrefill(gen) \/ DeferPrefill(gen) \/ Prefill(gen)
  BY <1>1
<1>3. policy \in Policies
  BY DEF RowsInv
<1>4. Ends(matched, queue, gen, prompts, processing)
  BY DecodeEnds
<1> HIDE DEF gen
<1>5. Ends(matched, queue', generation', prompts', processing')
  BY <1>2, <1>3, <1>4, SkipEnds, DeferEnds, PrefillEnds
<1>6. QED
  BY <1>1, <1>5, RoundEndOK

(* Every operation of a generator without self-MTP keeps the invariants.   *)
LEMMA BatchStep ==
    ASSUME RowsInv, BudgetInv, BatchNext
    PROVE  RowsInv' /\ BudgetInv'
<1>1. CASE \E p \in Prompts : Insert(p)
  BY <1>1, InsertOK
<1>2. CASE \E u \in Live : RemoveJob(u)
  BY <1>2, RemoveOK
<1>3. CASE Round
  BY <1>3, RoundRowsOK
<1>4. QED
  BY <1>1, <1>2, <1>3 DEF BatchNext

(* What the runs check of a generator without self-MTP.                    *)
LEMMA RowsTypeOK ==
    ASSUME RowsInv
    PROVE  BatchTypeOK
<1>1. /\ policy \in Policies /\ inserted \in 0..MaxJobs
      /\ steps \in 0..(policy.cadence - 1) /\ turn \in {0, 1}
      /\ queue \in Seq(Waiting) /\ Batches(generation, prompts, processing)
      /\ Live \cup left = 0..(inserted - 1)
      /\ Len(prompts) <= policy.prefill
      /\ Len(generation) < policy.completion + policy.prefill
  BY DEF RowsInv
<1>2. left \subseteq 0..(inserted - 1)
  BY <1>1
<1>3. \A i \in DOMAIN queue : /\ queue[i].uid \in 0..(inserted - 1)
                              /\ queue[i].segments # <<>> /\ Last(queue[i].segments) = 1
  <2> TAKE i \in DOMAIN queue
  <2>1. queue[i] \in Waiting
    BY <1>1
  <2>2. queue[i].uid \in Live
    BY DEF Live, Uids
  <2>3. QED
    BY <1>1, <2>1, <2>2 DEF Waiting
<1>4. \A i \in DOMAIN processing :
        /\ processing[i].segments # <<>> /\ Last(processing[i].segments) = 1
        /\ \A k \in DOMAIN processing[i].segments : processing[i].segments[k] > 0
  <2> TAKE i \in DOMAIN processing
  <2> DEFINE s == processing[i].segments
  <2>1. processing[i] \in Working
    BY <1>1 DEF Batches, Paired
  <2>2. s \in Seq(Nat \ {0}) /\ s # <<>> /\ Last(s) = 1
    BY <2>1 DEF Working, WorkRow
  <2> HIDE DEF s
  <2>3. \A k \in DOMAIN s : s[k] > 0
    BY <2>2
  <2>4. QED
    BY <2>2, <2>3 DEF s
<1>5. QED
  BY <1>1, <1>2, <1>3, <1>4 DEF BatchTypeOK

(* No request is lost, and the two lists of the prompt phase agree.        *)
LEMMA RowsConserved ==
    ASSUME RowsInv
    PROVE  RowsAreConserved
<1>1. /\ queue \in Seq(Waiting) /\ Distinct(queue) /\ Batches(generation, prompts, processing)
      /\ Uids(queue) \cap (Uids(prompts) \cup Uids(generation)) = {}
      /\ Live \cup left = 0..(inserted - 1) /\ Live \cap left = {}
  BY DEF RowsInv
<1>2. /\ generation \in Seq(Generating) /\ Distinct(generation)
      /\ Distinct(prompts) /\ Uids(generation) \cap Uids(prompts) = {}
      /\ prompts \in Seq(PromptRow) /\ processing \in Seq(Working)
      /\ DOMAIN prompts = DOMAIN processing
      /\ \A i \in DOMAIN prompts : Pair(prompts[i], processing[i])
  BY <1>1 DEF Batches, Paired
<1>3. Len(queue) + Len(prompts) + Len(generation) = Cardinality(Live)
  <2> DEFINE a == Uids(queue)
             b == Uids(prompts)
             c == Uids(generation)
  <2>1. IsFiniteSet(a) /\ Cardinality(a) = Len(queue) /\ Len(queue) \in Nat
    BY <1>1, DistinctCount
  <2>2. IsFiniteSet(b) /\ Cardinality(b) = Len(prompts) /\ Len(prompts) \in Nat
    BY <1>2, DistinctCount
  <2>3. IsFiniteSet(c) /\ Cardinality(c) = Len(generation) /\ Len(generation) \in Nat
    BY <1>2, DistinctCount
  <2>4. Live = (a \cup b) \cup c /\ a \cap b = {} /\ (a \cup b) \cap c = {}
    BY <1>1, <1>2 DEF Live
  <2> HIDE DEF a, b, c
  <2>5. Cardinality({}) = 0
    BY FS_EmptySet
  <2>6. IsFiniteSet(a \cup b) /\ Cardinality(a \cup b) = Cardinality(a) + Cardinality(b) - Cardinality(a \cap b)
    BY <2>1, <2>2, FS_Union
  <2>7. a \cap b = {}
    BY <2>4
  <2>8. Cardinality(a \cap b) = 0
    BY <2>5, <2>7
  <2>9. Cardinality(a \cup b) = Len(queue) + Len(prompts)
    BY <2>1, <2>2, <2>6, <2>8
  <2>10. PICK d : d = a \cup b
    OBVIOUS
  <2>11. IsFiniteSet(d)
    BY <2>6, <2>10
  <2>12. Cardinality(d) = Len(queue) + Len(prompts)
    BY <2>10, <2>9
  <2>13. d \cap c = {}
    BY <2>4, <2>10
  <2>14. Live = d \cup c
    BY <2>4, <2>10
  <2>15. IsFiniteSet(c)
    BY <2>3
  <2>16. Cardinality(d \cup c) = Cardinality(d) + Cardinality(c) - Cardinality(d \cap c)
    BY <2>11, <2>15, FS_Union
  <2>17. Cardinality(d \cap c) = 0
    BY <2>5, <2>13
  <2>18. Cardinality(d \cup c) = Len(queue) + Len(prompts) + Len(generation)
    BY <2>1, <2>2, <2>3, <2>16, <2>12, <2>17
  <2>19. QED
    BY <2>14, <2>18
<1>4. Len(prompts) = Len(processing)
  BY <1>2
<1>5. \A i \in DOMAIN prompts :
        /\ prompts[i].uid = processing[i].uid
        /\ prompts[i].tokens = processing[i].history + processing[i].done
        /\ processing[i].done + SumFunction(processing[i].segments) = processing[i].total
  <2> TAKE i \in DOMAIN prompts
  <2>1. processing[i] \in Working /\ Pair(prompts[i], processing[i])
    BY <1>2
  <2>2. QED
    BY <2>1 DEF Pair, Working
<1>6. \A i \in DOMAIN generation : generation[i].num < generation[i].limit
  <2> TAKE i \in DOMAIN generation
  <2>1. generation[i] \in Generating
    BY <1>2
  <2>2. QED
    BY <2>1 DEF Generating
<1>7. FinalExtents(generation) = [i \in DOMAIN (generation \o prompts) |->
                                     (generation \o prompts)[i].extent]
  BY <1>1, FinalExtentsAre
<1>8. QED
  BY <1>1, <1>3, <1>4, <1>5, <1>6, <1>7 DEF RowsAreConserved

--------------------------------------------------------------------------------
(* Fairness of a step.                                                     *)

GoesIn(job) == job.uid \in Uids(prompts') \cup Uids(generation')
HeadGoesFirst == (\E i \in DOMAIN queue : GoesIn(queue[i])) => GoesIn(queue[1])

(* A prompt at work that grows older than the deadline.                    *)
Overdue(i) ==
    /\ ~Ready(processing'[i])
    /\ processing'[i].age > policy.maxDefer
    /\ \E j \in DOMAIN processing : /\ processing[j].uid = processing'[i].uid
                                    /\ processing[j].age < processing'[i].age
OverdueWhenFull ==
    (\E i \in DOMAIN processing' : Overdue(i)) => Len(generation') >= policy.completion

(* When a round leaves the queue as it is, it admitted nobody; else the    *)
(* head of the queue was taken.                                            *)
LEMMA HeadOf ==
    ASSUME RowsInv, NEW matched \in SUBSET DOMAIN generation,
           Ends(matched, queue', generation', prompts', processing'),
           Uids(queue') = Uids(queue) \/ queue[1].uid \notin Uids(queue')
    PROVE  HeadGoesFirst
<1> DEFINE gone == {generation[i].uid : i \in Finished(matched)}
<1>1. /\ queue \in Seq(Waiting) /\ Uids(queue) \cap (Uids(prompts) \cup Uids(generation)) = {}
  BY DEF RowsInv
<1>2. /\ Uids(queue') \cap (Uids(prompts') \cup Uids(generation')) = {}
      /\ Uids(queue') \cup Uids(prompts') \cup Uids(generation') = Live \ gone
  BY DEF Ends
<1>3. gone \subseteq Uids(generation)
  <2>1. Finished(matched) \subseteq DOMAIN generation
    BY DEF Finished, Decoded
  <2>2. QED
    BY <2>1 DEF Uids
<1> HIDE DEF gone
<1>4. SUFFICES ASSUME NEW i \in DOMAIN queue, GoesIn(queue[i])
               PROVE  GoesIn(queue[1])
  BY DEF HeadGoesFirst
<1>5. 1 \in DOMAIN queue
  <2>1. DOMAIN queue = 1..Len(queue) /\ Len(queue) \in Nat
    BY <1>1, ListDomain
  <2>2. QED
    BY <2>1
<1>6. queue[i].uid \in Uids(queue) /\ queue[1].uid \in Uids(queue)
  BY <1>5 DEF Uids
<1>7. queue[1].uid \notin Uids(queue')
  BY <1>2, <1>4, <1>6 DEF GoesIn
<1>8. queue[1].uid \in Live \ gone
  BY <1>1, <1>3, <1>6 DEF Live
<1>9. QED
  BY <1>2, <1>7, <1>8 DEF GoesIn

(* Admission takes the head of the queue, whatever the window.             *)
LEMMA HeadIsTaken ==
    ASSUME policy \in Policies, queue \in Seq(Waiting), Distinct(queue), queue # <<>>,
           prompts \in Seq(PromptRow), NEW gen \in Seq(Generating), Prefill(gen)
    PROVE  Uids(queue') = Uids(queue) \/ queue[1].uid \notin Uids(queue')
<1> DEFINE n == Places(gen)
           taken == Selected(n)
           rest == Rows(queue, DOMAIN queue \ taken)
<1>1. queue' = Aged(rest)
  BY DEF Prefill
<1>2. n \in Int
  BY PlacesIn
<1> DEFINE kept == DOMAIN queue \ taken
<1>3. rest \in Seq(Waiting) /\ Uids(rest) = {queue[i].uid : i \in kept \cap DOMAIN queue}
  <2> HIDE DEF kept
  <2>1. Rows(queue, kept) \in Seq(Waiting)
    BY RowsEffect
  <2>2. Uids(Rows(queue, kept)) = {queue[i].uid : i \in kept \cap DOMAIN queue}
    BY RowsUids
  <2>3. QED
    BY <2>1, <2>2 DEF kept
<1> HIDE DEF n
<1>4. (n <= 0 => taken = {}) /\ (n > 0 => 1 \in taken)
  BY <1>2, SelectedFew
<1> HIDE DEF taken, rest
<1>5. Uids(queue') = Uids(rest)
  BY <1>1, <1>3, AgedOK
<1>6. CASE n <= 0
  <2>1. taken = {}
    BY <1>4, <1>6
  <2>2. Uids(rest) = Uids(queue)
    BY <1>3, <2>1 DEF Uids
  <2>3. QED
    BY <1>5, <2>2
<1>7. CASE n > 0
  <2>1. 1 \in taken
    BY <1>4, <1>7
  <2>2. DOMAIN queue = 1..Len(queue) /\ Len(queue) \in Nat /\ Len(queue) # 0
    BY ListDomain
  <2>3. 1 \in DOMAIN queue
    BY <2>2
  <2>4. \A i \in DOMAIN queue \ taken : queue[i].uid # queue[1].uid
    BY <2>1, <2>3 DEF Distinct
  <2>5. QED
    BY <1>3, <1>5, <2>4
<1>8. QED
  BY <1>2, <1>6, <1>7

(* Beyond the deadline prefill is not put off.                             *)
LEMMA DeadlineForces ==
    ASSUME policy \in Policies, processing \in Seq(Working), NEW gen,
           NEW j \in DOMAIN processing, ~Ready(processing[j]),
           Older(processing[j].age) > policy.maxDefer
    PROVE  ~DeferredByCadence(gen) /\ 0 \notin Decisions(gen)
<1> DEFINE S == {k \in DOMAIN processing : ~Ready(processing[k])}
           active == {Older(processing[i].age) : i \in S}
           queued == {Older(queue[i].age) : i \in DOMAIN queue}
           oldest == Older(processing[j].age)
<1>1. /\ policy.maxDefer \in Nat /\ policy.slices \subseteq 1..policy.step
      /\ policy.step \in Nat \ {0} /\ (policy.adaptive => policy.cadence = 1 /\ policy.slices # {})
  BY PoliciesAssumption
<1>2. \A i \in DOMAIN processing : Older(processing[i].age) \in Nat
  <2> TAKE i \in DOMAIN processing
  <2>1. processing[i] \in Working
    OBVIOUS
  <2>2. processing[i].age \in Nat
    BY <2>1 DEF Working, WorkRow
  <2>3. QED
    BY <2>2, OlderIs
<1>3. policy.adaptive
  BY <1>1 DEF Older
<1>4. IsFiniteSet(active) /\ active \subseteq Nat /\ oldest \in active
  <2>1. IsFiniteSet(DOMAIN processing)
    BY ListDomain
  <2>2. IsFiniteSet(S)
    BY <2>1, FS_Subset
  <2>3. IsFiniteSet(active)
    <3> DEFINE age == [i \in S |-> Older(processing[i].age)]
    <3>1. age \in Surjection(S, active)
      <4> HIDE DEF S
      <4>1. QED
        BY DEF Surjection
    <3> HIDE DEF S, active, age
    <3>2. QED
      BY <2>2, <3>1, FS_Surjection
  <2>4. QED
    BY <1>2, <2>3
<1>5. OldestAge = Max({0} \cup active)
  BY <1>4 DEF OldestAge
<1> HIDE DEF active, S, oldest
<1>6. OldestAge >= oldest /\ oldest \in Nat /\ OldestAge \in Int
  <2>1. IsFiniteSet({0} \cup active)
    BY <1>4, FS_AddElement
  <2>2. {0} \cup active \subseteq Int /\ {0} \cup active # {}
    BY <1>4
  <2> DEFINE T == {0} \cup active
  <2>3. Max(T) \in T /\ \A y \in T : Max(T) >= y
    BY <2>1, <2>2, MaxIn
  <2>4. oldest \in T /\ T \subseteq Int
    BY <1>4, <2>2
  <2> HIDE DEF T
  <2>5. QED
    BY <1>4, <1>5, <2>3, <2>4 DEF T
<1>7. OldestAge >= policy.maxDefer
  BY <1>1, <1>6 DEF oldest
<1>8. 0 \notin policy.slices /\ Min(policy.slices) \in policy.slices
  <2>0. 1 \in Int /\ policy.step \in Int
    BY <1>1
  <2>1. IsFiniteSet(1..policy.step)
    BY <2>0, FS_Interval
  <2>2. IsFiniteSet(policy.slices) /\ policy.slices \subseteq Int
    BY <1>1, <2>1, FS_Subset
  <2>3. policy.slices # {}
    BY <1>1, <1>3
  <2>4. QED
    BY <1>1, <2>2, <2>3, MinIn
<1>9. 0 \notin Decisions(gen)
  BY <1>1, <1>3, <1>7, <1>8 DEF Decisions
<1>10. QED
  BY <1>1, <1>3, <1>9 DEF DeferredByCadence

(* A round that admits a request admits the oldest one.                    *)
LEMMA RoundTakesHead ==
    ASSUME RowsInv, BudgetInv, Round
    PROVE  HeadGoesFirst
<1>1. PICK matched \in SUBSET DOMAIN generation :
         /\ Decode(matched)
         /\ \E gen \in {After(matched)} : SkipPrefill(gen) \/ DeferPrefill(gen) \/ Prefill(gen)
  BY DEF Round
<1> DEFINE gen == After(matched)
<1>2. SkipPrefill(gen) \/ DeferPrefill(gen) \/ Prefill(gen)
  BY <1>1
<1>3. policy \in Policies
  BY DEF RowsInv
<1>4. Ends(matched, queue, gen, prompts, processing)
  BY DecodeEnds
<1> HIDE DEF gen
<1>5. Ends(matched, queue', generation', prompts', processing')
  BY <1>2, <1>3, <1>4, SkipEnds, DeferEnds, PrefillEnds
<1>6. queue \in Seq(Waiting) /\ Distinct(queue) /\ Batches(gen, prompts, processing)
  BY <1>4 DEF Ends
<1>7. CASE queue = <<>>
  BY <1>7 DEF HeadGoesFirst
<1>8. CASE SkipPrefill(gen) \/ DeferPrefill(gen)
  <2>1. queue' = Aged(queue)
    BY <1>8 DEF SkipPrefill, DeferPrefill
  <2>2. Uids(queue') = Uids(queue)
    BY <1>3, <1>6, <2>1, AgedOK
  <2>3. QED
    BY <1>5, <2>2, HeadOf
<1>9. CASE Prefill(gen) /\ queue # <<>>
  <2>1. gen \in Seq(Generating) /\ prompts \in Seq(PromptRow)
    BY <1>6 DEF Batches, Paired
  <2>2. Uids(queue') = Uids(queue) \/ queue[1].uid \notin Uids(queue')
    BY <1>3, <1>6, <1>9, <2>1, HeadIsTaken
  <2>3. QED
    BY <1>5, <2>2, HeadOf
<1>10. QED
  BY <1>2, <1>7, <1>8, <1>9

(* After a round a prompt at work is as old as the deadline of adaptive    *)
(* prefill only when the decode batch was full.                            *)
LEMMA RoundInTime ==
    ASSUME RowsInv, Round, NEW i \in DOMAIN processing',
           ~Ready(processing'[i]), processing'[i].age > policy.maxDefer
    PROVE  Len(generation') >= policy.completion
<1>1. PICK matched \in SUBSET DOMAIN generation :
         \E gen \in {After(matched)} : SkipPrefill(gen) \/ DeferPrefill(gen) \/ Prefill(gen)
  BY DEF Round
<1> DEFINE gen == After(matched)
<1>2. SkipPrefill(gen) \/ DeferPrefill(gen) \/ Prefill(gen)
  BY <1>1
<1> HIDE DEF gen
<1>3. policy \in Policies /\ processing \in Seq(Working)
  BY DEF RowsInv, Batches, Paired
<1>4. CASE SkipPrefill(gen)
  BY <1>4 DEF SkipPrefill, Full
<1>5. CASE DeferPrefill(gen)
  <2> DEFINE kept == {k \in DOMAIN processing : ~Ready(processing[k])}
             vs == Rows(processing, kept)
  <2>1. processing' = Aged(vs) /\ (DeferredByCadence(gen) \/ 0 \in Decisions(gen))
    BY <1>5 DEF DeferPrefill, Unpromoted
  <2>2. i \in DOMAIN vs /\ processing'[i] = [vs[i] EXCEPT !.age = Older(vs[i].age)]
    BY <2>1 DEF Aged
  <2> HIDE DEF kept
  <2>3. PICK j \in kept \cap DOMAIN processing : vs[i] = processing[j]
    <3>1. \A k \in DOMAIN Rows(processing, kept) :
            \E j \in kept \cap DOMAIN processing : Rows(processing, kept)[k] = processing[j]
      BY <1>3, RowsUids
    <3>2. QED
      BY <2>2, <3>1
  <2>4. ~Ready(processing[j])
    BY DEF kept
  <2>5. processing'[i] = [processing[j] EXCEPT !.age = Older(processing[j].age)]
    BY <2>2, <2>3
  <2>6. processing[j] \in Working
    BY <1>3
  <2>7. processing'[i].age = Older(processing[j].age)
    BY <2>5, <2>6 DEF Working, WorkRow
  <2>8. Older(processing[j].age) > policy.maxDefer
    BY <2>7
  <2>9. ~DeferredByCadence(gen) /\ 0 \notin Decisions(gen)
    BY <1>3, <2>4, <2>8, DeadlineForces
  <2>10. QED
    BY <2>1, <2>9
<1>6. CASE Prefill(gen)
  <2>1. PICK rows, proc, chunk : Process(gen, rows, proc, chunk)
    BY <1>6 DEF Prefill
  <2> DEFINE vs == Unpromoted(proc, proc)
  <2>2. processing' = [k \in DOMAIN vs |-> Sliced(vs[k], chunk)]
    BY <2>1 DEF Process
  <2> HIDE DEF vs
  <2>3. processing'[i] = Sliced(vs[i], chunk)
    BY <2>2
  <2>4. processing'[i].age = 0
    BY <2>3 DEF Sliced
  <2>5. policy.maxDefer \in Nat
    BY <1>3, PoliciesAssumption
  <2>6. QED
    BY <2>4, <2>5
<1>7. QED
  BY <1>2, <1>4, <1>5, <1>6

(* Every operation of a generator without self-MTP is fair.                *)
LEMMA FairStep ==
    ASSUME RowsInv, BudgetInv, BatchNext
    PROVE  HeadGoesFirst /\ OverdueWhenFull
<1>1. /\ queue \in Seq(Waiting) /\ Batches(generation, prompts, processing)
      /\ Uids(queue) \cap (Uids(prompts) \cup Uids(generation)) = {}
  BY DEF RowsInv
<1>2. /\ generation \in Seq(Generating) /\ prompts \in Seq(PromptRow)
      /\ processing \in Seq(Working) /\ DOMAIN prompts = DOMAIN processing
      /\ \A i \in DOMAIN prompts : prompts[i].uid = processing[i].uid
      /\ Distinct(prompts)
  BY <1>1 DEF Batches, Paired, Pair
<1>3. \A k, j \in DOMAIN processing : processing[k].uid = processing[j].uid => k = j
  BY <1>2 DEF Distinct
<1>4. CASE \E p \in Prompts : Insert(p)
  <2>1. prompts' = prompts /\ generation' = generation /\ processing' = processing
    BY <1>4 DEF Insert
  <2>2. \A i \in DOMAIN queue : ~GoesIn(queue[i])
    BY <1>1, <2>1 DEF GoesIn, Uids
  <2>3. \A i \in DOMAIN processing' : ~Overdue(i)
    <3> SUFFICES ASSUME NEW i \in DOMAIN processing, NEW j \in DOMAIN processing,
                        processing[j].uid = processing[i].uid,
                        processing[j].age < processing[i].age
                 PROVE  FALSE
      BY <2>1 DEF Overdue
    <3>1. i = j
      BY <1>3
    <3>2. processing[i] \in Working
      BY <1>2
    <3>3. processing[i].age \in Nat
      BY <3>2 DEF Working, WorkRow
    <3>4. QED
      BY <3>1, <3>3
  <2>4. QED
    BY <2>2, <2>3 DEF HeadGoesFirst, OverdueWhenFull
<1>5. CASE \E u \in Live : RemoveJob(u)
  <2>1. PICK u \in Live : RemoveJob(u)
    BY <1>5
  <2> DEFINE kept == {k \in DOMAIN prompts : prompts[k].uid # u}
             others == {k \in DOMAIN generation : generation[k].uid # u}
  <2>2. /\ prompts' = Rows(prompts, kept) /\ processing' = Rows(processing, kept)
        /\ generation' = Rows(generation, others)
    BY <2>1 DEF RemoveJob, Without
  <2> HIDE DEF kept, others
  <2>3. Uids(Rows(prompts, kept)) = {prompts[i].uid : i \in kept \cap DOMAIN prompts}
    BY <1>2, RowsUids
  <2>4. Uids(Rows(generation, others)) = {generation[i].uid : i \in others \cap DOMAIN generation}
    BY <1>2, RowsUids
  <2>5. Uids(prompts') \subseteq Uids(prompts) /\ Uids(generation') \subseteq Uids(generation)
    <3>1. Uids(prompts') \subseteq Uids(prompts)
      BY <2>2, <2>3 DEF Uids
    <3>2. Uids(generation') \subseteq Uids(generation)
      BY <2>2, <2>4 DEF Uids
    <3>3. QED
      BY <3>1, <3>2
  <2>6. \A i \in DOMAIN queue : ~GoesIn(queue[i])
    <3>1. \A i \in DOMAIN queue : queue[i].uid \in Uids(queue)
      BY DEF Uids
    <3>2. QED
      BY <1>1, <2>5, <3>1 DEF GoesIn
  <2>7. \A i \in DOMAIN processing' : ~Overdue(i)
    <3> TAKE i \in DOMAIN processing'
    <3>1. \A m \in DOMAIN Rows(processing, kept) :
            \E k \in kept \cap DOMAIN processing : Rows(processing, kept)[m] = processing[k]
      BY <1>2, RowsUids
    <3>2. PICK k \in DOMAIN processing : processing'[i] = processing[k]
      BY <2>2, <3>1
    <3>3. processing[k] \in Working
      BY <1>2
    <3>4. processing[k].age \in Nat
      BY <3>3 DEF Working, WorkRow
    <3>5. \A j \in DOMAIN processing :
            processing[j].uid = processing[k].uid => ~(processing[j].age < processing[k].age)
      BY <1>3, <3>4
    <3>6. QED
      BY <3>2, <3>5 DEF Overdue
  <2>8. QED
    BY <2>6, <2>7 DEF HeadGoesFirst, OverdueWhenFull
<1>6. CASE Round
  <2>1. HeadGoesFirst
    BY <1>6, RoundTakesHead
  <2>2. OverdueWhenFull
    BY <1>6, RoundInTime DEF OverdueWhenFull, Overdue
  <2>3. QED
    BY <2>1, <2>2
<1>7. QED
  BY <1>4, <1>5, <1>6 DEF BatchNext

================================================================================
