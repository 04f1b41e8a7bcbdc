---------------------------- MODULE RequestProofs ----------------------------
(***************************************************************************)
(* Proofs about Request, for any keys and validators, any numbers of       *)
(* fields and cookies, and any socket.                                     *)
(***************************************************************************)
EXTENDS Request, SequenceTheorems, WellFoundedInduction, TLAPS

-----------------------------------------------------------------------------
(* Lists, as kworker_parent and kutil_invalidate make them: "M" has their  *)
(* first pairs, "N" the next of each pair, "I" what is in each.            *)

RefOrNull == Ref \cup {NULL}
IsValidList(l) == l[1] \in Range(Map)

\* "P" is the pair before each pair, "rank" grows along a list, and no pair but "loose"
\* points to another unless it is in a list.
IsShape(M, N, I, P, rank, loose) ==
  /\ M \in [Lists -> RefOrNull] /\ N \in [Ref -> RefOrNull] /\ P \in [Ref -> RefOrNull]
  /\ I \in [Lists -> SUBSET Ref] /\ rank \in [Ref -> Nat]
  /\ \A l, k \in Lists : l # k => I[l] \cap I[k] = {}
  /\ \A r \in Ref : r # loose /\ N[r] # NULL => \E l \in Lists : r \in I[l]
  /\ \A r \in Ref : N[r] # NULL => rank[r] < rank[N[r]]
  /\ \A l \in Lists :
       /\ M[l] \in I[l] \cup {NULL}
       /\ \A r \in I[l] :
            /\ N[r] \in I[l] \cup {NULL} /\ P[r] \in I[l] \cup {NULL}
            /\ N[r] # NULL => P[N[r]] = r
            /\ P[r] # NULL => N[P[r]] = r
            /\ P[r] = NULL <=> r = M[l]
            /\ IsValidList(l) /\ N[r] # NULL => N[r][2] < r[2]
Shaped(M, N, I, loose) == \E P, rank : IsShape(M, N, I, P, rank, loose)

LEMMA NullIsNoRef == NULL \notin Ref
BY DEF NULL, Ref, Arrays

\* A pair that is in no list goes in front of one.
LEMMA PushShape ==
  ASSUME NEW M, NEW N, NEW I, NEW l \in Lists, NEW ref \in Ref,
         Shaped(M, N, I, ref), \A k \in Lists : ref \notin I[k],
         IsValidList(l) => \A r \in I[l] : r[2] < ref[2]
  PROVE  Shaped([M EXCEPT ![l] = ref], [N EXCEPT ![ref] = M[l]],
                [I EXCEPT ![l] = @ \cup {ref}], NULL)
<1>1. PICK P, rank : IsShape(M, N, I, P, rank, ref)
  BY DEF Shaped
<1> DEFINE M2 == [M EXCEPT ![l] = ref]
           N2 == [N EXCEPT ![ref] = M[l]]
           I2 == [I EXCEPT ![l] = @ \cup {ref}]
           P2 == [r \in Ref |-> IF r = ref THEN NULL ELSE IF r = M[l] THEN ref ELSE P[r]]
           rank2 == [r \in Ref |-> IF r = ref THEN 0 ELSE rank[r] + 1]
<1>2. /\ M \in [Lists -> RefOrNull] /\ N \in [Ref -> RefOrNull] /\ P \in [Ref -> RefOrNull]
      /\ I \in [Lists -> SUBSET Ref] /\ rank \in [Ref -> Nat]
      /\ \A k, j \in Lists : k # j => I[k] \cap I[j] = {}
      /\ \A r \in Ref : r # ref /\ N[r] # NULL => \E k \in Lists : r \in I[k]
      /\ \A r \in Ref : N[r] # NULL => rank[r] < rank[N[r]]
      /\ \A k \in Lists :
           /\ M[k] \in I[k] \cup {NULL}
           /\ \A r \in I[k] :
                /\ N[r] \in I[k] \cup {NULL} /\ P[r] \in I[k] \cup {NULL}
                /\ N[r] # NULL => P[N[r]] = r
                /\ P[r] # NULL => N[P[r]] = r
                /\ P[r] = NULL <=> r = M[k]
                /\ IsValidList(k) /\ N[r] # NULL => N[r][2] < r[2]
  BY <1>1 DEF IsShape
<1>3. /\ M2 \in [Lists -> RefOrNull] /\ N2 \in [Ref -> RefOrNull] /\ P2 \in [Ref -> RefOrNull]
      /\ I2 \in [Lists -> SUBSET Ref] /\ rank2 \in [Ref -> Nat]
  BY <1>2 DEF RefOrNull
<1>4. /\ M2[l] = ref /\ \A k \in Lists : k # l => M2[k] = M[k]
      /\ N2[ref] = M[l] /\ \A r \in Ref : r # ref => N2[r] = N[r]
      /\ I2[l] = I[l] \cup {ref} /\ \A k \in Lists : k # l => I2[k] = I[k]
      /\ P2[ref] = NULL
      /\ \A r \in Ref : r # ref => P2[r] = IF r = M[l] THEN ref ELSE P[r]
      /\ rank2[ref] = 0 /\ \A r \in Ref : r # ref => rank2[r] = rank[r] + 1
  BY <1>2
<1>5. \A k \in Lists : ref \notin I[k] /\ I[k] \subseteq Ref
  BY <1>2
<1>6. \A r \in Ref : r # ref => N[r] # ref
  BY <1>2, <1>5, NullIsNoRef
<1> HIDE DEF M2, N2, I2, P2, rank2
<1>7. \A k, j \in Lists : k # j => I2[k] \cap I2[j] = {}
  BY <1>2, <1>4, <1>5
<1>8. \A r \in Ref : r # NULL /\ N2[r] # NULL => \E k \in Lists : r \in I2[k]
  BY <1>2, <1>4
<1>9. \A r \in Ref : N2[r] # NULL => rank2[r] < rank2[N2[r]]
  <2> TAKE r \in Ref
  <2> HAVE N2[r] # NULL
  <2>1. CASE r = ref
    <3>1. M[l] \in I[l] /\ M[l] \in Ref /\ M[l] # ref /\ N2[r] = M[l]
      BY <1>2, <1>4, <1>5, <2>1
    <3>2. rank2[N2[r]] = rank[M[l]] + 1 /\ rank[M[l]] \in Nat
      BY <1>2, <1>4, <3>1
    <3> QED
      BY <1>4, <2>1, <3>2
  <2>2. CASE r # ref
    <3>1. N2[r] = N[r] /\ N[r] \in Ref /\ N[r] # ref
      BY <1>2, <1>4, <1>6, <2>2 DEF RefOrNull
    <3>2. rank2[N2[r]] = rank[N[r]] + 1 /\ rank2[r] = rank[r] + 1 /\ rank[r] < rank[N[r]]
      BY <1>2, <1>4, <2>2, <3>1
    <3> QED
      BY <1>2, <3>1, <3>2
  <2> QED
    BY <2>1, <2>2
<1>10. ASSUME NEW k \in Lists
       PROVE  /\ M2[k] \in I2[k] \cup {NULL}
              /\ \A r \in I2[k] :
                   /\ N2[r] \in I2[k] \cup {NULL} /\ P2[r] \in I2[k] \cup {NULL}
                   /\ N2[r] # NULL => P2[N2[r]] = r
                   /\ P2[r] # NULL => N2[P2[r]] = r
                   /\ P2[r] = NULL <=> r = M2[k]
                   /\ IsValidList(k) /\ N2[r] # NULL => N2[r][2] < r[2]
  <2>1. M2[k] \in I2[k] \cup {NULL}
    BY <1>2, <1>4
  <2>2. ASSUME NEW r \in I2[k]
        PROVE  /\ N2[r] \in I2[k] \cup {NULL} /\ P2[r] \in I2[k] \cup {NULL}
               /\ N2[r] # NULL => P2[N2[r]] = r
               /\ P2[r] # NULL => N2[P2[r]] = r
               /\ P2[r] = NULL <=> r = M2[k]
               /\ IsValidList(k) /\ N2[r] # NULL => N2[r][2] < r[2]
    <3>1. CASE r = ref
      <4>1. k = l
        BY <1>4, <1>5, <3>1
      <4>2. N2[r] = M[l] /\ P2[r] = NULL /\ M2[k] = r
        BY <1>4, <3>1, <4>1
      <4>3. M[l] # NULL => M[l] \in I[l] /\ M[l] \in Ref /\ M[l] # ref
        BY <1>2, <1>5
      <4> QED
        BY <1>4, <3>1, <4>1, <4>2, <4>3
    <3>2. CASE r # ref
      <4>1. r \in I[k] /\ r \in Ref
        BY <1>4, <1>5, <3>2
      <4>2. N2[r] = N[r] /\ N[r] # ref
        BY <1>4, <1>6, <3>2, <4>1
      <4>3. N[r] # NULL => N[r] \in I[k] /\ N[r] \in Ref /\ P[N[r]] = r /\ N[r] # M[k]
        BY <1>2, <1>5, <4>1, NullIsNoRef
      <4>4. N[r] # NULL => N[r] # M[l]
        BY <1>2, <1>5, <4>1, <4>3
      <4>5. N[r] # NULL => P2[N[r]] = r
        BY <1>4, <4>2, <4>3, <4>4
      <4>6. CASE r = M[l]
        <5>1. k = l
          BY <1>2, <4>1, <4>6, NullIsNoRef
        <5>2. P2[r] = ref /\ N2[ref] = r /\ M2[k] = ref
          BY <1>4, <3>2, <4>1, <4>6, <5>1
        <5> QED
          BY <1>2, <1>4, <3>2, <4>1, <4>2, <4>3, <4>5, <5>1, <5>2, NullIsNoRef
      <4>7. CASE r # M[l]
        <5>1. P2[r] = P[r]
          BY <1>4, <3>2, <4>1, <4>7
        <5>2. P[r] = NULL <=> r = M[k]
          BY <1>2, <4>1
        <5>3. P[r] = NULL <=> r = M2[k]
          <6>1. CASE k = l
            BY <1>4, <3>2, <4>7, <5>2, <6>1
          <6>2. CASE k # l
            BY <1>4, <5>2, <6>2
          <6> QED
            BY <6>1, <6>2
        <5>4. P[r] # NULL => P[r] \in I[k] /\ P[r] \in Ref /\ P[r] # ref /\ N[P[r]] = r
          BY <1>2, <1>5, <4>1
        <5> QED
          BY <1>2, <1>4, <4>1, <4>2, <4>3, <4>5, <5>1, <5>3, <5>4
      <4> QED
        BY <4>6, <4>7
    <3> QED
      BY <3>1, <3>2
  <2> QED
    BY <2>1, <2>2
<1>11. IsShape(M2, N2, I2, P2, rank2, NULL)
  BY <1>3, <1>7, <1>8, <1>9, <1>10 DEF IsShape
<1>12. Shaped(M2, N2, I2, NULL)
  BY <1>11 DEF Shaped
<1> QED
  BY <1>12 DEF M2, N2, I2

\* The first pair of a list leaves it.
LEMMA UnlinkFirst ==
  ASSUME NEW M, NEW N, NEW I, NEW l \in Lists, NEW ref \in I[l],
         Shaped(M, N, I, NULL), M[l] = ref
  PROVE  Shaped([M EXCEPT ![l] = N[ref]], N, [I EXCEPT ![l] = @ \ {ref}], ref)
<1>1. PICK P, rank : IsShape(M, N, I, P, rank, NULL)
  BY DEF Shaped
<1> DEFINE M2 == [M EXCEPT ![l] = N[ref]]
           I2 == [I EXCEPT ![l] = @ \ {ref}]
           P2 == [r \in Ref |-> IF r = N[ref] THEN NULL ELSE P[r]]
<1>2. /\ M \in [Lists -> RefOrNull] /\ N \in [Ref -> RefOrNull] /\ P \in [Ref -> RefOrNull]
      /\ I \in [Lists -> SUBSET Ref] /\ rank \in [Ref -> Nat]
      /\ \A k, j \in Lists : k # j => I[k] \cap I[j] = {}
      /\ \A r \in Ref : r # NULL /\ N[r] # NULL => \E k \in Lists : r \in I[k]
      /\ \A r \in Ref : N[r] # NULL => rank[r] < rank[N[r]]
      /\ \A k \in Lists :
           /\ M[k] \in I[k] \cup {NULL}
           /\ \A r \in I[k] :
                /\ N[r] \in I[k] \cup {NULL} /\ P[r] \in I[k] \cup {NULL}
                /\ N[r] # NULL => P[N[r]] = r
                /\ P[r] # NULL => N[P[r]] = r
                /\ P[r] = NULL <=> r = M[k]
                /\ IsValidList(k) /\ N[r] # NULL => N[r][2] < r[2]
  BY <1>1 DEF IsShape
<1>3. ref \in Ref /\ ref # NULL /\ N[ref] \in RefOrNull /\ P[ref] = NULL
  BY <1>2, NullIsNoRef
<1>4. N[ref] # NULL => N[ref] \in I[l] /\ N[ref] # ref
  BY <1>2, <1>3
<1>5. /\ M2 \in [Lists -> RefOrNull] /\ P2 \in [Ref -> RefOrNull]
      /\ I2 \in [Lists -> SUBSET Ref]
  BY <1>2, <1>3 DEF RefOrNull
<1>6. /\ M2[l] = N[ref] /\ \A k \in Lists : k # l => M2[k] = M[k]
      /\ I2[l] = I[l] \ {ref} /\ \A k \in Lists : k # l => I2[k] = I[k]
      /\ \A r \in Ref : P2[r] = IF r = N[ref] THEN NULL ELSE P[r]
  BY <1>2
<1>7. \A k \in Lists : ref \notin I2[k] /\ I2[k] \subseteq I[k] /\ I[k] \subseteq Ref
  BY <1>2, <1>6
<1> HIDE DEF M2, I2, P2
<1>8. \A k, j \in Lists : k # j => I2[k] \cap I2[j] = {}
  BY <1>2, <1>7
<1>9. \A r \in Ref : r # ref /\ N[r] # NULL => \E k \in Lists : r \in I2[k]
  <2> TAKE r \in Ref
  <2> HAVE r # ref /\ N[r] # NULL
  <2>1. PICK k \in Lists : r \in I[k]
    BY <1>2, NullIsNoRef
  <2> QED
    BY <1>6, <2>1
<1>10. ASSUME NEW k \in Lists
       PROVE  /\ M2[k] \in I2[k] \cup {NULL}
              /\ \A r \in I2[k] :
                   /\ N[r] \in I2[k] \cup {NULL} /\ P2[r] \in I2[k] \cup {NULL}
                   /\ N[r] # NULL => P2[N[r]] = r
                   /\ P2[r] # NULL => N[P2[r]] = r
                   /\ P2[r] = NULL <=> r = M2[k]
                   /\ IsValidList(k) /\ N[r] # NULL => N[r][2] < r[2]
  <2>1. M2[k] \in I2[k] \cup {NULL}
    <3>1. CASE k = l
      BY <1>4, <1>6, <3>1
    <3>2. CASE k # l
      BY <1>2, <1>6, <3>2
    <3> QED
      BY <3>1, <3>2
  <2>2. ASSUME NEW r \in I2[k]
        PROVE  /\ N[r] \in I2[k] \cup {NULL} /\ P2[r] \in I2[k] \cup {NULL}
               /\ N[r] # NULL => P2[N[r]] = r
               /\ P2[r] # NULL => N[P2[r]] = r
               /\ P2[r] = NULL <=> r = M2[k]
               /\ IsValidList(k) /\ N[r] # NULL => N[r][2] < r[2]
    <3>1. r \in I[k] /\ r \in Ref /\ r # ref
      BY <1>7
    <3>2. N[r] # NULL => N[r] \in I[k] /\ N[r] \in Ref /\ P[N[r]] = r /\ N[r] # ref /\ N[r] # N[ref]
      BY <1>2, <1>3, <3>1, <1>7, NullIsNoRef
    <3>3. N[r] \in I2[k] \cup {NULL}
      BY <1>2, <1>6, <3>1, <3>2
    <3>4. N[r] # NULL => P2[N[r]] = r
      BY <1>6, <3>2
    <3>5. CASE r = N[ref]
      <4>1. k = l
        BY <1>2, <1>4, <3>1, <3>5, NullIsNoRef
      <4>2. P2[r] = NULL /\ M2[k] = r
        BY <1>6, <3>1, <3>5, <4>1
      <4> QED
        BY <1>2, <3>1, <3>3, <3>4, <4>2
    <3>6. CASE r # N[ref]
      <4>1. P2[r] = P[r]
        BY <1>6, <3>1, <3>6
      <4>2. P[r] # NULL => P[r] \in I[k] /\ P[r] # ref /\ N[P[r]] = r
        BY <1>2, <3>1, <3>6
      <4>3. P[r] = NULL <=> r = M2[k]
        <5>1. CASE k = l
          BY <1>2, <1>6, <3>1, <3>6, <5>1
        <5>2. CASE k # l
          BY <1>2, <1>6, <3>1, <5>2
        <5> QED
          BY <5>1, <5>2
      <4>4. P2[r] \in I2[k] \cup {NULL}
        BY <1>6, <4>1, <4>2
      <4> QED
        BY <1>2, <3>1, <3>3, <3>4, <4>1, <4>2, <4>3, <4>4
    <3> QED
      BY <3>5, <3>6
  <2> QED
    BY <2>1, <2>2
<1>11. IsShape(M2, N, I2, P2, rank, ref)
  BY <1>2, <1>5, <1>8, <1>9, <1>10 DEF IsShape
<1>12. Shaped(M2, N, I2, ref)
  BY <1>11 DEF Shaped
<1> QED
  BY <1>12 DEF M2, I2

\* A pair of "S" that points to "ref".
PointsTo(N, S, ref) == \E last \in S : N[last] = ref

\* Another pair leaves its list: the one before it is the only one that points to it.
LEMMA UnlinkLater ==
  ASSUME NEW M, NEW N, NEW I, NEW l \in Lists, NEW ref \in I[l],
         Shaped(M, N, I, NULL), M[l] # ref
  PROVE  /\ PointsTo(N, I[l], ref)
         /\ \A last \in I[l] : N[last] = ref =>
              Shaped(M, [N EXCEPT ![last] = N[ref]], [I EXCEPT ![l] = @ \ {ref}], ref)
<1>1. PICK P, rank : IsShape(M, N, I, P, rank, NULL)
  BY DEF Shaped
<1>2. /\ M \in [Lists -> RefOrNull] /\ N \in [Ref -> RefOrNull] /\ P \in [Ref -> RefOrNull]
      /\ I \in [Lists -> SUBSET Ref] /\ rank \in [Ref -> Nat]
      /\ \A k, j \in Lists : k # j => I[k] \cap I[j] = {}
      /\ \A r \in Ref : r # NULL /\ N[r] # NULL => \E k \in Lists : r \in I[k]
      /\ \A r \in Ref : N[r] # NULL => rank[r] < rank[N[r]]
      /\ \A k \in Lists :
           /\ M[k] \in I[k] \cup {NULL}
           /\ \A r \in I[k] :
                /\ N[r] \in I[k] \cup {NULL} /\ P[r] \in I[k] \cup {NULL}
                /\ N[r] # NULL => P[N[r]] = r
                /\ P[r] # NULL => N[P[r]] = r
                /\ P[r] = NULL <=> r = M[k]
                /\ IsValidList(k) /\ N[r] # NULL => N[r][2] < r[2]
  BY <1>1 DEF IsShape
<1>3. ref \in Ref /\ ref # NULL /\ N[ref] \in RefOrNull /\ P[ref] \in I[l] /\ N[P[ref]] = ref
  BY <1>2, NullIsNoRef
<1>4. ASSUME NEW last \in I[l], N[last] = ref
      PROVE  Shaped(M, [N EXCEPT ![last] = N[ref]], [I EXCEPT ![l] = @ \ {ref}], ref)
  <2> DEFINE N2 == [N EXCEPT ![last] = N[ref]]
             I2 == [I EXCEPT ![l] = @ \ {ref}]
             P2 == [r \in Ref |-> IF r = N[ref] THEN last ELSE P[r]]
  <2>1. last \in Ref /\ last # NULL /\ last = P[ref] /\ rank[last] < rank[ref] /\ last # ref
    BY <1>2, <1>3, <1>4, NullIsNoRef
  <2>2. N[ref] # NULL => N[ref] \in I[l] /\ rank[ref] < rank[N[ref]] /\ N[ref] \in Ref
    BY <1>2, <1>3
  <2>3. N[ref] # NULL => rank[last] < rank[N[ref]] /\ N[ref] # ref /\ N[ref] # last
    BY <1>2, <1>3, <2>1, <2>2
  <2>4. N2 \in [Ref -> RefOrNull] /\ P2 \in [Ref -> RefOrNull] /\ I2 \in [Lists -> SUBSET Ref]
    BY <1>2, <1>3, <2>1 DEF RefOrNull
  <2>5. /\ N2[last] = N[ref] /\ \A r \in Ref : r # last => N2[r] = N[r]
        /\ I2[l] = I[l] \ {ref} /\ \A k \in Lists : k # l => I2[k] = I[k]
        /\ \A r \in Ref : P2[r] = IF r = N[ref] THEN last ELSE P[r]
    BY <1>2, <2>1
  <2>6. \A k \in Lists : ref \notin I2[k] /\ I2[k] \subseteq I[k] /\ I[k] \subseteq Ref
    BY <1>2, <2>5
  <2> HIDE DEF N2, I2, P2
  <2>7. \A k, j \in Lists : k # j => I2[k] \cap I2[j] = {}
    BY <1>2, <2>6
  <2>8. \A r \in Ref : r # ref /\ N2[r] # NULL => \E k \in Lists : r \in I2[k]
    <3> TAKE r \in Ref
    <3> HAVE r # ref /\ N2[r] # NULL
    <3>1. N[r] # NULL
      BY <1>3, <1>4, <2>5
    <3>2. PICK k \in Lists : r \in I[k]
      BY <1>2, <3>1, NullIsNoRef
    <3> QED
      BY <2>5, <3>2
  <2>9. \A r \in Ref : N2[r] # NULL => rank[r] < rank[N2[r]]
    BY <1>2, <2>3, <2>5
  <2>10. ASSUME NEW k \in Lists
         PROVE  /\ M[k] \in I2[k] \cup {NULL}
                /\ \A r \in I2[k] :
                     /\ N2[r] \in I2[k] \cup {NULL} /\ P2[r] \in I2[k] \cup {NULL}
                     /\ N2[r] # NULL => P2[N2[r]] = r
                     /\ P2[r] # NULL => N2[P2[r]] = r
                     /\ P2[r] = NULL <=> r = M[k]
                     /\ IsValidList(k) /\ N2[r] # NULL => N2[r][2] < r[2]
    <3>1. M[k] \in I2[k] \cup {NULL}
      BY <1>2, <2>5
    <3>2. ASSUME NEW r \in I2[k]
          PROVE  /\ N2[r] \in I2[k] \cup {NULL} /\ P2[r] \in I2[k] \cup {NULL}
                 /\ N2[r] # NULL => P2[N2[r]] = r
                 /\ P2[r] # NULL => N2[P2[r]] = r
                 /\ P2[r] = NULL <=> r = M[k]
                 /\ IsValidList(k) /\ N2[r] # NULL => N2[r][2] < r[2]
      <4>1. r \in I[k] /\ r \in Ref /\ r # ref
        BY <2>6
      <4>2. N2[r] \in I2[k] \cup {NULL} /\ (N2[r] # NULL => P2[N2[r]] = r)
        <5>1. CASE r = last
          <6>1. k = l
            BY <1>2, <1>4, <4>1, <5>1
          <6> QED
            BY <2>2, <2>3, <2>5, <5>1, <6>1
        <5>2. CASE r # last
          <6>1. N2[r] = N[r] /\ N[r] # ref
            BY <1>2, <2>1, <2>5, <4>1, <5>2, <1>3
          <6>2. N[r] # NULL => N[r] \in I[k] /\ N[r] \in Ref /\ P[N[r]] = r
            BY <1>2, <4>1, <2>6
          <6>3. N[r] # NULL => N[r] # N[ref]
            BY <1>2, <1>3, <4>1, <6>2
          <6> QED
            BY <1>2, <2>5, <4>1, <6>1, <6>2, <6>3
        <5> QED
          BY <5>1, <5>2
      <4>3. /\ P2[r] \in I2[k] \cup {NULL} /\ (P2[r] # NULL => N2[P2[r]] = r)
            /\ P2[r] = NULL <=> r = M[k]
        <5>1. CASE r = N[ref]
          <6>1. k = l
            BY <1>2, <2>2, <4>1, <5>1, NullIsNoRef
          <6>2. P2[r] = last /\ P[r] = ref /\ N2[last] = r /\ last \in I2[l]
            BY <1>2, <1>3, <1>4, <2>1, <2>5, <4>1, <5>1, NullIsNoRef
          <6> QED
            BY <1>2, <1>3, <2>1, <4>1, <6>1, <6>2
        <5>2. CASE r # N[ref]
          <6>1. P2[r] = P[r] /\ (P[r] = NULL <=> r = M[k])
            BY <1>2, <2>5, <4>1, <5>2
          <6>2. P[r] # NULL => P[r] \in I[k] /\ P[r] \in Ref /\ N[P[r]] = r
            BY <1>2, <2>6, <4>1
          <6>3. P[r] # NULL => P[r] # ref /\ P[r] # last
            BY <1>4, <4>1, <5>2, <6>2
          <6> QED
            BY <2>5, <6>1, <6>2, <6>3
        <5> QED
          BY <5>1, <5>2
      <4>4. IsValidList(k) /\ N2[r] # NULL => N2[r][2] < r[2]
        <5>1. CASE r # last
          BY <1>2, <2>5, <4>1, <5>1
        <5>2. CASE r = last
          <6> SUFFICES ASSUME IsValidList(k), N2[r] # NULL
                       PROVE  N2[r][2] < r[2]
            OBVIOUS
          <6>1. k = l /\ N2[r] = N[ref]
            BY <1>2, <1>4, <2>5, <4>1, <5>2
          <6>2. N[ref][2] < ref[2] /\ ref[2] < last[2]
            BY <1>2, <1>3, <1>4, <6>1
          <6>3. N[ref][2] \in Nat /\ ref[2] \in Nat /\ last[2] \in Nat
            <7>1. \A q \in Ref : q[2] \in Nat
              BY DEF Ref
            <7> QED
              BY <1>3, <2>1, <2>2, <6>1, <7>1
          <6> QED
            BY <5>2, <6>1, <6>2, <6>3
        <5> QED
          BY <5>1, <5>2
      <4> QED
        BY <4>2, <4>3, <4>4
    <3> QED
      BY <3>1, <3>2
  <2>11. IsShape(M, N2, I2, P2, rank, ref)
    BY <1>2, <2>4, <2>7, <2>8, <2>9, <2>10 DEF IsShape
  <2>12. Shaped(M, N2, I2, ref)
    BY <2>11 DEF Shaped
  <2> QED
    BY <2>12 DEF N2, I2
<1> QED
  BY <1>3, <1>4 DEF PointsTo

LEMMA ShapeLoose ==
  ASSUME NEW M, NEW N, NEW I, NEW ref, Shaped(M, N, I, NULL)
  PROVE  Shaped(M, N, I, ref)
<1>1. PICK P, rank : IsShape(M, N, I, P, rank, NULL)
  BY DEF Shaped
<1>2. IsShape(M, N, I, P, rank, ref)
  BY <1>1, NullIsNoRef DEF IsShape
<1> QED
  BY <1>2 DEF Shaped

\* Numbers have a least one.
LEMMA Least ==
  ASSUME NEW S \in SUBSET Nat, S # {}
  PROVE  \E m \in S : \A n \in S : m <= n
<1> DEFINE R == OpToRel(<, Nat)
<1>1. IsWellFoundedOn(R, Nat)
  BY NatLessThanWellFounded
<1>2. \A x, y \in Nat : <<y, x>> \in R <=> y < x
  BY DEF OpToRel
<1> HIDE DEF R
<1>3. PICK x \in S : \A y \in S : ~ (<<y, x>> \in R)
  BY <1>1, WFMin
<1>4. \A y \in S : x \in Nat /\ y \in Nat /\ ~(y < x)
  BY <1>2, <1>3
<1>5. \A y \in S : x <= y
  BY <1>4
<1> QED
  BY <1>5

\* Who follows a list meets what is in it and nothing else.
LEMMA ReachMembers ==
  ASSUME NEW I, NEW l \in Lists, Shaped(map, next, I, NULL)
  PROVE  Reach(map[l]) = I[l]
<1>1. PICK P, rank : IsShape(map, next, I, P, rank, NULL)
  BY DEF Shaped
<1>2. /\ I[l] \subseteq Ref /\ rank \in [Ref -> Nat]
      /\ \A r \in Ref : next[r] # NULL => rank[r] < rank[next[r]]
      /\ map[l] \in I[l] \cup {NULL}
      /\ \A r \in I[l] :
           /\ next[r] \in I[l] \cup {NULL} /\ P[r] \in I[l] \cup {NULL}
           /\ P[r] # NULL => next[P[r]] = r
           /\ P[r] = NULL <=> r = map[l]
  BY <1>1 DEF IsShape
<1>3. Closed(I[l])
  BY <1>2 DEF Closed
<1>4. Reach(map[l]) \subseteq I[l]
  BY <1>2, <1>3 DEF Reach
<1>5. ASSUME NEW S \in SUBSET Ref, Closed(S), map[l] \in S \cup {NULL}, ~(I[l] \subseteq S)
      PROVE  FALSE
  <2> DEFINE T == {rank[r] : r \in I[l] \ S}
  <2>1. T \in SUBSET Nat /\ T # {}
    BY <1>2, <1>5
  <2>2. PICK m \in T : \A n \in T : m <= n
    BY <2>1, Least
  <2>3. PICK r \in I[l] \ S : m = rank[r]
    BY <2>2
  <2>4. r # map[l]
    BY <1>2, <1>5, <2>3, NullIsNoRef
  <2>5. P[r] \in I[l] /\ next[P[r]] = r /\ r # NULL
    BY <1>2, <2>4, NullIsNoRef
  <2>6. rank[P[r]] < rank[r] /\ rank[P[r]] \in Nat /\ rank[r] \in Nat
    BY <1>2, <2>5
  <2>7. P[r] \in S
    BY <2>2, <2>3, <2>5, <2>6
  <2> QED
    BY <1>5, <2>3, <2>5, <2>7 DEF Closed
<1>6. I[l] \subseteq Reach(map[l])
  BY <1>2, <1>5 DEF Reach
<1> QED
  BY <1>4, <1>6

\* And nothing twice.
LEMMA ReachLater ==
  ASSUME NEW I, NEW r \in Ref, Shaped(map, next, I, NULL)
  PROVE  r \notin Reach(next[r])
<1>1. PICK P, rank : IsShape(map, next, I, P, rank, NULL)
  BY DEF Shaped
<1>2. /\ rank \in [Ref -> Nat] /\ next \in [Ref -> RefOrNull]
      /\ \A q \in Ref : next[q] # NULL => rank[q] < rank[next[q]]
  BY <1>1 DEF IsShape
<1> DEFINE S == {q \in Ref : rank[r] < rank[q]}
<1>3. Closed(S) /\ S \in SUBSET Ref
  BY <1>2 DEF Closed, RefOrNull
<1>4. next[r] \in S \cup {NULL}
  BY <1>2 DEF RefOrNull
<1>5. r \notin S
  BY <1>2
<1> QED
  BY <1>3, <1>4, <1>5 DEF Reach

-----------------------------------------------------------------------------
(* The invariant *)

PairSet == {p \in [key : Keys \cup {keysz}, state : States, s : Int] :
              p.state # "KPAIR_VALID" => p.s = 0}
MessageSet == [type : {"head", "pair", "last", "part"}, array : Arrays, pair : PairSet]

Typed ==
  /\ input \in [Arrays -> Seq(Inputs)] /\ \A a \in Arrays : Len(input[a]) <= MaxPairs[a]
  /\ todo \in Seq(MessageSet) /\ wire \in Seq(MessageSet) /\ Len(wire) <= MaxWire
  /\ worker \in {"running", "exited", "failed"}
  /\ parent \in {"starting", "reading", "bucketing", "read", "closed", "returned"}
  /\ er \in {"OK", "FORM", "ENOMEM"} /\ nomem \in 0..MaxParentNoMem
  /\ pairs \in [Arrays -> Seq(PairSet)] /\ bucketed \in [Arrays -> Nat]
  /\ map \in [Lists -> RefOrNull] /\ next \in [Ref -> RefOrNull]

\* The parent has the first pairs of the request, by their keys.
Kept ==
  \A a \in Arrays :
    /\ Len(pairs[a]) <= Len(input[a])
    /\ \A j \in 1..Len(pairs[a]) : pairs[a][j].key = input[a][j].key
Complete == \A a \in Arrays : Len(pairs[a]) = Len(input[a])

\* How many messages there are, and what the parent has after "r" of them.
Fields == Len(input["fields"])
Cookies == Len(input["cookies"])
Total == Fields + Cookies + 2
Got(r) ==
  /\ Len(pairs["fields"]) = IF r = 0 THEN 0 ELSE IF r <= Fields + 1 THEN r - 1 ELSE Fields
  /\ Len(pairs["cookies"]) = IF r <= Fields + 1 THEN 0 ELSE r - Fields - 1

\* "r" messages were read, "n" are in the socket, and then there may be a part of one if
\* the worker has failed.
At(r, n) ==
  /\ r \in Nat /\ n \in Nat /\ r + n + Len(todo) = Total /\ r < Total
  /\ Len(wire) = n \/ (Len(wire) = n + 1 /\ worker = "failed" /\ wire[n + 1].type = "part")
  /\ \A i \in 1..n : wire[i] = Messages[r + i]
  /\ \A i \in 1..Len(todo) : todo[i] = Messages[r + n + i]
  /\ Got(r)
Stream == parent \in {"starting", "reading"} => \E r, n : At(r, n)

\* If not all was read, there was an error or there will be one.
Outcome ==
  /\ worker = "exited" => todo = <<>>
  /\ parent \in {"starting", "reading", "bucketing"} => er = "OK"
  /\ parent \in {"bucketing", "read", "closed"} /\ er = "OK" => worker = "failed" \/ Complete
  /\ parent = "returned" => IF er = "OK" THEN Complete ELSE \A a \in Arrays : pairs[a] = <<>>

\* What should be in each list: the pairs that were put there.
PairOf(r) == pairs[r[1]][r[2]]
Members ==
  [l \in Lists |-> {r \in Ref : /\ r[2] <= bucketed[r[1]]
                                /\ PairOf(r).key # keysz
                                /\ ListOf(r[1], PairOf(r)) = l}]
Hanging ==
  /\ parent \in {"starting", "reading"} => \A a \in Arrays : bucketed[a] = 0
  /\ er = "OK" => /\ \A a \in Arrays : bucketed[a] <= Len(pairs[a])
                  /\ Shaped(map, next, Members, NULL)
                  /\ parent \in {"read", "closed", "returned"} => \A a \in Arrays : AllBucketed(a)

IInv == Typed /\ Kept /\ Stream /\ Outcome /\ Hanging

-----------------------------------------------------------------------------
(* What the worker sends *)

LEMMA ParsedIsPair ==
  ASSUME RequestAssumption, NEW i \in Inputs
  PROVE  Parsed(i) \in PairSet
<1>1. i \in [key : Keys \cup {keysz}, valid : BOOLEAN, offset : Offsets]
  BY DEF Inputs
<1>2. i.key \in Keys \cup {keysz} /\ i.offset \in Nat /\ i.valid \in BOOLEAN
  BY <1>1 DEF RequestAssumption
<1>3. State(i) \in States
  BY <1>2 DEF State, States
<1>4. Diff(i) \in Int
  BY <1>2 DEF Diff
<1> QED
  BY <1>2, <1>3, <1>4 DEF Parsed, PairSet

LEMMA NoPairIsPair == NoPair \in PairSet
BY DEF NoPair, PairSet, States, keysz

MessagesAre ==
  /\ Messages \in Seq(MessageSet) /\ Len(Messages) = Total
  /\ Fields \in Nat /\ Cookies \in Nat
  /\ Messages[1] = Message("head") /\ Messages[Total] = Message("last")
  /\ \A i \in 1..Fields : Messages[1 + i] =
       [type |-> "pair", array |-> "fields", pair |-> Parsed(input["fields"][i])]
  /\ \A i \in 1..Cookies : Messages[1 + Fields + i] =
       [type |-> "pair", array |-> "cookies", pair |-> Parsed(input["cookies"][i])]

LEMMA PairMessagesType ==
  ASSUME RequestAssumption, NEW a \in Arrays, input[a] \in Seq(Inputs)
  PROVE  /\ PairMessages(a) \in Seq(MessageSet) /\ Len(PairMessages(a)) = Len(input[a])
         /\ \A i \in 1..Len(input[a]) : PairMessages(a)[i] =
              [type |-> "pair", array |-> a, pair |-> Parsed(input[a][i])]
<1>1. Len(input[a]) \in Nat /\ DOMAIN input[a] = 1..Len(input[a])
  OBVIOUS
<1>2. \A i \in 1..Len(input[a]) : Parsed(input[a][i]) \in PairSet
  BY ParsedIsPair
<1>3. \A i \in 1..Len(input[a]) :
        [type |-> "pair", array |-> a, pair |-> Parsed(input[a][i])] \in MessageSet
  BY <1>2 DEF MessageSet
<1> QED
  BY <1>1, <1>3 DEF PairMessages

Joined(S, s, t, u) ==
  /\ u \in Seq(S) /\ Len(u) = Len(s) + Len(t)
  /\ \A i \in 1..Len(s) : u[i] = s[i]
  /\ \A i \in 1..Len(t) : u[Len(s) + i] = t[i]

LEMMA Join ==
  ASSUME NEW S, NEW s \in Seq(S), NEW t \in Seq(S)
  PROVE  Joined(S, s, t, s \o t)
BY DEF Joined

LEMMA MessagesLayout ==
  ASSUME RequestAssumption, input \in [Arrays -> Seq(Inputs)]
  PROVE  MessagesAre
<1> DEFINE A == <<Message("head")>>
           B == PairMessages("fields")
           C == PairMessages("cookies")
           D == <<Message("last")>>
<1>1. Message("head") \in MessageSet /\ Message("last") \in MessageSet
  BY NoPairIsPair DEF Message, MessageSet, Arrays
<1>2. /\ A \in Seq(MessageSet) /\ Len(A) = 1 /\ A[1] = Message("head")
      /\ D \in Seq(MessageSet) /\ Len(D) = 1 /\ D[1] = Message("last")
  BY <1>1
<1>3. "fields" \in Arrays /\ "cookies" \in Arrays
  BY DEF Arrays
<1>4. /\ B \in Seq(MessageSet) /\ Len(B) = Fields
      /\ \A i \in 1..Fields : B[i] =
           [type |-> "pair", array |-> "fields", pair |-> Parsed(input["fields"][i])]
  BY <1>3, PairMessagesType DEF Fields
<1>5. /\ C \in Seq(MessageSet) /\ Len(C) = Cookies
      /\ \A i \in 1..Cookies : C[i] =
           [type |-> "pair", array |-> "cookies", pair |-> Parsed(input["cookies"][i])]
  BY <1>3, PairMessagesType DEF Cookies
<1>6. Fields \in Nat /\ Cookies \in Nat
  BY <1>3 DEF Fields, Cookies
<1> HIDE DEF A, B, C, D
<1> DEFINE AB == A \o B
<1>7. Joined(MessageSet, A, B, AB)
  BY <1>2, <1>4, Join
<1>8. AB \in Seq(MessageSet)
  BY <1>7 DEF Joined
<1>9. Messages = (AB \o C) \o D
  BY DEF Messages, A, B, C, D
<1> HIDE DEF AB
<1> DEFINE ABC == AB \o C
<1>10. Joined(MessageSet, AB, C, ABC)
  BY <1>8, <1>5, Join
<1>11. ABC \in Seq(MessageSet)
  BY <1>10 DEF Joined
<1>12. Messages = ABC \o D
  BY <1>9
<1> HIDE DEF ABC
<1>13. Joined(MessageSet, ABC, D, Messages)
  BY <1>11, <1>12, <1>2, Join
<1>14. /\ AB \in Seq(MessageSet) /\ Len(AB) = 1 + Fields /\ AB[1] = Message("head")
       /\ \A i \in 1..Fields : AB[1 + i] = B[i]
  BY <1>2, <1>4, <1>6, <1>7 DEF Joined
<1>15. /\ ABC \in Seq(MessageSet) /\ Len(ABC) = 1 + Fields + Cookies
       /\ \A i \in 1..(1 + Fields) : ABC[i] = AB[i]
       /\ \A i \in 1..Cookies : ABC[1 + Fields + i] = C[i]
  BY <1>5, <1>6, <1>10, <1>14 DEF Joined
<1>16. /\ Messages \in Seq(MessageSet) /\ Len(Messages) = Total
       /\ \A i \in 1..(1 + Fields + Cookies) : Messages[i] = ABC[i]
  <2>1. Messages \in Seq(MessageSet) /\ Len(Messages) = (1 + Fields + Cookies) + 1
    BY <1>2, <1>15, <1>13 DEF Joined
  <2>2. \A i \in 1..(1 + Fields + Cookies) : Messages[i] = ABC[i]
    BY <1>15, <1>13 DEF Joined
  <2>3. (1 + Fields + Cookies) + 1 = Total
    BY <1>6 DEF Total
  <2> QED
    BY <2>1, <2>2, <2>3
<1>17. Messages[Total] = Message("last")
  <2>1. Messages[Len(ABC) + 1] = D[1]
    BY <1>2, <1>13 DEF Joined
  <2> QED
    BY <1>2, <1>6, <1>15, <2>1 DEF Total
<1>18. Messages[1] = Message("head")
  BY <1>6, <1>14, <1>15, <1>16
<1>19. ASSUME NEW i \in 1..Fields
       PROVE  Messages[1 + i] = B[i]
  <2>1. 1 + i \in 1..(1 + Fields) /\ 1 + i \in 1..(1 + Fields + Cookies)
    BY <1>6
  <2> QED
    BY <1>14, <1>15, <1>16, <2>1
<1>20. ASSUME NEW i \in 1..Cookies
       PROVE  Messages[1 + Fields + i] = C[i]
  <2>1. 1 + Fields + i \in 1..(1 + Fields + Cookies)
    BY <1>6
  <2> QED
    BY <1>15, <1>16, <2>1
<1> QED
  BY <1>4, <1>5, <1>6, <1>16, <1>17, <1>18, <1>19, <1>20 DEF MessagesAre

-----------------------------------------------------------------------------
(* It holds at the beginning *)

LEMMA SizesAre ==
  ASSUME RequestAssumption, NEW a \in Arrays
  PROVE  MaxPairs[a] \in Nat
BY DEF RequestAssumption, MaxPairs, Arrays

\* Empty lists.
LEMMA EmptyShape ==
  Shaped([l \in Lists |-> NULL], [r \in Ref |-> NULL], [l \in Lists |-> {}], NULL)
<1> DEFINE M == [l \in Lists |-> NULL]
           N == [r \in Ref |-> NULL]
           I == [l \in Lists |-> {}]
           rank == [r \in Ref |-> 0]
<1>1. IsShape(M, N, I, N, rank, NULL)
  BY DEF IsShape, RefOrNull
<1> QED
  BY <1>1 DEF Shaped

\* Nothing is in a list before something is put there.
LEMMA NoMembers ==
  ASSUME \A a \in Arrays : bucketed[a] = 0
  PROVE  Members = [l \in Lists |-> {}]
<1>1. \A r \in Ref : r[1] \in Arrays /\ r[2] \in Nat /\ r[2] > 0
  BY SizesAre DEF Ref
<1>2. \A r \in Ref : ~(r[2] <= bucketed[r[1]])
  BY <1>1
<1> QED
  BY <1>2 DEF Members

LEMMA NoMembersNext ==
  ASSUME \A a \in Arrays : bucketed'[a] = 0
  PROVE  Members' = [l \in Lists |-> {}]
<1>1. \A r \in Ref : r[1] \in Arrays /\ r[2] \in Nat /\ r[2] > 0
  BY SizesAre DEF Ref
<1>2. \A r \in Ref : ~(r[2] <= bucketed'[r[1]])
  BY <1>1
<1> QED
  BY <1>2 DEF Members

LEMMA InitIInv == ASSUME RequestAssumption, RInit PROVE IInv
<1>1. PICK f \in BoundedSeq(Inputs, MaxFields), c \in BoundedSeq(Inputs, MaxCookies) :
        input = [fields |-> f, cookies |-> c]
  BY DEF RInit
<1>2. MaxFields \in Nat /\ MaxCookies \in Nat
  BY DEF RequestAssumption
<1>3. f \in Seq(Inputs) /\ Len(f) <= MaxFields /\ c \in Seq(Inputs) /\ Len(c) <= MaxCookies
  BY <1>1, <1>2 DEF BoundedSeq, SeqOf
<1>4. input \in [Arrays -> Seq(Inputs)] /\ \A a \in Arrays : Len(input[a]) <= MaxPairs[a]
  BY <1>1, <1>3 DEF Arrays, MaxPairs
<1>5. MessagesAre /\ todo = Messages /\ wire = <<>>
  BY <1>4, MessagesLayout DEF RInit
<1>6. \A a \in Arrays : pairs[a] = <<>> /\ bucketed[a] = 0 /\ Len(input[a]) \in Nat
  BY <1>4 DEF RInit
<1>7. Typed
  <2>1. MaxWire \in Nat /\ MaxParentNoMem \in Nat
    BY DEF RequestAssumption
  <2>2. pairs \in [Arrays -> Seq(PairSet)] /\ bucketed \in [Arrays -> Nat]
    BY DEF RInit
  <2>3. map \in [Lists -> RefOrNull] /\ next \in [Ref -> RefOrNull]
    BY DEF RInit, RefOrNull
  <2>4. todo \in Seq(MessageSet) /\ wire \in Seq(MessageSet) /\ Len(wire) <= MaxWire
    BY <1>5, <2>1 DEF MessagesAre
  <2> QED
    BY <1>4, <2>1, <2>2, <2>3, <2>4 DEF RInit, Typed
<1>8. Kept
  BY <1>6 DEF Kept
<1>9. Stream
  <2>1. Fields \in Nat /\ Cookies \in Nat /\ Total \in Nat /\ Total > 0 /\ Len(todo) = Total
    BY <1>5 DEF MessagesAre, Total
  <2>2. Got(0)
    BY <1>6, <2>1 DEF Got, Arrays
  <2>3. At(0, 0)
    BY <1>5, <2>1, <2>2 DEF At
  <2> QED
    BY <2>3 DEF Stream
<1>10. Outcome
  BY DEF RInit, Outcome
<1>11. Hanging
  <2>1. Shaped(map, next, Members, NULL)
    BY <1>6, NoMembers, EmptyShape DEF RInit
  <2> QED
    BY <1>6, <2>1 DEF RInit, Hanging
<1> QED
  BY <1>7, <1>8, <1>9, <1>10, <1>11 DEF IInv

-----------------------------------------------------------------------------
(* Steps of the worker *)

LEMMA SameMembers == ASSUME UNCHANGED <<pairs, bucketed>> PROVE Members' = Members
BY DEF Members, PairOf

LEMMA SameHanging ==
  ASSUME Hanging, UNCHANGED <<parent, er, pairs, bucketed, map, next>>
  PROVE  Hanging'
BY SameMembers DEF Hanging, AllBucketed

LEMMA WorkerSendIInv ==
  ASSUME RequestAssumption, IInv, WorkerSend
  PROVE  IInv'
<1>1. Hanging'
  BY SameHanging DEF IInv, WorkerSend
<1>2. Kept'
  BY DEF IInv, WorkerSend, Kept
<1>3. CASE Listening
  <2>1. /\ todo # <<>> /\ worker = "running" /\ Len(wire) < MaxWire
        /\ wire' = Append(wire, Head(todo)) /\ todo' = Tail(todo)
        /\ UNCHANGED <<worker, input, parent, er, nomem, pairs, bucketed, map, next>>
    BY <1>3 DEF WorkerSend
  <2>2. /\ todo \in Seq(MessageSet) /\ wire \in Seq(MessageSet)
        /\ Head(todo) = todo[1] /\ Head(todo) \in MessageSet
        /\ wire' \in Seq(MessageSet) /\ todo' \in Seq(MessageSet)
        /\ Len(wire') = Len(wire) + 1 /\ Len(todo') = Len(todo) - 1
        /\ wire'[Len(wire) + 1] = todo[1] /\ \A i \in 1..Len(wire) : wire'[i] = wire[i]
        /\ \A i \in 1..Len(todo') : todo'[i] = todo[i + 1]
    BY <2>1 DEF IInv, Typed
  <2>3. Len(wire') <= MaxWire
    BY <2>1, <2>2 DEF RequestAssumption
  <2>4. Typed'
    BY <2>1, <2>2, <2>3 DEF IInv, Typed
  <2>5. Outcome'
    BY <2>1 DEF IInv, Outcome, Complete
  <2>6. ASSUME parent \in {"starting", "reading"}
        PROVE  \E r, n : At(r, n)'
    <3>1. PICK r, n : At(r, n)
      BY <2>6 DEF IInv, Stream
    <3>2. r \in Nat /\ n \in Nat /\ Len(wire) = n /\ r + n + Len(todo) = Total /\ r < Total
      BY <2>1, <3>1 DEF At
    <3>3. UNCHANGED <<Total, Messages>>
      BY <2>1 DEF Total, Fields, Cookies, Messages, PairMessages
    <3>4. Len(todo) \in Nat /\ Len(todo) > 0
      BY <2>1, <2>2
    <3>5. r + (n + 1) + Len(todo') = Total' /\ Len(wire') = n + 1
      BY <2>2, <3>2, <3>3, <3>4
    <3>6. todo[1] = Messages[r + n + 1]
      BY <3>1, <3>4 DEF At
    <3>7. \A i \in 1..(n + 1) : wire'[i] = Messages[r + i]
      <4> TAKE i \in 1..(n + 1)
      <4>1. CASE i = n + 1
        <5>1. r + n + 1 = r + i
          BY <3>2, <4>1
        <5> QED
          BY <2>2, <3>2, <3>6, <4>1, <5>1
      <4>2. CASE i # n + 1
        BY <2>2, <3>1, <3>2, <4>2 DEF At
      <4> QED
        BY <4>1, <4>2
    <3>8. \A i \in 1..Len(todo') : todo'[i] = Messages[r + (n + 1) + i]
      <4> TAKE i \in 1..Len(todo')
      <4>1. i + 1 \in 1..Len(todo) /\ r + n + (i + 1) = r + (n + 1) + i
        BY <2>2, <3>2, <3>4
      <4>2. todo[i + 1] = Messages[r + n + (i + 1)]
        BY <3>1, <4>1 DEF At
      <4> QED
        BY <2>2, <4>1, <4>2
    <3>9. Got(r)'
      BY <2>1, <3>1 DEF At, Got, Fields, Cookies
    <3>10. At(r, n + 1)'
      BY <2>1, <3>2, <3>3, <3>5, <3>7, <3>8, <3>9 DEF At
    <3> QED
      BY <3>10
  <2>7. Stream'
    BY <2>1, <2>6 DEF Stream
  <2> QED
    BY <1>1, <1>2, <2>4, <2>5, <2>7 DEF IInv
<1>4. CASE ~Listening
  <2>1. /\ worker' = "failed" /\ parent \notin {"starting", "reading"}
        /\ UNCHANGED <<input, todo, wire, parent, er, nomem, pairs, bucketed, map, next>>
    BY <1>4 DEF WorkerSend, Listening
  <2>2. Typed' /\ Stream' /\ Outcome'
    BY <2>1 DEF IInv, Typed, Stream, Outcome, Complete
  <2> QED
    BY <1>1, <1>2, <2>2 DEF IInv
<1> QED
  BY <1>3, <1>4

LEMMA WorkerExitIInv == ASSUME IInv, WorkerExit PROVE IInv'
<1>1. /\ worker = "running" /\ worker' = "exited" /\ todo = <<>>
      /\ UNCHANGED <<input, todo, wire, parent, er, nomem, pairs, bucketed, map, next>>
  BY DEF WorkerExit
<1>2. Typed' /\ Kept' /\ Outcome' /\ Hanging'
  BY <1>1, SameHanging DEF IInv, Typed, Kept, Outcome, Complete
<1>3. Stream'
  <2>1. ASSUME NEW r, NEW n, At(r, n) PROVE At(r, n)'
    BY <1>1, <2>1 DEF At, Got, Total, Fields, Cookies, Messages, PairMessages
  <2> QED
    BY <1>1, <2>1 DEF IInv, Stream
<1> QED
  BY <1>2, <1>3 DEF IInv

LEMMA WorkerCrashIInv ==
  ASSUME RequestAssumption, IInv, WorkerCrash
  PROVE  IInv'
<1>1. /\ worker = "running" /\ worker' = "failed"
      /\ UNCHANGED <<input, todo, parent, er, nomem, pairs, bucketed, map, next>>
  BY DEF WorkerCrash
<1>2. Kept' /\ Outcome' /\ Hanging'
  BY <1>1, SameHanging DEF IInv, Kept, Outcome, Complete
<1>3. UNCHANGED <<Total, Messages>> /\ \A r : Got(r) => Got(r)'
  BY <1>1 DEF Got, Total, Fields, Cookies, Messages, PairMessages
<1>4. CASE UNCHANGED wire
  <2>1. Typed'
    BY <1>1, <1>4 DEF IInv, Typed
  <2>2. ASSUME NEW r, NEW n, At(r, n) PROVE At(r, n)'
    BY <1>1, <1>3, <1>4, <2>2 DEF At
  <2> QED
    BY <1>1, <1>2, <2>1, <2>2 DEF IInv, Stream
<1>5. CASE Len(wire) < MaxWire /\ wire' = Append(wire, Message("part"))
  <2>1. Message("part") \in MessageSet /\ Message("part").type = "part"
    BY NoPairIsPair DEF Message, MessageSet, Arrays
  <2>2. /\ wire' \in Seq(MessageSet) /\ Len(wire') = Len(wire) + 1 /\ Len(wire) \in Nat
        /\ wire'[Len(wire) + 1] = Message("part")
        /\ \A i \in 1..Len(wire) : wire'[i] = wire[i]
    BY <1>5, <2>1 DEF IInv, Typed
  <2>3. Typed'
    BY <1>1, <1>5, <2>2 DEF IInv, Typed, RequestAssumption
  <2>4. ASSUME NEW r, NEW n, At(r, n) PROVE At(r, n)'
    <3>1. Len(wire) = n /\ n \in Nat
      BY <1>1, <2>4 DEF At
    <3>2. /\ Len(wire') = n + 1 /\ wire'[n + 1].type = "part"
          /\ \A i \in 1..n : wire'[i] = Messages[r + i]
      BY <2>1, <2>2, <2>4, <3>1 DEF At
    <3> QED
      BY <1>1, <1>3, <2>4, <3>1, <3>2 DEF At
  <2> QED
    BY <1>1, <1>2, <2>3, <2>4 DEF IInv, Stream
<1> QED
  BY <1>4, <1>5 DEF WorkerCrash

-----------------------------------------------------------------------------
(* Steps of the parent *)

\* An error: whatever the pairs and lists are, they will be given up.
LEMMA FailIInv ==
  ASSUME IInv, NEW e \in {"FORM", "ENOMEM"}, Fail(e),
         wire' \in Seq(MessageSet), Len(wire') <= MaxWire, nomem' \in 0..MaxParentNoMem,
         UNCHANGED <<input, todo, worker, bucketed, map, next>>
  PROVE  IInv'
<1>1. parent' = "read" /\ er' = e /\ e # "OK" /\ pairs' = pairs
  BY DEF Fail
<1>2. Typed'
  BY <1>1 DEF IInv, Typed
<1>3. Kept' /\ Stream' /\ Outcome' /\ Hanging'
  BY <1>1 DEF IInv, Kept, Stream, Outcome, Hanging
<1> QED
  BY <1>2, <1>3 DEF IInv

LEMMA TailOfWire ==
  ASSUME RequestAssumption, IInv, wire # <<>>
  PROVE  /\ Head(wire) = wire[1] /\ Head(wire) \in MessageSet
         /\ Tail(wire) \in Seq(MessageSet) /\ Len(Tail(wire)) = Len(wire) - 1
         /\ Len(wire) \in Nat /\ Len(wire) > 0 /\ Len(Tail(wire)) <= MaxWire
         /\ \A i \in 1..Len(Tail(wire)) : Tail(wire)[i] = wire[i + 1]
<1>1. wire \in Seq(MessageSet) /\ Len(wire) <= MaxWire
  BY DEF IInv, Typed
<1>2. Len(wire) \in Nat /\ Len(wire) > 0
  BY <1>1
<1>3. /\ Tail(wire) \in Seq(MessageSet) /\ Len(Tail(wire)) = Len(wire) - 1
      /\ \A i \in 1..Len(Tail(wire)) : Tail(wire)[i] = wire[i + 1]
  BY <1>1, <1>2
<1>4. Len(Tail(wire)) <= MaxWire
  BY <1>1, <1>2, <1>3 DEF RequestAssumption
<1> QED
  BY <1>1, <1>2, <1>3, <1>4

LEMMA ReadNoMemoryIInv == ASSUME RequestAssumption, IInv, ReadNoMemory PROVE IInv'
<1>1. /\ wire # <<>> /\ wire' = Tail(wire) /\ nomem < MaxParentNoMem /\ nomem' = nomem + 1
      /\ Fail("ENOMEM") /\ UNCHANGED <<input, todo, worker, bucketed, map, next>>
  BY DEF ReadNoMemory
<1>2. nomem' \in 0..MaxParentNoMem
  BY <1>1 DEF IInv, Typed, RequestAssumption
<1> QED
  BY <1>1, <1>2, TailOfWire, FailIInv

LEMMA StartNoMemoryIInv == ASSUME RequestAssumption, IInv, StartNoMemory PROVE IInv'
<1>1. /\ nomem < MaxParentNoMem /\ nomem' = nomem + 1 /\ Fail("ENOMEM")
      /\ UNCHANGED <<input, todo, wire, worker, bucketed, map, next>>
  BY DEF StartNoMemory
<1>2. nomem' \in 0..MaxParentNoMem
  BY <1>1 DEF IInv, Typed, RequestAssumption
<1>3. wire' \in Seq(MessageSet) /\ Len(wire') <= MaxWire
  BY <1>1 DEF IInv, Typed
<1> QED
  BY <1>1, <1>2, <1>3, FailIInv

LEMMA StartIInv == ASSUME IInv, Start PROVE IInv'
<1>1. /\ parent = "starting" /\ parent' = "reading"
      /\ UNCHANGED <<input, todo, wire, worker, er, nomem, pairs, bucketed, map, next>>
  BY DEF Start
<1>2. Typed' /\ Kept' /\ Outcome'
  BY <1>1 DEF IInv, Typed, Kept, Outcome, Complete
<1>3. Stream'
  <2>1. ASSUME NEW r, NEW n, At(r, n) PROVE At(r, n)'
    BY <1>1, <2>1 DEF At, Got, Total, Fields, Cookies, Messages, PairMessages
  <2> QED
    BY <1>1, <2>1 DEF IInv, Stream
<1>4. Hanging'
  BY <1>1, SameMembers DEF IInv, Hanging
<1> QED
  BY <1>2, <1>3, <1>4 DEF IInv

\* All was read, or the worker has failed.
LEMMA DoneIInv ==
  ASSUME IInv, parent = "reading", Done, Complete \/ worker = "failed",
         wire' \in Seq(MessageSet), Len(wire') <= MaxWire,
         UNCHANGED <<input, todo, worker, nomem, bucketed, map, next>>
  PROVE  IInv'
<1>1. parent' = "bucketing" /\ UNCHANGED <<er, pairs>>
  BY DEF Done
<1>2. Typed' /\ Kept'
  BY <1>1 DEF IInv, Typed, Kept
<1>3. Stream' /\ Outcome'
  BY <1>1 DEF IInv, Stream, Outcome, Complete
<1>4. Hanging'
  BY <1>1, SameMembers DEF IInv, Hanging
<1> QED
  BY <1>2, <1>3, <1>4 DEF IInv

LEMMA ReadEndIInv == ASSUME RequestAssumption, IInv, ReadEnd PROVE IInv'
<1>1. /\ parent = "reading" /\ wire = <<>> /\ worker # "running"
      /\ UNCHANGED <<input, todo, wire, worker, nomem, bucketed, map, next>>
      /\ Done \/ Fail("FORM")
  BY DEF ReadEnd
<1>2. wire' \in Seq(MessageSet) /\ Len(wire') <= MaxWire /\ nomem' \in 0..MaxParentNoMem
  BY <1>1 DEF IInv, Typed
<1>3. worker = "failed"
  <2> SUFFICES ASSUME worker = "exited" PROVE FALSE
    BY <1>1 DEF IInv, Typed
  <2>1. todo = <<>>
    BY DEF IInv, Outcome
  <2>2. PICK r, n : At(r, n)
    BY <1>1 DEF IInv, Stream
  <2>3. Len(wire) = n /\ r \in Nat /\ n \in Nat /\ r + n + Len(todo) = Total /\ r < Total
    BY <2>2 DEF At
  <2>4. Len(wire) = 0 /\ Len(todo) = 0
    BY <1>1, <2>1
  <2> QED
    BY <2>3, <2>4
<1> QED
  BY <1>1, <1>2, <1>3, FailIInv, DoneIInv

LEMMA CloseIInv == ASSUME IInv, Close PROVE IInv'
<1>1. /\ parent = "read" /\ parent' = "closed"
      /\ UNCHANGED <<input, todo, wire, worker, er, nomem, pairs, bucketed, map, next>>
  BY DEF Close
<1>2. Typed' /\ Kept' /\ Stream' /\ Outcome'
  BY <1>1 DEF IInv, Typed, Kept, Stream, Outcome, Complete
<1>3. Hanging'
  BY <1>1, SameMembers DEF IInv, Hanging, AllBucketed
<1> QED
  BY <1>2, <1>3 DEF IInv

LEMMA AllReadIInv == ASSUME IInv, AllRead PROVE IInv'
<1>1. /\ parent = "bucketing" /\ parent' = "read" /\ \A a \in Arrays : AllBucketed(a)
      /\ UNCHANGED <<input, todo, wire, worker, er, nomem, pairs, bucketed, map, next>>
  BY DEF AllRead
<1>2. Typed' /\ Kept' /\ Stream' /\ Outcome'
  BY <1>1 DEF IInv, Typed, Kept, Stream, Outcome, Complete
<1>3. Hanging'
  BY <1>1, SameMembers DEF IInv, Hanging, AllBucketed
<1> QED
  BY <1>2, <1>3 DEF IInv

LEMMA WaitIInv == ASSUME IInv, Wait PROVE IInv'
<1>1. /\ parent = "closed" /\ worker # "running" /\ parent' = "returned"
      /\ er' = (IF er = "OK" THEN Waited ELSE er)
      /\ UNCHANGED <<input, todo, wire, worker, nomem, bucketed>>
  BY DEF Wait
<1>2. er' \in {"OK", "FORM", "ENOMEM"} /\ (er' = "OK" => er = "OK" /\ worker = "exited")
  BY <1>1 DEF Waited, IInv, Typed
<1>3. Stream'
  BY <1>1 DEF Stream
<1>4. CASE er' = "OK"
  <2>1. UNCHANGED <<pairs, map, next>> /\ er = "OK" /\ worker = "exited"
    BY <1>2, <1>4 DEF Wait
  <2>2. Typed' /\ Kept'
    BY <1>1, <1>2, <2>1 DEF IInv, Typed, Kept
  <2>3. Outcome'
    BY <1>1, <1>4, <2>1 DEF IInv, Outcome, Complete
  <2>4. Hanging'
    BY <1>1, <1>4, <2>1, SameMembers DEF IInv, Hanging, AllBucketed
  <2> QED
    BY <1>3, <2>2, <2>3, <2>4 DEF IInv
<1>5. CASE er' # "OK"
  <2>1. /\ pairs' = [a \in Arrays |-> <<>>] /\ map' = [l \in Lists |-> NULL]
        /\ next' = [r \in Ref |-> NULL]
    BY <1>5 DEF Wait
  <2>2. pairs' \in [Arrays -> Seq(PairSet)] /\ \A a \in Arrays : pairs'[a] = <<>>
    BY <2>1
  <2>3. map' \in [Lists -> RefOrNull] /\ next' \in [Ref -> RefOrNull]
    BY <2>1 DEF RefOrNull
  <2>4. Typed'
    BY <1>1, <1>2, <2>2, <2>3 DEF IInv, Typed
  <2>5. Kept'
    <3>1. \A a \in Arrays : Len(input[a]) \in Nat
      BY DEF IInv, Typed
    <3>2. \A a \in Arrays : Len(pairs'[a]) = 0
      BY <2>2
    <3> QED
      BY <1>1, <3>1, <3>2 DEF Kept
  <2>6. Outcome' /\ Hanging'
    BY <1>1, <1>5, <2>2 DEF IInv, Outcome, Hanging
  <2> QED
    BY <1>3, <2>4, <2>5, <2>6 DEF IInv
<1> QED
  BY <1>4, <1>5

\* One more message is read.
LEMMA Advance ==
  ASSUME RequestAssumption, IInv, NEW r, NEW n, At(r, n), n > 0, r + 1 < Total,
         wire' = Tail(wire), UNCHANGED <<input, todo, worker>>, Got(r + 1)'
  PROVE  At(r + 1, n - 1)'
<1>1. UNCHANGED <<Total, Messages>>
  BY DEF Total, Fields, Cookies, Messages, PairMessages
<1>2. r \in Nat /\ n \in Nat /\ r + n + Len(todo) = Total /\ Len(todo) \in Nat
  BY DEF At, IInv, Typed
<1>3. Len(wire) = n \/ (Len(wire) = n + 1 /\ worker = "failed" /\ wire[n + 1].type = "part")
  BY DEF At
<1>4. wire # <<>>
  BY <1>2, <1>3
<1>5. /\ Len(wire') = Len(wire) - 1 /\ Len(wire) \in Nat
      /\ \A i \in 1..Len(wire') : wire'[i] = wire[i + 1]
  BY <1>4, TailOfWire
<1>6. Len(wire') = n - 1 \/ (Len(wire') = n /\ worker = "failed" /\ wire'[n].type = "part")
  BY <1>2, <1>3, <1>5
<1>7. \A i \in 1..(n - 1) : wire'[i] = Messages[(r + 1) + i]
  <2> TAKE i \in 1..(n - 1)
  <2>1. i \in 1..Len(wire') /\ i + 1 \in 1..n /\ r + (i + 1) = (r + 1) + i
    BY <1>2, <1>5, <1>6
  <2>2. wire[i + 1] = Messages[r + (i + 1)]
    BY <2>1 DEF At
  <2> QED
    BY <1>5, <2>1, <2>2
<1>8. \A i \in 1..Len(todo) : todo[i] = Messages[(r + 1) + (n - 1) + i]
  <2> TAKE i \in 1..Len(todo)
  <2>1. r + n + i = (r + 1) + (n - 1) + i
    BY <1>2
  <2> QED
    BY <2>1 DEF At
<1>9. /\ r + 1 \in Nat /\ n - 1 \in Nat /\ (r + 1) + (n - 1) + Len(todo) = Total
      /\ (n - 1) + 1 = n
  BY <1>2
<1> QED
  BY <1>1, <1>6, <1>7, <1>8, <1>9 DEF At

\* A pair is the next of its array.
LEMMA PairRead ==
  ASSUME RequestAssumption, IInv, NEW a \in Arrays, Len(pairs[a]) < Len(input[a]),
         pairs' = [pairs EXCEPT ![a] = Append(@, Parsed(input[a][Len(pairs[a]) + 1]))],
         input' = input
  PROVE  /\ pairs' \in [Arrays -> Seq(PairSet)] /\ Kept'
         /\ Len(pairs'[a]) = Len(pairs[a]) + 1
         /\ \A b \in Arrays : b # a => pairs'[b] = pairs[b]
<1> DEFINE i == Len(pairs[a]) + 1
<1>1. /\ pairs \in [Arrays -> Seq(PairSet)] /\ input[a] \in Seq(Inputs)
      /\ Len(pairs[a]) \in Nat /\ i \in 1..Len(input[a])
  BY DEF IInv, Typed
<1>2. Parsed(input[a][i]) \in PairSet /\ Parsed(input[a][i]).key = input[a][i].key
  BY <1>1, ParsedIsPair DEF Parsed
<1>3. /\ pairs'[a] = Append(pairs[a], Parsed(input[a][i]))
      /\ \A b \in Arrays : b # a => pairs'[b] = pairs[b]
      /\ pairs' \in [Arrays -> Seq(PairSet)]
  BY <1>1, <1>2
<1>4. /\ Len(pairs'[a]) = i /\ pairs'[a][i] = Parsed(input[a][i])
      /\ \A j \in 1..Len(pairs[a]) : pairs'[a][j] = pairs[a][j]
  BY <1>1, <1>2, <1>3
<1>5. Kept'
  <2> SUFFICES ASSUME NEW b \in Arrays
               PROVE  /\ Len(pairs'[b]) <= Len(input[b])
                      /\ \A j \in 1..Len(pairs'[b]) : pairs'[b][j].key = input[b][j].key
    BY DEF Kept
  <2>1. Len(pairs[b]) <= Len(input[b]) /\ \A j \in 1..Len(pairs[b]) : pairs[b][j].key = input[b][j].key
    BY DEF IInv, Kept
  <2>2. CASE b = a
    BY <1>1, <1>2, <1>4, <2>1, <2>2
  <2>3. CASE b # a
    BY <1>3, <2>1, <2>3
  <2> QED
    BY <2>2, <2>3
<1> QED
  BY <1>3, <1>4, <1>5

LEMMA ReadMessageIInv == ASSUME RequestAssumption, IInv, ReadMessage PROVE IInv'
<1>1. /\ parent = "reading" /\ wire # <<>> /\ wire' = Tail(wire)
      /\ UNCHANGED <<input, todo, worker, nomem, bucketed, map, next>>
  BY DEF ReadMessage
<1> DEFINE m == Head(wire)
<1>2. \/ m.type = "head" /\ UNCHANGED <<parent, er, pairs>>
      \/ /\ m.type = "pair" /\ UNCHANGED <<parent, er>>
         /\ pairs' = [pairs EXCEPT ![m.array] = Append(@, m.pair)]
      \/ m.type = "last" /\ Done
      \/ m.type = "part" /\ Fail("FORM")
  BY DEF ReadMessage
<1>3. /\ m = wire[1] /\ wire' \in Seq(MessageSet) /\ Len(wire') <= MaxWire
      /\ Len(wire) \in Nat /\ Len(wire) > 0
  BY <1>1, TailOfWire
<1>4. nomem' \in 0..MaxParentNoMem
  BY <1>1 DEF IInv, Typed
<1>5. PICK r, n : At(r, n)
  BY <1>1 DEF IInv, Stream
<1>6. /\ r \in Nat /\ n \in Nat /\ r + n + Len(todo) = Total /\ r < Total /\ Got(r)
      /\ Len(wire) = n \/ (Len(wire) = n + 1 /\ worker = "failed" /\ wire[n + 1].type = "part")
  BY <1>5 DEF At
<1>7. MessagesAre
  BY MessagesLayout DEF IInv, Typed
<1>8. /\ Fields \in Nat /\ Cookies \in Nat /\ Total = Fields + Cookies + 2 /\ Total \in Nat
      /\ Fields = Len(input["fields"]) /\ Cookies = Len(input["cookies"])
      /\ "fields" \in Arrays /\ "cookies" \in Arrays
  <2>1. Fields \in Nat /\ Cookies \in Nat
    BY <1>7 DEF MessagesAre
  <2>2. Total = Fields + Cookies + 2
    BY DEF Total
  <2>3. Total \in Nat
    BY <2>1, <2>2
  <2> QED
    BY <2>1, <2>2, <2>3 DEF Fields, Cookies, Arrays
<1>9. /\ Len(pairs["fields"]) = IF r = 0 THEN 0 ELSE IF r <= Fields + 1 THEN r - 1 ELSE Fields
      /\ Len(pairs["cookies"]) = IF r <= Fields + 1 THEN 0 ELSE r - Fields - 1
  BY <1>6 DEF Got
<1>10. UNCHANGED <<Fields, Cookies>>
  BY <1>1 DEF Fields, Cookies
<1>11. r \in Nat /\ Fields \in Nat /\ Cookies \in Nat /\ Total = Fields + Cookies + 2 /\ r < Total
  BY <1>6, <1>8
<1> HIDE DEF m
<1>12. CASE n = 0
  <2>1. m.type = "part"
    BY <1>3, <1>6, <1>12
  <2>2. Fail("FORM")
    BY <1>2, <2>1
  <2> QED
    BY <1>1, <1>3, <1>4, <2>2, FailIInv
<1>13. CASE n > 0
  <2>1. m = Messages[r + 1]
    BY <1>3, <1>5, <1>6, <1>13 DEF At
  <2>2. CASE r + 1 = Total
    <3>1. m.type = "last"
      BY <1>7, <2>1, <2>2 DEF MessagesAre, Message
    <3>2. Done
      BY <1>2, <3>1
    <3>3. Len(pairs["fields"]) = Fields /\ Len(pairs["cookies"]) = Cookies
      BY <1>9, <1>11, <2>2
    <3>4. Complete
      BY <1>8, <3>3 DEF Complete, Arrays
    <3> QED
      BY <1>1, <1>3, <3>2, <3>4, DoneIInv
  <2>3. CASE r + 1 < Total
    <3>1. ASSUME pairs' \in [Arrays -> Seq(PairSet)], Kept', Got(r + 1)', UNCHANGED <<parent, er>>
          PROVE  IInv'
      <4>1. At(r + 1, n - 1)'
        BY <1>1, <1>5, <1>13, <2>3, <3>1, Advance
      <4>2. Stream'
        BY <4>1 DEF Stream
      <4>3. Typed'
        BY <1>1, <1>3, <1>4, <3>1 DEF IInv, Typed
      <4>4. Outcome'
        BY <1>1, <3>1 DEF IInv, Outcome
      <4>5. Hanging'
        <5>1. \A a \in Arrays : bucketed[a] = 0 /\ bucketed'[a] = 0
          BY <1>1 DEF IInv, Hanging
        <5>2. Members = [l \in Lists |-> {}] /\ Members' = [l \in Lists |-> {}]
          BY <5>1, NoMembers, NoMembersNext
        <5>3. er = "OK" /\ Shaped(map, next, Members, NULL)
          BY <1>1 DEF IInv, Outcome, Hanging
        <5>4. \A a \in Arrays : Len(pairs'[a]) \in Nat
          BY <3>1
        <5> QED
          BY <1>1, <3>1, <5>1, <5>2, <5>3, <5>4 DEF Hanging
      <4> QED
        BY <3>1, <4>2, <4>3, <4>4, <4>5 DEF IInv
    <3>2. CASE r = 0
      <4>1. m.type = "head"
        BY <1>7, <2>1, <3>2 DEF MessagesAre, Message
      <4>2. UNCHANGED <<parent, er, pairs>>
        BY <1>2, <4>1
      <4>3. Got(r + 1)'
        BY <1>8, <1>9, <1>10, <3>2, <4>2 DEF Got
      <4>4. pairs' \in [Arrays -> Seq(PairSet)] /\ Kept'
        BY <1>1, <4>2 DEF IInv, Typed, Kept
      <4> QED
        BY <3>1, <4>2, <4>3, <4>4
    <3>3. CASE r \in 1..Fields
      <4>1. Len(pairs["fields"]) = r - 1 /\ Len(pairs["cookies"]) = 0
        BY <1>6, <1>8, <1>9, <3>3
      <4>2. m = [type |-> "pair", array |-> "fields", pair |-> Parsed(input["fields"][r])]
        <5>1. r + 1 = 1 + r
          BY <1>6
        <5> QED
          BY <1>7, <2>1, <3>3, <5>1 DEF MessagesAre
      <4>3. /\ UNCHANGED <<parent, er>> /\ Len(pairs["fields"]) + 1 = r
            /\ Len(pairs["fields"]) < Len(input["fields"])
        BY <1>2, <1>6, <1>8, <3>3, <4>1, <4>2
      <4>4. pairs' = [pairs EXCEPT !["fields"] =
                        Append(@, Parsed(input["fields"][Len(pairs["fields"]) + 1]))]
        BY <1>2, <4>2, <4>3
      <4>5. /\ pairs' \in [Arrays -> Seq(PairSet)] /\ Kept'
            /\ Len(pairs'["fields"]) = r /\ pairs'["cookies"] = pairs["cookies"]
        BY <1>1, <1>8, <4>3, <4>4, PairRead
      <4>6. Got(r + 1)'
        BY <1>10, <1>11, <3>3, <4>1, <4>5 DEF Got
      <4> QED
        BY <3>1, <4>3, <4>5, <4>6
    <3>4. CASE r \in (Fields + 1)..(Fields + Cookies)
      <4> DEFINE j == r - Fields
      <4>1. /\ Len(pairs["fields"]) = Fields /\ Len(pairs["cookies"]) = j - 1
            /\ j \in 1..Cookies /\ r + 1 = 1 + Fields + j /\ (j - 1) + 1 = j
        BY <1>9, <1>11, <3>4
      <4>2. m = [type |-> "pair", array |-> "cookies", pair |-> Parsed(input["cookies"][j])]
        BY <1>7, <2>1, <4>1 DEF MessagesAre
      <4>3. /\ UNCHANGED <<parent, er>> /\ Len(pairs["cookies"]) + 1 = j
            /\ Len(pairs["cookies"]) < Len(input["cookies"])
        BY <1>2, <1>6, <1>8, <3>4, <4>1, <4>2
      <4>4. pairs' = [pairs EXCEPT !["cookies"] =
                        Append(@, Parsed(input["cookies"][Len(pairs["cookies"]) + 1]))]
        BY <1>2, <4>2, <4>3
      <4>5. /\ pairs' \in [Arrays -> Seq(PairSet)] /\ Kept'
            /\ Len(pairs'["cookies"]) = j /\ pairs'["fields"] = pairs["fields"]
        BY <1>1, <1>8, <4>3, <4>4, PairRead
      <4>6. Got(r + 1)'
        BY <1>10, <1>11, <3>4, <4>1, <4>5 DEF Got
      <4> QED
        BY <3>1, <4>3, <4>5, <4>6
    <3> QED
      BY <1>11, <2>3, <3>2, <3>3, <3>4
  <2> QED
    BY <1>11, <2>2, <2>3
<1> QED
  BY <1>6, <1>12, <1>13

-----------------------------------------------------------------------------
(* Steps that change the lists *)

LEMMA ListNames ==
  ASSUME NEW a \in Arrays, NEW b \in Arrays, NEW p \in PairSet, NEW q \in PairSet
  PROVE  /\ ListOf(a, p)[1] = ListOf(b, q)[1] =>
              a = b /\ (p.state = "KPAIR_INVALID" <=> q.state = "KPAIR_INVALID")
         /\ ListOf(a, p)[2] = p.key
         /\ p.key # keysz => ListOf(a, p) \in Lists
         /\ IsValidList(ListOf(a, p)) <=> p.state # "KPAIR_INVALID"
         /\ ListOf(a, p) = IF p.state = "KPAIR_INVALID" THEN <<NMap[a], p.key>>
                           ELSE <<Map[a], p.key>>
<1>1. /\ Map["fields"] = "fieldmap" /\ Map["cookies"] = "cookiemap"
      /\ NMap["fields"] = "fieldnmap" /\ NMap["cookies"] = "cookienmap"
  BY DEF Map, NMap
<1>2. Range(Map) = {"fieldmap", "cookiemap"} /\ Range(NMap) = {"fieldnmap", "cookienmap"}
  BY DEF Map, NMap, Range
<1>3. p.key \in Keys \cup {keysz}
  BY DEF PairSet
<1>4. ListOf(a, p)[1] = (IF p.state # "KPAIR_INVALID" THEN Map[a] ELSE NMap[a])
      /\ ListOf(b, q)[1] = (IF q.state # "KPAIR_INVALID" THEN Map[b] ELSE NMap[b])
      /\ ListOf(a, p)[2] = p.key
  BY DEF ListOf
<1>5. Map[a] \in Range(Map) /\ NMap[a] \in Range(NMap)
  BY <1>1, <1>2 DEF Arrays
<1>6. p.key # keysz => ListOf(a, p) \in Lists
  BY <1>3, <1>5 DEF ListOf, Lists
<1>7. IsValidList(ListOf(a, p)) <=> p.state # "KPAIR_INVALID"
  BY <1>1, <1>2, <1>4 DEF IsValidList, Arrays
<1>8. ListOf(a, p)[1] = ListOf(b, q)[1] =>
        a = b /\ (p.state = "KPAIR_INVALID" <=> q.state = "KPAIR_INVALID")
  BY <1>1, <1>4 DEF Arrays
<1>9. ListOf(a, p) = IF p.state = "KPAIR_INVALID" THEN <<NMap[a], p.key>> ELSE <<Map[a], p.key>>
  BY DEF ListOf
<1> QED
  BY <1>4, <1>6, <1>7, <1>8, <1>9

\* A pair that was read, as it is known in the lists.
LEMMA RefsAre ==
  ASSUME RequestAssumption, IInv
  PROVE  /\ \A r \in Ref : r = <<r[1], r[2]>> /\ r[1] \in Arrays /\ r[2] \in Nat /\ r[2] > 0
         /\ \A a \in Arrays : \A i \in 1..Len(pairs[a]) :
              <<a, i>> \in Ref /\ pairs[a][i] \in PairSet
<1>1. \A r \in Ref : r = <<r[1], r[2]>> /\ r[1] \in Arrays /\ r[2] \in Nat /\ r[2] > 0
  BY SizesAre DEF Ref
<1>2. ASSUME NEW a \in Arrays, NEW i \in 1..Len(pairs[a])
      PROVE  <<a, i>> \in Ref /\ pairs[a][i] \in PairSet
  <2>1. /\ pairs[a] \in Seq(PairSet) /\ Len(pairs[a]) <= Len(input[a])
        /\ Len(input[a]) <= MaxPairs[a] /\ Len(input[a]) \in Nat
    BY DEF IInv, Typed, Kept
  <2>2. MaxPairs[a] \in Nat
    BY SizesAre
  <2>3. i \in 1..MaxPairs[a]
    BY <2>1, <2>2
  <2> QED
    BY <2>1, <2>3 DEF Ref
<1> QED
  BY <1>1, <1>2

LEMMA BucketIInv == ASSUME RequestAssumption, IInv, NEW a \in Arrays, Bucket(a) PROVE IInv'
<1> DEFINE i == bucketed[a] + 1
           p == pairs[a][i]
           ref == <<a, i>>
           l == ListOf(a, p)
<1>1. /\ parent = "bucketing" /\ bucketed[a] # Len(pairs[a])
      /\ bucketed' = [bucketed EXCEPT ![a] = @ + 1]
      /\ UNCHANGED <<input, todo, wire, worker, parent, er, nomem, pairs>>
  BY DEF Bucket, AllBucketed
<1>2. /\ er = "OK" /\ \A b \in Arrays : bucketed[b] <= Len(pairs[b])
      /\ Shaped(map, next, Members, NULL)
  BY <1>1 DEF IInv, Outcome, Hanging
<1>3. /\ bucketed \in [Arrays -> Nat] /\ \A b \in Arrays : Len(pairs[b]) \in Nat
      /\ map \in [Lists -> RefOrNull] /\ next \in [Ref -> RefOrNull]
  BY DEF IInv, Typed
<1>4. i \in 1..Len(pairs[a]) /\ i \in Nat /\ i > bucketed[a] /\ i <= Len(pairs[a])
  BY <1>1, <1>2, <1>3
<1>5. /\ bucketed' \in [Arrays -> Nat] /\ bucketed'[a] = i
      /\ \A b \in Arrays : b # a => bucketed'[b] = bucketed[b]
  BY <1>1, <1>3
<1>6. ref \in Ref /\ p \in PairSet /\ ref[1] = a /\ ref[2] = i
  BY <1>4, RefsAre
<1>7. IF p.key = keysz THEN UNCHANGED <<map, next>>
      ELSE map' = [map EXCEPT ![l] = ref] /\ next' = [next EXCEPT ![ref] = map[l]]
  BY <1>5 DEF Bucket, Push
<1>8. \A r \in Ref : r[2] <= bucketed'[r[1]] <=> r[2] <= bucketed[r[1]] \/ r = ref
  <2> TAKE r \in Ref
  <2>1. r = <<r[1], r[2]>> /\ r[1] \in Arrays /\ r[2] \in Nat
    BY RefsAre
  <2>2. CASE r[1] = a
    <3>1. r = ref <=> r[2] = i
      BY <2>1, <2>2
    <3>2. r[2] <= i <=> r[2] <= bucketed[a] \/ r[2] = i
      BY <1>3, <2>1
    <3> QED
      BY <1>5, <2>2, <3>1, <3>2
  <2>3. CASE r[1] # a
    BY <1>5, <1>6, <2>1, <2>3
  <2> QED
    BY <2>2, <2>3
<1>9. \A r \in Ref : PairOf(r)' = PairOf(r)
  BY <1>1 DEF PairOf
<1>10. PairOf(ref) = p
  BY <1>6 DEF PairOf
<1>11. \A k \in Lists : /\ Members[k] \subseteq Ref
                        /\ \A r \in Members[k] : r[2] <= bucketed[r[1]] /\ ListOf(r[1], PairOf(r)) = k
  BY DEF Members
<1> HIDE DEF p, ref, i
<1>12. \A b \in Arrays : bucketed'[b] <= Len(pairs'[b])
  BY <1>1, <1>2, <1>4, <1>5
<1>13. CASE p.key = keysz
  <2>1. UNCHANGED <<map, next>>
    BY <1>7, <1>13
  <2>2. Members' = Members
    BY <1>8, <1>9, <1>10, <1>13 DEF Members
  <2>3. Hanging'
    BY <1>1, <1>2, <1>12, <2>1, <2>2 DEF Hanging
  <2>4. Typed' /\ Kept' /\ Stream' /\ Outcome'
    BY <1>1, <1>5, <2>1 DEF IInv, Typed, Kept, Stream, Outcome, Complete
  <2> QED
    BY <2>3, <2>4 DEF IInv
<1>14. CASE p.key # keysz
  <2>1. map' = [map EXCEPT ![l] = ref] /\ next' = [next EXCEPT ![ref] = map[l]]
    BY <1>7, <1>14
  <2>2. l \in Lists
    BY <1>6, <1>14, ListNames
  <2>3. \A k \in Lists : ref \notin Members[k]
    BY <1>3, <1>4, <1>6, <1>11
  <2>4. \A r \in Members[l] : r[2] < ref[2]
    <3> TAKE r \in Members[l]
    <3>1. r \in Ref /\ r[2] <= bucketed[r[1]] /\ ListOf(r[1], PairOf(r)) = ListOf(a, p)
      BY <1>11, <2>2
    <3>2. r[1] \in Arrays /\ r[2] \in Nat /\ r[2] \in 1..Len(pairs[r[1]])
      BY <1>2, <1>3, <3>1, RefsAre
    <3>3. PairOf(r) \in PairSet
      BY <3>2, RefsAre DEF PairOf
    <3>4. r[1] = a
      BY <1>6, <3>1, <3>2, <3>3, ListNames
    <3> QED
      BY <1>3, <1>4, <1>6, <3>1, <3>2, <3>4
  <2>5. Shaped(map, next, Members, ref)
    BY <1>2, ShapeLoose
  <2> HIDE DEF l
  <2>6. Shaped([map EXCEPT ![l] = ref], [next EXCEPT ![ref] = map[l]],
               [Members EXCEPT ![l] = @ \cup {ref}], NULL)
    BY <1>6, <2>2, <2>3, <2>4, <2>5, PushShape
  <2>7. Members' = [Members EXCEPT ![l] = @ \cup {ref}]
    BY <1>6, <1>8, <1>9, <1>10, <1>14, <2>2 DEF Members, l
  <2>8. Hanging'
    BY <1>1, <1>2, <1>12, <2>1, <2>6, <2>7 DEF Hanging
  <2>9. map' \in [Lists -> RefOrNull] /\ next' \in [Ref -> RefOrNull]
    BY <1>3, <1>6, <2>1, <2>2 DEF RefOrNull
  <2>10. Typed' /\ Kept' /\ Stream' /\ Outcome'
    BY <1>1, <1>5, <2>9 DEF IInv, Typed, Kept, Stream, Outcome, Complete
  <2> QED
    BY <2>8, <2>10 DEF IInv
<1> QED
  BY <1>13, <1>14

\* kutil_invalidate takes a pair out of its list.
LEMMA UnlinkShape ==
  ASSUME NEW l \in Lists, NEW ref \in Members[l], Shaped(map, next, Members, NULL)
  PROVE  Shaped(Unlink(l, ref).map, Unlink(l, ref).next, [Members EXCEPT ![l] = @ \ {ref}], ref)
<1>1. CASE map[l] = ref
  <2>1. Unlink(l, ref).map = [map EXCEPT ![l] = next[ref]] /\ Unlink(l, ref).next = next
    BY <1>1 DEF Unlink
  <2> QED
    BY <1>1, <2>1, UnlinkFirst
<1>2. CASE map[l] # ref
  <2> DEFINE last == CHOOSE r \in Reach(map[l]) : next[r] = ref
  <2>1. Unlink(l, ref).map = map /\ Unlink(l, ref).next = [next EXCEPT ![last] = next[ref]]
    BY <1>2 DEF Unlink
  <2>2. Reach(map[l]) = Members[l]
    BY ReachMembers
  <2>3. \E r \in Members[l] : next[r] = ref
    <3>1. PointsTo(next, Members[l], ref)
      BY <1>2, UnlinkLater
    <3> QED
      BY <3>1 DEF PointsTo
  <2>4. last \in Members[l] /\ next[last] = ref
    BY <2>2, <2>3
  <2> HIDE DEF last
  <2>5. Shaped(map, [next EXCEPT ![last] = next[ref]], [Members EXCEPT ![l] = @ \ {ref}], ref)
    BY <1>2, <2>4, UnlinkLater
  <2> QED
    BY <2>1, <2>5
<1> QED
  BY <1>1, <1>2

LEMMA InvalidPair ==
  ASSUME NEW p \in PairSet
  PROVE  /\ Invalid(p) \in PairSet /\ Invalid(p).key = p.key
         /\ Invalid(p).state = "KPAIR_INVALID"
<1>1. p \in [key : Keys \cup {keysz}, state : States, s : Int]
  BY DEF PairSet
<1>2. "KPAIR_INVALID" \in States
  BY DEF States
<1> DEFINE q == [key |-> p.key, state |-> "KPAIR_INVALID", s |-> 0]
<1>3. p = [key |-> p.key, state |-> p.state, s |-> p.s] /\ p.key \in Keys \cup {keysz}
  BY <1>1
<1>4. Invalid(p) = q
  <2> DEFINE r == [key |-> p.key, state |-> "KPAIR_INVALID", s |-> p.s]
  <2>1. Invalid(p) = [[p EXCEPT !.state = "KPAIR_INVALID"] EXCEPT !.s = 0]
    BY <1>1 DEF Invalid
  <2>2. [p EXCEPT !.state = "KPAIR_INVALID"] = r
    BY <1>1
  <2>3. [r EXCEPT !.s = 0] = q
    OBVIOUS
  <2> HIDE DEF r
  <2> QED
    BY <2>1, <2>2, <2>3
<1>5. /\ q \in [key : Keys \cup {keysz}, state : States, s : Int]
      /\ q.key = p.key /\ q.state = "KPAIR_INVALID" /\ q.s = 0
  BY <1>2, <1>3
<1> QED
  BY <1>4, <1>5 DEF PairSet

\* A pair is in the list of its array, if it is in one of those that are searched.
LEMMA FoundIs ==
  ASSUME RequestAssumption, IInv, parent = "returned", er = "OK",
         NEW ref \in Ref, ref[2] <= Len(pairs[ref[1]]), PairOf(ref).key # keysz,
         NEW b \in Arrays
  PROVE  Found(b, ref) <=> b = ref[1] /\ PairOf(ref).state # "KPAIR_INVALID"
<1> DEFINE k == <<Map[b], PairOf(ref).key>>
<1>1. /\ ref[1] \in Arrays /\ ref[2] \in 1..Len(pairs[ref[1]]) /\ PairOf(ref) \in PairSet
      /\ Shaped(map, next, Members, NULL) /\ bucketed[ref[1]] = Len(pairs[ref[1]])
  <2>1. ref[1] \in Arrays /\ ref[2] \in Nat /\ ref[2] > 0
    BY RefsAre
  <2>2. Len(pairs[ref[1]]) \in Nat
    BY <2>1 DEF IInv, Typed
  <2>3. ref[2] \in 1..Len(pairs[ref[1]])
    BY <2>1, <2>2
  <2>4. PairOf(ref) \in PairSet
    BY <2>1, <2>3, RefsAre DEF PairOf
  <2> QED
    BY <2>1, <2>3, <2>4 DEF IInv, Hanging, AllBucketed
<1>2. k \in Lists
  <2>1. PairOf(ref).key \in Keys
    BY <1>1 DEF PairSet
  <2>2. Map[b] \in Range(Map)
    BY DEF Map, Range, Arrays
  <2> QED
    BY <2>1, <2>2 DEF Lists
<1>3. Reach(map[k]) = Members[k]
  BY <1>1, <1>2, ReachMembers
<1>4. Found(b, ref) <=> ref \in Members[k]
  BY <1>3 DEF Found, PairOf
<1>5. ref \in Members[k] <=> ListOf(ref[1], PairOf(ref)) = k
  BY <1>1, <1>2 DEF Members
<1>6. ListOf(ref[1], PairOf(ref)) =
        IF PairOf(ref).state = "KPAIR_INVALID" THEN <<NMap[ref[1]], PairOf(ref).key>>
        ELSE <<Map[ref[1]], PairOf(ref).key>>
  BY <1>1, ListNames
<1>7. /\ Map[ref[1]] = Map[b] <=> ref[1] = b
      /\ NMap[ref[1]] # Map[b]
  BY <1>1 DEF Map, NMap, Arrays
<1> QED
  BY <1>4, <1>5, <1>6, <1>7

LEMMA InvalidateIInv == ASSUME RequestAssumption, IInv, kutil_invalidate PROVE IInv'
<1>1. /\ parent = "returned" /\ er = "OK"
      /\ UNCHANGED <<input, todo, wire, worker, parent, er, nomem, bucketed>>
  BY DEF kutil_invalidate
<1> DEFINE Moved(ref, a) ==
             Push(Unlink(<<Map[a], pairs[ref[1]][ref[2]].key>>, ref),
                  MoveTo(a, pairs[ref[1]][ref[2]].key), ref)
           Lists2(ref) ==
             CASE pairs[ref[1]][ref[2]].key # keysz /\ Found("fields", ref)
                    -> Moved(ref, "fields")
               [] pairs[ref[1]][ref[2]].key # keysz /\ ~Found("fields", ref)
                    /\ Found("cookies", ref)
                    -> Moved(ref, "cookies")
               [] OTHER -> [map |-> map, next |-> next]
<1>2. PICK ref \in Ref : /\ ref[2] <= Len(pairs[ref[1]])
                         /\ pairs' = [pairs EXCEPT ![ref[1]][ref[2]] = Invalid(@)]
                         /\ map' = Lists2(ref).map /\ next' = Lists2(ref).next
  BY DEF kutil_invalidate
<1> DEFINE a == ref[1]
           i == ref[2]
           p == pairs[a][i]
<1>3. /\ ref = <<a, i>> /\ a \in Arrays /\ i \in 1..Len(pairs[a]) /\ i \in Nat
      /\ pairs \in [Arrays -> Seq(PairSet)] /\ p \in PairSet
  <2>1. ref = <<a, i>> /\ a \in Arrays /\ i \in Nat /\ i > 0
    BY RefsAre
  <2>2. pairs \in [Arrays -> Seq(PairSet)] /\ Len(pairs[a]) \in Nat
    BY <2>1 DEF IInv, Typed
  <2>3. i \in 1..Len(pairs[a])
    BY <1>2, <2>1, <2>2
  <2> QED
    BY <2>1, <2>2, <2>3, RefsAre
<1>4. PairOf(ref) = p
  BY DEF PairOf
<1>5. /\ Shaped(map, next, Members, NULL)
      /\ \A b \in Arrays : bucketed[b] <= Len(pairs[b]) /\ bucketed[b] = Len(pairs[b])
  BY <1>1 DEF IInv, Hanging, AllBucketed
<1>6. /\ Invalid(p) \in PairSet /\ Invalid(p).key = p.key
      /\ Invalid(p).state = "KPAIR_INVALID"
  BY <1>3, InvalidPair
<1> HIDE DEF p
<1>7. /\ pairs' \in [Arrays -> Seq(PairSet)] /\ pairs'[a][i] = Invalid(p)
      /\ \A b \in Arrays : Len(pairs'[b]) = Len(pairs[b])
      /\ \A b \in Arrays : \A j \in 1..Len(pairs[b]) :
           <<b, j>> # ref => pairs'[b][j] = pairs[b][j]
  <2>1. pairs' = [pairs EXCEPT ![a] = [@ EXCEPT ![i] = Invalid(p)]]
    BY <1>2, <1>3 DEF p
  <2>2. /\ [pairs[a] EXCEPT ![i] = Invalid(p)] \in Seq(PairSet)
        /\ Len([pairs[a] EXCEPT ![i] = Invalid(p)]) = Len(pairs[a])
        /\ \A j \in 1..Len(pairs[a]) :
             [pairs[a] EXCEPT ![i] = Invalid(p)][j] = IF j = i THEN Invalid(p) ELSE pairs[a][j]
    BY <1>3, <1>6, ExceptSeq
  <2>3. /\ pairs'[a] = [pairs[a] EXCEPT ![i] = Invalid(p)]
        /\ \A b \in Arrays : b # a => pairs'[b] = pairs[b]
        /\ pairs' \in [Arrays -> Seq(PairSet)]
    BY <1>3, <2>1, <2>2
  <2> QED
    BY <1>3, <2>2, <2>3
<1>8. \A b \in Arrays : \A j \in 1..Len(pairs[b]) : pairs'[b][j].key = pairs[b][j].key
  <2> SUFFICES ASSUME NEW b \in Arrays, NEW j \in 1..Len(pairs[b])
               PROVE  pairs'[b][j].key = pairs[b][j].key
    OBVIOUS
  <2>1. CASE <<b, j>> = ref
    <3>1. b = a /\ j = i
      BY <2>1
    <3> QED
      BY <1>6, <1>7, <3>1 DEF p
  <2>2. CASE <<b, j>> # ref
    BY <1>7, <2>2
  <2> QED
    BY <2>1, <2>2
<1>9. Kept' /\ Stream' /\ Outcome'
  <2>1. Kept'
    BY <1>1, <1>7, <1>8 DEF IInv, Kept
  <2>2. Stream'
    BY <1>1 DEF Stream
  <2>3. Outcome'
    BY <1>1, <1>7 DEF IInv, Outcome, Complete
  <2> QED
    BY <2>1, <2>2, <2>3
<1>10. \A r \in Ref : r[2] <= bucketed[r[1]] =>
         PairOf(r)' = IF r = ref THEN Invalid(p) ELSE PairOf(r)
  <2> SUFFICES ASSUME NEW r \in Ref, r[2] <= bucketed[r[1]]
               PROVE  PairOf(r)' = IF r = ref THEN Invalid(p) ELSE PairOf(r)
    OBVIOUS
  <2>1. r = <<r[1], r[2]>> /\ r[1] \in Arrays /\ r[2] \in Nat /\ r[2] > 0
    BY RefsAre
  <2>2. r[2] \in 1..Len(pairs[r[1]])
    BY <1>3, <1>5, <2>1
  <2> QED
    BY <1>7, <2>1, <2>2 DEF PairOf
<1> SUFFICES ASSUME TRUE
             PROVE  /\ map' \in [Lists -> RefOrNull] /\ next' \in [Ref -> RefOrNull]
                    /\ Shaped(map', next', Members', NULL)
  <2>1. ASSUME map' \in [Lists -> RefOrNull] /\ next' \in [Ref -> RefOrNull]
        PROVE  Typed'
    BY <1>1, <1>7, <2>1 DEF IInv, Typed
  <2>2. ASSUME Shaped(map', next', Members', NULL)
        PROVE  Hanging'
    BY <1>1, <1>5, <1>7, <2>2 DEF Hanging, AllBucketed
  <2> QED
    BY <1>9, <2>1, <2>2 DEF IInv
<1>11. map \in [Lists -> RefOrNull] /\ next \in [Ref -> RefOrNull]
  BY DEF IInv, Typed
<1>12. CASE p.key = keysz \/ p.state = "KPAIR_INVALID"
  <2>1. p.key # keysz => ~Found("fields", ref) /\ ~Found("cookies", ref)
    BY <1>1, <1>2, <1>4, <1>12, FoundIs DEF Arrays
  <2>2. UNCHANGED <<map, next>>
    <3>1. Lists2(ref) = [map |-> map, next |-> next]
      BY <2>1 DEF p
    <3> HIDE DEF Lists2
    <3> QED
      BY <1>2, <3>1
  <2>3. Members' = Members
    <3>1. p.key # keysz => ListOf(a, Invalid(p)) = ListOf(a, p)
      BY <1>6, <1>12 DEF ListOf
    <3> QED
      BY <1>1, <1>4, <1>6, <1>10, <3>1 DEF Members
  <2> QED
    BY <1>5, <1>11, <2>2, <2>3
<1>13. CASE p.key # keysz /\ p.state # "KPAIR_INVALID"
  <2> DEFINE l == <<Map[a], p.key>>
             n == <<NMap[a], p.key>>
             t == Unlink(l, ref)
             I2 == [Members EXCEPT ![l] = @ \ {ref}]
  <2>1. Found(a, ref) /\ \A b \in Arrays : b # a => ~Found(b, ref)
    BY <1>1, <1>2, <1>3, <1>4, <1>13, FoundIs
  <2>2. Lists2(ref) = Push(t, n, ref)
    <3>1. Lists2(ref) = Moved(ref, a)
      BY <1>3, <1>13, <2>1 DEF p, Arrays
    <3> QED
      BY <3>1 DEF MoveTo, p
  <2>3. map' = [t.map EXCEPT ![n] = ref] /\ next' = [t.next EXCEPT ![ref] = t.map[n]]
    BY <1>2, <2>2 DEF Push
  <2>4. ListOf(a, p) = l /\ l \in Lists /\ ListOf(a, Invalid(p)) = n /\ n \in Lists /\ ~IsValidList(n)
    <3>1. ListOf(a, p) = l /\ l \in Lists
      <4>1. ListOf(a, p) = l
        BY <1>13 DEF ListOf
      <4>2. ListOf(a, p) \in Lists
        BY <1>3, <1>13, ListNames
      <4> QED
        BY <4>1, <4>2
    <3>2. ListOf(a, Invalid(p)) = n
      BY <1>6 DEF ListOf
    <3>3. ListOf(a, Invalid(p)) \in Lists /\ ~IsValidList(ListOf(a, Invalid(p)))
      BY <1>3, <1>6, <1>13, ListNames
    <3> QED
      BY <3>1, <3>2, <3>3
  <2>5. ref \in Members[l]
    BY <1>3, <1>4, <1>5, <1>13, <2>4 DEF Members
  <2>6. Shaped(t.map, t.next, I2, ref)
    BY <1>5, <2>4, <2>5, UnlinkShape
  <2>7. \A k \in Lists : I2[k] = IF k = l THEN Members[l] \ {ref} ELSE Members[k]
    BY <2>4 DEF Members
  <2>8. \A k \in Lists : ref \notin I2[k]
    <3>1. \A k \in Lists : ref \in Members[k] => k = l
      BY <1>4, <2>4 DEF Members
    <3> QED
      BY <2>7, <3>1
  <2>9. l # n
    BY <1>3 DEF Map, NMap, Arrays
  <2> HIDE DEF t, l, n, I2
  <2>10. Shaped([t.map EXCEPT ![n] = ref], [t.next EXCEPT ![ref] = t.map[n]],
                [I2 EXCEPT ![n] = @ \cup {ref}], NULL)
    BY <2>4, <2>6, <2>8, PushShape
  <2>11. Members' = [I2 EXCEPT ![n] = @ \cup {ref}]
    <3>1. ref \in Ref /\ ref[2] <= bucketed[ref[1]]
      BY <1>2, <1>3, <1>5
    <3>2. \A r \in Ref : r[2] <= bucketed[r[1]] /\ r # ref => PairOf(r)' = PairOf(r)
      BY <1>10
    <3>3. PairOf(ref)' = Invalid(p)
      BY <1>10, <3>1
    <3>4. ASSUME NEW k \in Lists
          PROVE  Members'[k] = [I2 EXCEPT ![n] = @ \cup {ref}][k]
      <4>1. Members'[k] = {r \in Ref : /\ r[2] <= bucketed[r[1]]
                                       /\ PairOf(r)'.key # keysz
                                       /\ ListOf(r[1], PairOf(r)') = k}
        BY <1>1 DEF Members
      <4>2. Members[k] = {r \in Ref : /\ r[2] <= bucketed[r[1]]
                                      /\ PairOf(r).key # keysz
                                      /\ ListOf(r[1], PairOf(r)) = k}
        BY DEF Members
      <4>3. \A r \in Ref : r # ref => (r \in Members'[k] <=> r \in Members[k])
        BY <3>2, <4>1, <4>2
      <4>4. ref \in Members'[k] <=> k = n
        BY <1>6, <1>13, <2>4, <3>1, <3>3, <4>1
      <4>5. [I2 EXCEPT ![n] = @ \cup {ref}][k] = IF k = n THEN I2[k] \cup {ref} ELSE I2[k]
        BY <2>4 DEF I2, Members
      <4>6. I2[k] = Members[k] \ {ref}
        BY <2>7, <2>8
      <4> QED
        BY <3>1, <4>1, <4>2, <4>3, <4>4, <4>5, <4>6
    <3> QED
      BY <3>4 DEF Members, I2
  <2>12. map' \in [Lists -> RefOrNull] /\ next' \in [Ref -> RefOrNull]
    BY <2>3, <2>10 DEF Shaped, IsShape
  <2> QED
    BY <2>3, <2>10, <2>11, <2>12
<1> QED
  BY <1>12, <1>13

-----------------------------------------------------------------------------
(* The theorems *)

LEMMA StutterIInv == ASSUME IInv, UNCHANGED rvars PROVE IInv'
<1>1. UNCHANGED <<input, todo, wire, worker, parent, er, nomem, pairs, bucketed, map, next>>
  BY DEF rvars
<1>2. Typed' /\ Kept' /\ Outcome' /\ Hanging'
  BY <1>1, SameHanging DEF IInv, Typed, Kept, Outcome, Complete
<1>3. Stream'
  <2>1. ASSUME NEW r, NEW n, At(r, n) PROVE At(r, n)'
    BY <1>1, <2>1 DEF At, Got, Total, Fields, Cookies, Messages, PairMessages
  <2> QED
    BY <1>1, <2>1 DEF IInv, Stream
<1> QED
  BY <1>2, <1>3 DEF IInv

LEMMA NextIInv == ASSUME RequestAssumption, IInv, [RNext]_rvars PROVE IInv'
<1>1. CASE Worker \/ WorkerCrash
  BY <1>1, WorkerSendIInv, WorkerExitIInv, WorkerCrashIInv DEF Worker
<1>2. CASE Parent
  BY <1>2, StartIInv, StartNoMemoryIInv, ReadMessageIInv, ReadNoMemoryIInv, ReadEndIInv,
     BucketIInv, AllReadIInv, CloseIInv, WaitIInv DEF Parent
<1>3. CASE kutil_invalidate
  BY <1>3, InvalidateIInv
<1>4. CASE RequestOver \/ UNCHANGED rvars
  BY <1>4, StutterIInv DEF RequestOver
<1> QED
  BY <1>1, <1>2, <1>3, <1>4 DEF RNext

\* What the parent has read is where it should be, after any steps of the worker, the
\* parent and the application (child.c:260-320, parent.c:112-397, kcgi.c:1008-1167).
THEOREM RequestInvariance ==
  ASSUME RequestAssumption
  PROVE  RSpec => []IInv
<1>1. RInit => IInv
  BY InitIInv
<1>2. IInv /\ [RNext]_rvars => IInv'
  BY NextIInv
<1> QED
  BY <1>1, <1>2, PTL DEF RSpec

\* Every variable has its type: the socket never holds more than it can, and no array
\* more than was in the request (parent.c:277-361).
THEOREM TypeCorrect ==
  ASSUME RequestAssumption
  PROVE  RSpec => []RTypeOK
<1>1. IInv => RTypeOK
  <2> SUFFICES ASSUME IInv PROVE RTypeOK
    OBVIOUS
  <2>1. \A p \in PairSet : IsPair(p)
    BY DEF PairSet, IsPair
  <2>2. \A i \in DOMAIN wire : IsPair(wire[i].pair)
    <3>1. wire \in Seq(MessageSet)
      BY DEF IInv, Typed
    <3>2. \A i \in DOMAIN wire : wire[i] \in MessageSet
      BY <3>1
    <3>3. \A m \in MessageSet : m.pair \in PairSet
      BY DEF MessageSet
    <3> QED
      BY <2>1, <3>2, <3>3
  <2>3. ASSUME NEW a \in Arrays
        PROVE  /\ Len(pairs[a]) <= MaxPairs[a]
               /\ \A i \in DOMAIN pairs[a] : IsPair(pairs[a][i])
    <3>1. pairs[a] \in Seq(PairSet) /\ input[a] \in Seq(Inputs) /\ MaxPairs[a] \in Nat
      BY SizesAre DEF IInv, Typed
    <3>2. Len(pairs[a]) <= Len(input[a]) /\ Len(input[a]) <= MaxPairs[a]
      BY DEF IInv, Typed, Kept
    <3>3. Len(pairs[a]) <= MaxPairs[a]
      BY <3>1, <3>2
    <3> QED
      BY <2>1, <3>1, <3>3
  <2> QED
    BY <2>2, <2>3 DEF IInv, Typed, RTypeOK, RefOrNull
<1> QED
  BY <1>1, RequestInvariance, PTL

\* khttp_parse succeeds only with all the pairs of the request, in order, although the
\* stream may end between any two; if it does not, there are none (kcgi.c:1091-1107).
THEOREM AllOrNothingHolds ==
  ASSUME RequestAssumption
  PROVE  RSpec => []AllOrNothing
<1>1. IInv => AllOrNothing
  <2> SUFFICES ASSUME IInv, parent = "returned", NEW a \in Arrays
               PROVE  KeysOf(pairs[a]) = IF er = "OK" THEN KeysOf(input[a]) ELSE <<>>
    BY DEF AllOrNothing
  <2>1. pairs[a] \in Seq(PairSet) /\ input[a] \in Seq(Inputs)
    BY DEF IInv, Typed
  <2>2. CASE er = "OK"
    <3>1. Len(pairs[a]) = Len(input[a])
      BY <2>2 DEF IInv, Outcome, Complete
    <3>2. \A j \in 1..Len(pairs[a]) : pairs[a][j].key = input[a][j].key
      BY DEF IInv, Kept
    <3>3. DOMAIN pairs[a] = 1..Len(pairs[a]) /\ DOMAIN input[a] = 1..Len(pairs[a])
      BY <2>1, <3>1
    <3> QED
      BY <2>2, <3>2, <3>3 DEF KeysOf
  <2>3. CASE er # "OK"
    <3>1. pairs[a] = <<>>
      BY <2>3 DEF IInv, Outcome
    <3>2. DOMAIN pairs[a] = {}
      BY <3>1
    <3>3. KeysOf(pairs[a]) = [i \in {} |-> pairs[a][i].key]
      BY <3>2 DEF KeysOf
    <3>4. KeysOf(pairs[a]) \in Seq({}) /\ Len(KeysOf(pairs[a])) = 0
      BY <3>3
    <3>5. KeysOf(pairs[a]) = <<>>
      BY <3>4, EmptySeq
    <3> QED
      BY <2>3, <3>5
  <2> QED
    BY <2>2, <2>3
<1> QED
  BY <1>1, RequestInvariance, PTL

\* The pairs of a list, by the array, the key and the state that it is for.
LEMMA MembersAre ==
  ASSUME RequestAssumption, IInv, Succeeded, NEW a \in Arrays, NEW k \in Keys
  PROVE  /\ Members[<<Map[a], k>>] = Of(a, k, {"KPAIR_VALID", "KPAIR_UNCHECKED"})
         /\ Members[<<NMap[a], k>>] = Of(a, k, {"KPAIR_INVALID"})
<1> DEFINE l == <<Map[a], k>>
           n == <<NMap[a], k>>
<1>1. l \in Lists /\ n \in Lists /\ k # keysz
  <2>1. Map[a] \in Range(Map) /\ NMap[a] \in Range(NMap)
    BY DEF Map, NMap, Range, Arrays
  <2>2. k # keysz
    BY DEF RequestAssumption, Keys, keysz
  <2> QED
    BY <2>1, <2>2 DEF Lists
<1>2. \A b \in Arrays :
        /\ Map[b] = Map[a] <=> b = a
        /\ NMap[b] = NMap[a] <=> b = a
        /\ Map[b] # NMap[a] /\ NMap[b] # Map[a]
  BY DEF Map, NMap, Arrays
<1>3. ASSUME NEW r \in Ref
      PROVE  /\ r[1] \in Arrays /\ r = <<r[1], r[2]>>
             /\ r[2] <= bucketed[r[1]] <=> r[2] \in DOMAIN pairs[r[1]]
  <2>1. r = <<r[1], r[2]>> /\ r[1] \in Arrays /\ r[2] \in Nat /\ r[2] > 0
    BY RefsAre
  <2>2. pairs[r[1]] \in Seq(PairSet) /\ bucketed[r[1]] = Len(pairs[r[1]])
    BY <2>1 DEF IInv, Typed, Hanging, AllBucketed, Succeeded
  <2> QED
    BY <2>1, <2>2
<1>4. ASSUME NEW i \in DOMAIN pairs[a]
      PROVE  <<a, i>> \in Ref /\ pairs[a][i].state \in States
  <2>1. pairs[a] \in Seq(PairSet) /\ input[a] \in Seq(Inputs) /\ MaxPairs[a] \in Nat
    BY SizesAre DEF IInv, Typed
  <2>2. Len(pairs[a]) <= Len(input[a]) /\ Len(input[a]) <= MaxPairs[a]
    BY DEF IInv, Typed, Kept
  <2>3. i \in 1..MaxPairs[a]
    BY <2>1, <2>2
  <2>4. pairs[a][i] \in PairSet
    BY <2>1
  <2> QED
    BY <2>3, <2>4 DEF Ref, PairSet
<1>5. ASSUME NEW r \in Ref
      PROVE  /\ ListOf(r[1], PairOf(r)) = l <=>
                  r[1] = a /\ PairOf(r).key = k /\ PairOf(r).state # "KPAIR_INVALID"
             /\ ListOf(r[1], PairOf(r)) = n <=>
                  r[1] = a /\ PairOf(r).key = k /\ PairOf(r).state = "KPAIR_INVALID"
  <2>1. r[1] \in Arrays
    BY <1>3
  <2>2. CASE PairOf(r).state = "KPAIR_INVALID"
    <3>1. ListOf(r[1], PairOf(r)) = <<NMap[r[1]], PairOf(r).key>>
      BY <2>2 DEF ListOf
    <3> QED
      BY <1>2, <2>1, <2>2, <3>1
  <2>3. CASE PairOf(r).state # "KPAIR_INVALID"
    <3>1. ListOf(r[1], PairOf(r)) = <<Map[r[1]], PairOf(r).key>>
      BY <2>3 DEF ListOf
    <3> QED
      BY <1>2, <2>1, <2>3, <3>1
  <2> QED
    BY <2>2, <2>3
<1>6. /\ Members[l] = {r \in Ref : /\ r[2] <= bucketed[r[1]] /\ PairOf(r).key # keysz
                                   /\ ListOf(r[1], PairOf(r)) = l}
      /\ Members[n] = {r \in Ref : /\ r[2] <= bucketed[r[1]] /\ PairOf(r).key # keysz
                                   /\ ListOf(r[1], PairOf(r)) = n}
  BY <1>1 DEF Members
<1> HIDE DEF l, n
<1>7. Members[l] = Of(a, k, {"KPAIR_VALID", "KPAIR_UNCHECKED"})
  <2>1. ASSUME NEW r \in Members[l] PROVE r \in Of(a, k, {"KPAIR_VALID", "KPAIR_UNCHECKED"})
    <3>1. /\ r \in Ref /\ r[1] = a /\ r[2] \in DOMAIN pairs[a] /\ r = <<a, r[2]>>
          /\ pairs[a][r[2]].key = k /\ pairs[a][r[2]].state # "KPAIR_INVALID"
      BY <1>3, <1>5, <1>6 DEF PairOf
    <3>2. pairs[a][r[2]].state \in {"KPAIR_VALID", "KPAIR_UNCHECKED"}
      BY <1>4, <3>1 DEF States
    <3> QED
      BY <3>1, <3>2 DEF Of
  <2>2. ASSUME NEW r \in Of(a, k, {"KPAIR_VALID", "KPAIR_UNCHECKED"}) PROVE r \in Members[l]
    <3>1. PICK i \in DOMAIN pairs[a] :
            /\ r = <<a, i>> /\ pairs[a][i].key = k
            /\ pairs[a][i].state \in {"KPAIR_VALID", "KPAIR_UNCHECKED"}
      BY DEF Of
    <3>2. r \in Ref /\ r[1] = a /\ r[2] = i /\ PairOf(r) = pairs[a][i]
      BY <1>4, <3>1 DEF PairOf
    <3> QED
      BY <1>1, <1>3, <1>5, <1>6, <3>1, <3>2
  <2> QED
    BY <2>1, <2>2
<1>8. Members[n] = Of(a, k, {"KPAIR_INVALID"})
  <2>1. ASSUME NEW r \in Members[n] PROVE r \in Of(a, k, {"KPAIR_INVALID"})
    <3>1. /\ r \in Ref /\ r[1] = a /\ r[2] \in DOMAIN pairs[a] /\ r = <<a, r[2]>>
          /\ pairs[a][r[2]].key = k /\ pairs[a][r[2]].state = "KPAIR_INVALID"
      BY <1>3, <1>5, <1>6 DEF PairOf
    <3> QED
      BY <3>1 DEF Of
  <2>2. ASSUME NEW r \in Of(a, k, {"KPAIR_INVALID"}) PROVE r \in Members[n]
    <3>1. PICK i \in DOMAIN pairs[a] :
            r = <<a, i>> /\ pairs[a][i].key = k /\ pairs[a][i].state = "KPAIR_INVALID"
      BY DEF Of
    <3>2. r \in Ref /\ r[1] = a /\ r[2] = i /\ PairOf(r) = pairs[a][i]
      BY <1>4, <3>1 DEF PairOf
    <3> QED
      BY <1>1, <1>3, <1>5, <1>6, <3>1, <3>2
  <2> QED
    BY <2>1, <2>2
<1> QED
  BY <1>7, <1>8 DEF l, n

\* Every pair with a known key is in one list, that of its array, its key and its state,
\* a list of pairs that are not invalid has the last of the request first, and one of
\* invalid pairs ends, however many were invalidated (parent.c:362-397, kcgi.c:1110-1167).
THEOREM ListsHoldPairsHolds ==
  ASSUME RequestAssumption
  PROVE  RSpec => []ListsHoldPairs
<1>1. IInv => ListsHoldPairs
  <2> SUFFICES ASSUME IInv, Succeeded, NEW a \in Arrays, NEW k \in Keys
               PROVE  LET valid == Reach(map[<<Map[a], k>>])
                          invalid == Reach(map[<<NMap[a], k>>])
                      IN  /\ valid = Of(a, k, {"KPAIR_VALID", "KPAIR_UNCHECKED"})
                          /\ invalid = Of(a, k, {"KPAIR_INVALID"})
                          /\ \A r \in valid : next[r] # NULL => next[r][2] < r[2]
                          /\ \A r \in invalid : r \notin Reach(next[r])
    BY DEF ListsHoldPairs
  <2> DEFINE l == <<Map[a], k>>
             n == <<NMap[a], k>>
  <2>1. Shaped(map, next, Members, NULL)
    BY DEF IInv, Hanging, Succeeded
  <2>2. l \in Lists /\ n \in Lists /\ IsValidList(l)
    BY DEF Lists, Map, NMap, Range, Arrays, IsValidList
  <2>3. Reach(map[l]) = Members[l] /\ Reach(map[n]) = Members[n]
    BY <2>1, <2>2, ReachMembers
  <2>4. /\ Members[l] = Of(a, k, {"KPAIR_VALID", "KPAIR_UNCHECKED"})
        /\ Members[n] = Of(a, k, {"KPAIR_INVALID"})
    BY MembersAre
  <2>5. \A r \in Members[l] : next[r] # NULL => next[r][2] < r[2]
    BY <2>1, <2>2 DEF Shaped, IsShape
  <2>6. \A r \in Members[n] : r \notin Reach(next[r])
    <3>1. Members[n] \subseteq Ref
      BY <2>2 DEF Members
    <3> QED
      BY <2>1, <3>1, ReachLater
  <2> QED
    BY <2>3, <2>4, <2>5, <2>6
<1> QED
  BY <1>1, RequestInvariance, PTL

=============================================================================
