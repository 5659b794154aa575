-------------------------- MODULE RESTEngine_proofs --------------------------
(***************************************************************************)
(* The routes of the REST engine, for every set of callbacks, regular      *)
(* expressions and paths, every finite set of methods, and tables of any   *)
(* size: the callback that answers is one that lives, and stays the same   *)
(* when others come and go.  And the parameters of the calls: what a       *)
(* handler finds is what the client gave last, however it was written.     *)
(***************************************************************************)
EXTENDS RESTEngine, SequenceTheorems, FiniteSetTheorems, WellFoundedInduction, TLAPS

-----------------------------------------------------------------------------
(* The inductive invariant                                                 *)

\* The methods and the routes of the table.
RoutesInv ==
    /\ DOMAIN mCallbacks \subseteq Methods
    /\ \A m \in DOMAIN mCallbacks : mCallbacks[m] \in Seq(Routes)
    /\ memory \in [Callbacks -> {"new", "alive", "deleted"}]

\* All the routes of a method are among those that the application counts.
CountInv == \A m \in DOMAIN mCallbacks : Len(mCallbacks[m]) <= MaxRoutes

\* What a route points to is there.
AliveInv ==
    \A m \in DOMAIN mCallbacks : \A k \in 1 .. Len(mCallbacks[m]) :
        memory[mCallbacks[m][k].mpCallback] = "alive"

\* Under one method a callback has one route.
OnceInv ==
    \A m \in DOMAIN mCallbacks : \A j, k \in 1 .. Len(mCallbacks[m]) :
        mCallbacks[m][j].mpCallback = mCallbacks[m][k].mpCallback => j = k

TableInv == RoutesInv /\ CountInv /\ AliveInv /\ OnceInv

IInv == TableInv /\ NothingDeletedIsUsed

-----------------------------------------------------------------------------
(* Sequences of routes                                                     *)

\* Every non-empty set of numbers has a least element: Min is what it says.
LEMMA LeastNumber ==
    ASSUME NEW T, T \subseteq Nat, T # {}
    PROVE  Min(T) \in T /\ \A n \in T : Min(T) <= n
<1> DEFINE Below == OpToRel(<, Nat)
<1>1. IsWellFoundedOn(Below, Nat)
  BY NatLessThanWellFounded
<1>2. \A m, n \in Nat : m < n => <<m, n>> \in Below
  BY DEF OpToRel
<1> HIDE DEF Below
<1>3. PICK x \in T : \A y \in T : <<y, x>> \notin Below
  BY <1>1, WFMin
<1>4. \A y \in T : x <= y
  <2> SUFFICES ASSUME NEW y \in T PROVE x <= y
    OBVIOUS
  <2>1. ~(y < x) /\ x \in Nat /\ y \in Nat
    BY <1>2, <1>3
  <2> QED
    BY <2>1
<1> QED
  BY <1>4 DEF Min

\* The first element of a set of positions is found, whatever the set says.
LEMMA FirstPosition ==
    ASSUME NEW n \in Nat, NEW I, I \subseteq 1 .. n,
           NEW k, k = IF I # {} THEN Min(I) ELSE 0
    PROVE  /\ k = 0 <=> I = {}
           /\ k # 0 => k \in I /\ \A j \in I : k <= j
<1>1. CASE I = {}
  BY <1>1
<1>2. CASE I # {}
  <2>1. Min(I) \in I /\ \A j \in I : Min(I) <= j
    <3>1. I \subseteq Nat
      OBVIOUS
    <3> QED
      BY <1>2, <3>1, LeastNumber
  <2>2. Min(I) # 0
    BY <2>1
  <2> QED
    BY <1>2, <2>1, <2>2
<1> QED
  BY <1>1, <1>2

\* The route at a position is taken out, and those behind it move up.
LEMMA TakenOut ==
    ASSUME NEW s \in Seq(Routes), NEW i \in 1 .. Len(s)
    PROVE  /\ RemoveAt(s, i) \in Seq(Routes)
           /\ Len(RemoveAt(s, i)) = Len(s) - 1
           /\ \A k \in 1 .. Len(s) - 1 :
                  RemoveAt(s, i)[k] = IF k < i THEN s[k] ELSE s[k + 1]
<1> DEFINE n == Len(s)
           a == SubSeq(s, 1, i - 1)
           b == SubSeq(s, i + 1, n)
<1>1. n \in Nat /\ \A k \in 1 .. n : s[k] \in Routes
  BY LenProperties, ElementOfSeq
<1>2. RemoveAt(s, i) = a \o b
  BY DEF RemoveAt
<1> HIDE DEF n
<1>3. i \in Int /\ 1 <= i /\ i <= n
  BY <1>1 DEF n
<1>4. /\ a \in Seq(Routes) /\ Len(a) = i - 1
      /\ \A k \in 1 .. i - 1 : a[k] = s[k]
  <2> DEFINE e == i - 1
  <2>1. e \in Int /\ 1 \in Int /\ \A k \in 1 .. e : s[k] \in Routes
    BY <1>1, <1>3
  <2>2. /\ SubSeq(s, 1, e) \in Seq(Routes)
        /\ Len(SubSeq(s, 1, e)) = IF 1 <= e THEN e - 1 + 1 ELSE 0
        /\ \A k \in 1 .. e - 1 + 1 : SubSeq(s, 1, e)[k] = s[1 + k - 1]
    BY <2>1, SubSeqProperties
  <2>3. e - 1 + 1 = e /\ (~(1 <= e) => e = 0) /\ \A k \in 1 .. e : 1 + k - 1 = k
    BY <1>3
  <2> QED
    BY <2>2, <2>3
<1>5. /\ b \in Seq(Routes) /\ Len(b) = n - i
      /\ \A k \in 1 .. n - i : b[k] = s[i + k]
  <2> DEFINE f == i + 1
  <2>1. f \in Int /\ n \in Int /\ \A k \in f .. n : s[k] \in Routes
    BY <1>1, <1>3
  <2>2. /\ SubSeq(s, f, n) \in Seq(Routes)
        /\ Len(SubSeq(s, f, n)) = IF f <= n THEN n - f + 1 ELSE 0
        /\ \A k \in 1 .. n - f + 1 : SubSeq(s, f, n)[k] = s[f + k - 1]
    BY <2>1, SubSeqProperties
  <2>3. n - f + 1 = n - i /\ (~(f <= n) => n - i = 0)
        /\ \A k \in 1 .. n - i : f + k - 1 = i + k
    BY <1>1, <1>3
  <2> QED
    BY <2>2, <2>3
<1> HIDE DEF a, b
<1>6. /\ a \o b \in Seq(Routes) /\ Len(a \o b) = Len(a) + Len(b)
      /\ \A k \in 1 .. Len(a) + Len(b) :
             (a \o b)[k] = IF k <= Len(a) THEN a[k] ELSE b[k - Len(a)]
  BY <1>4, <1>5, ConcatProperties
<1>7. Len(a) + Len(b) = n - 1
  BY <1>1, <1>3, <1>4, <1>5
<1>8. ASSUME NEW k \in 1 .. n - 1
      PROVE  (a \o b)[k] = IF k < i THEN s[k] ELSE s[k + 1]
  <2>1. CASE k < i
    <3>1. k <= Len(a) /\ k \in 1 .. i - 1
      BY <1>3, <1>4, <2>1
    <3> QED
      BY <1>4, <1>6, <1>7, <2>1, <3>1
  <2>2. CASE ~(k < i)
    <3>1. ~(k <= Len(a)) /\ k - Len(a) = k - i + 1
      BY <1>3, <1>4, <2>2
    <3>2. k - i + 1 \in 1 .. n - i /\ i + (k - i + 1) = k + 1
      BY <1>1, <1>3, <2>2
    <3> QED
      BY <1>5, <1>6, <1>7, <2>2, <3>1, <3>2
  <2> QED
    BY <2>1, <2>2
<1> QED
  BY <1>2, <1>6, <1>7, <1>8 DEF n

Without(s, c) == RemoveFirstMatch(s, LAMBDA r : r.mpCallback = c)

\* A route to a callback is taken out if there is one.
LEMMA WithoutIs ==
    ASSUME NEW s \in Seq(Routes), NEW c, NEW t, t = Without(s, c)
    PROVE  \/ t = s /\ \A k \in 1 .. Len(s) : s[k].mpCallback # c
           \/ \E i \in 1 .. Len(s) : s[i].mpCallback = c /\ t = RemoveAt(s, i)
<1> DEFINE I == {i \in 1 .. Len(s) : s[i].mpCallback = c}
           k == IF I # {} THEN Min(I) ELSE 0
<1>1. t = IF \E i \in 1 .. Len(s) : s[i].mpCallback = c THEN RemoveAt(s, k) ELSE s
  BY DEF Without, RemoveFirstMatch, SelectInSeq
<1>2. Len(s) \in Nat /\ I \subseteq 1 .. Len(s)
  BY LenProperties
<1>3. CASE \E i \in 1 .. Len(s) : s[i].mpCallback = c
  <2>1. k \in I
    <3>1. I # {}
      BY <1>3
    <3> HIDE DEF I
    <3>2. k # 0 /\ (k # 0 => k \in I)
      BY <1>2, <3>1, FirstPosition
    <3> QED
      BY <3>2
  <2> QED
    BY <1>1, <1>3, <2>1
<1>4. CASE ~\E i \in 1 .. Len(s) : s[i].mpCallback = c
  BY <1>1, <1>4
<1> QED
  BY <1>3, <1>4

-----------------------------------------------------------------------------
(* What the table answers                                                  *)

\* The first of the routes that match is the one at k.
FirstMatch(s, path, k) ==
    /\ k \in 1 .. Len(s) /\ path \in s[k].uri
    /\ \A j \in 1 .. Len(s) : path \in s[j].uri => k <= j

\* An answer that is a callback is that of the first route that matches.
AnswersInv ==
    /\ \A m \in Methods : \A path : Answer(m, path) \in Callbacks =>
           /\ m \in DOMAIN mCallbacks
           /\ \E k : /\ FirstMatch(mCallbacks[m], path, k)
                     /\ Answer(m, path) = mCallbacks[m][k].mpCallback
    /\ \A m \in DOMAIN mCallbacks : \A path, k :
           FirstMatch(mCallbacks[m], path, k) => Answer(m, path) = mCallbacks[m][k].mpCallback

\* The loop of invoke() finds the first route that matches, if there is one.
LEMMA AnswersAre == TableInv => AnswersInv
<1> SUFFICES ASSUME TableInv PROVE AnswersInv
  OBVIOUS
<1> DEFINE I(m, path) == {i \in 1 .. Len(mCallbacks[m]) : path \in mCallbacks[m][i].uri}
           K(m, path) == IF I(m, path) # {} THEN Min(I(m, path)) ELSE 0
<1>1. \A m \in DOMAIN mCallbacks : \A path :
          Answer(m, path) = IF K(m, path) = 0 THEN "NotFound"
                            ELSE mCallbacks[m][K(m, path)].mpCallback
  BY DEF Answer, SelectInSeq
<1>2. \A m, path : m \notin DOMAIN mCallbacks => Answer(m, path) = "MethodNotAllowed"
  BY DEF Answer
<1>3. ASSUME NEW m \in DOMAIN mCallbacks, NEW path
      PROVE  /\ K(m, path) = 0 <=> I(m, path) = {}
             /\ K(m, path) # 0 => /\ K(m, path) \in I(m, path)
                                  /\ \A j \in I(m, path) : K(m, path) <= j
  <2> DEFINE J == I(m, path)
             n == Len(mCallbacks[m])
             k == K(m, path)
  <2>1. n \in Nat
    BY LenProperties DEF TableInv, RoutesInv
  <2>2. J \subseteq 1 .. n
    OBVIOUS
  <2>3. k = IF J # {} THEN Min(J) ELSE 0
    OBVIOUS
  <2> HIDE DEF J, n, k
  <2>4. /\ k = 0 <=> J = {}
        /\ k # 0 => k \in J /\ \A j \in J : k <= j
    BY <2>1, <2>2, <2>3, FirstPosition
  <2> QED
    BY <2>4 DEF J, k
<1> HIDE DEF K
<1>4. ASSUME NEW m \in Methods, NEW path, Answer(m, path) \in Callbacks
      PROVE  /\ m \in DOMAIN mCallbacks
             /\ \E k : /\ FirstMatch(mCallbacks[m], path, k)
                       /\ Answer(m, path) = mCallbacks[m][k].mpCallback
  <2>1. m \in DOMAIN mCallbacks
    BY <1>2, <1>4, AnswersAssumption
  <2>2. K(m, path) # 0
    BY <1>1, <1>4, <2>1, AnswersAssumption
  <2>3. FirstMatch(mCallbacks[m], path, K(m, path))
    BY <1>3, <2>1, <2>2 DEF FirstMatch
  <2> QED
    BY <1>1, <2>1, <2>2, <2>3
<1>5. ASSUME NEW m \in DOMAIN mCallbacks, NEW path, NEW k, FirstMatch(mCallbacks[m], path, k)
      PROVE  Answer(m, path) = mCallbacks[m][k].mpCallback
  <2>1. k \in I(m, path)
    BY <1>5 DEF FirstMatch
  <2>2. K(m, path) # 0
    BY <1>3, <2>1
  <2>3. K(m, path) \in I(m, path) /\ K(m, path) <= k
    BY <1>3, <2>1, <2>2
  <2>4. k <= K(m, path)
    BY <1>5, <2>3 DEF FirstMatch
  <2>5. Len(mCallbacks[m]) \in Nat
    BY LenProperties DEF TableInv, RoutesInv
  <2>6. k = K(m, path)
    BY <2>1, <2>3, <2>4, <2>5
  <2> QED
    BY <1>1, <2>2, <2>6
<1> QED
  BY <1>4, <1>5 DEF AnswersInv

-----------------------------------------------------------------------------
(* The invariant is kept                                                   *)

\* While the application counts less than MaxRoutes routes, no method has as many.
LEMMA RoomForRoute ==
    ASSUME TableInv, Cardinality(Table) < MaxRoutes, NEW m \in Methods
    PROVE  /\ RoutesOf(m) \in Seq(Routes)
           /\ Len(RoutesOf(m)) < MaxRoutes
<1>1. RoutesOf(m) \in Seq(Routes)
  BY EmptySeq DEF RoutesOf, TableInv, RoutesInv
<1> DEFINE n == Len(RoutesOf(m))
<1>2. n \in Nat /\ DOMAIN RoutesOf(m) = 1 .. n
  BY <1>1, LenProperties
<1> HIDE DEF n
<1>3. n < MaxRoutes
  <2> SUFFICES ASSUME n >= MaxRoutes PROVE FALSE
    BY <1>2, RoutesAssumption
  <2> DEFINE one == {m}
             numbers == 1 .. MaxRoutes
  <2>1. IsFiniteSet(numbers) /\ Cardinality(numbers) = MaxRoutes
    <3>1. 1 \in Int /\ MaxRoutes \in Int /\ MaxRoutes >= 0
      BY RoutesAssumption
    <3>2. /\ IsFiniteSet(1 .. MaxRoutes)
          /\ Cardinality(1 .. MaxRoutes) = IF 1 > MaxRoutes THEN 0 ELSE MaxRoutes - 1 + 1
      BY <3>1, FS_Interval
    <3> QED
      BY <3>1, <3>2
  <2>2. IsFiniteSet(one) /\ Cardinality(one) = 1
    BY FS_Singleton
  <2>3. one \X numbers \subseteq Table /\ Table \subseteq Methods \X numbers
    BY <1>2, RoutesAssumption DEF Table
  <2> HIDE DEF one, numbers
  <2>4. Cardinality(one \X numbers) = 1 * MaxRoutes
    BY <2>1, <2>2, FS_Product
  <2>5. IsFiniteSet(Table)
    <3>1. IsFiniteSet(Methods \X numbers)
      BY <2>1, MethodsAssumption, FS_Product
    <3> QED
      BY <2>3, <3>1, FS_Subset
  <2>6. Cardinality(one \X numbers) <= Cardinality(Table)
    BY <2>3, <2>5, FS_Subset
  <2>7. Cardinality(Table) \in Nat
    BY <2>5, FS_CardinalityType
  <2> QED
    BY <2>4, <2>6, <2>7, RoutesAssumption
<1> QED
  BY <1>1, <1>3 DEF n

\* The routes t of method m are those it had, s, and one to c behind them.
Longer(s, t, m, c) ==
    /\ s = RoutesOf(m)
    /\ Len(s) < MaxRoutes
    /\ \A k \in 1 .. Len(s) : s[k].mpCallback # c
    /\ t \in Seq(Routes)
    /\ Len(t) = Len(s) + 1
    /\ \A k \in 1 .. Len(s) : t[k] = s[k]
    /\ t[Len(s) + 1].mpCallback = c

\* What the table is after addCallBack().
LEMMA AddedIs ==
    ASSUME TableInv, NEW uri \in Uris, NEW m \in Methods, NEW c \in Callbacks,
           AddCallBack(uri, m, c)
    PROVE  /\ DOMAIN mCallbacks' = DOMAIN mCallbacks \cup {m}
           /\ \A n \in DOMAIN mCallbacks : n # m => mCallbacks'[n] = mCallbacks[n]
           /\ \E s \in Seq(Routes) : Longer(s, mCallbacks'[m], m, c)
<1> DEFINE s == RoutesOf(m)
           r == [uri |-> uri, mpCallback |-> c]
           t == Append(s, r)
<1>1. MayAdd(m, c) /\ mCallbacks' = With(m, t)
  BY DEF AddCallBack
<1>2. s \in Seq(Routes) /\ Len(s) < MaxRoutes
  BY <1>1, RoomForRoute DEF MayAdd
<1>3. r \in Routes
  BY DEF Routes
<1>4. s = RoutesOf(m)
  OBVIOUS
<1>5. \A k \in 1 .. Len(s) : s[k].mpCallback # c
  <2> SUFFICES ASSUME NEW k \in 1 .. Len(s), s[k].mpCallback = c PROVE FALSE
    OBVIOUS
  <2>1. DOMAIN s = 1 .. Len(s) /\ Len(s) \in Nat
    BY <1>2, LenProperties
  <2> HIDE DEF s
  <2>2. k \in DOMAIN s /\ k \in 1 .. MaxRoutes
    BY <1>2, <2>1, RoutesAssumption
  <2>3. <<m, k>> \in Uses(c)
    BY <2>2 DEF Uses, Table, s
  <2> QED
    BY <1>1, <2>3 DEF MayAdd
<1> HIDE DEF s, r
<1>6. /\ t \in Seq(Routes) /\ Len(t) = Len(s) + 1
      /\ (\A k \in 1 .. Len(s) : t[k] = s[k]) /\ t[Len(s) + 1] = r
  BY <1>2, <1>3, AppendProperties
<1> HIDE DEF t
<1>7. /\ DOMAIN mCallbacks' = DOMAIN mCallbacks \cup {m}
      /\ mCallbacks'[m] = t
      /\ \A n \in DOMAIN mCallbacks : n # m => mCallbacks'[n] = mCallbacks[n]
  BY <1>1 DEF With
<1>8. r.mpCallback = c
  BY DEF r
<1>9. Longer(s, t, m, c)
  BY <1>2, <1>4, <1>5, <1>6, <1>8 DEF Longer
<1> QED
  BY <1>2, <1>7, <1>9

\* What the table is after removeCallBack().
LEMMA RemovedIs ==
    ASSUME TableInv, NEW c \in Callbacks, RemoveCallBack(c)
    PROVE  /\ DOMAIN mCallbacks' = DOMAIN mCallbacks
           /\ \A m \in DOMAIN mCallbacks :
                 \/ /\ mCallbacks'[m] = mCallbacks[m]
                    /\ \A k \in 1 .. Len(mCallbacks[m]) : mCallbacks[m][k].mpCallback # c
                 \/ \E i \in 1 .. Len(mCallbacks[m]) :
                       /\ mCallbacks[m][i].mpCallback = c
                       /\ mCallbacks'[m] = RemoveAt(mCallbacks[m], i)
<1>1. mCallbacks' = WithoutFirst(c)
  BY DEF RemoveCallBack
<1>2. DOMAIN mCallbacks' = DOMAIN mCallbacks
  BY <1>1 DEF WithoutFirst
<1>3. ASSUME NEW m \in DOMAIN mCallbacks
      PROVE  mCallbacks'[m] = Without(mCallbacks[m], c)
  BY <1>1 DEF WithoutFirst, Without
<1>4. ASSUME NEW m \in DOMAIN mCallbacks
      PROVE  \/ /\ mCallbacks'[m] = mCallbacks[m]
                /\ \A k \in 1 .. Len(mCallbacks[m]) : mCallbacks[m][k].mpCallback # c
             \/ \E i \in 1 .. Len(mCallbacks[m]) :
                   /\ mCallbacks[m][i].mpCallback = c
                   /\ mCallbacks'[m] = RemoveAt(mCallbacks[m], i)
  <2>1. mCallbacks[m] \in Seq(Routes)
    BY DEF TableInv, RoutesInv
  <2> QED
    BY <1>3, <2>1, WithoutIs
<1> QED
  BY <1>2, <1>4

\* A route that is added leaves those that were there, and its callback lives.
LEMMA AddKeeps ==
    ASSUME IInv, NEW uri \in Uris, NEW m \in Methods, NEW c \in Callbacks,
           AddCallBack(uri, m, c)
    PROVE  IInv'
<1>0. TableInv
  BY DEF IInv
<1>1. RoutesInv /\ CountInv /\ AliveInv /\ OnceInv /\ NothingDeletedIsUsed
  BY DEF IInv, TableInv
<1>2. /\ DOMAIN mCallbacks' = DOMAIN mCallbacks \cup {m}
      /\ \A n \in DOMAIN mCallbacks : n # m => mCallbacks'[n] = mCallbacks[n]
  BY AddedIs DEF IInv
<1>3. PICK s \in Seq(Routes) : Longer(s, mCallbacks'[m], m, c)
  BY <1>0, AddedIs
<1> DEFINE l == Len(s)
           t == mCallbacks'[m]
<1>4. l \in Nat /\ l < MaxRoutes /\ (m \notin DOMAIN mCallbacks => l = 0)
  BY <1>3, LenProperties, EmptySeq DEF Longer, RoutesOf
<1>5. /\ memory' = [memory EXCEPT ![c] = "alive"] /\ crashed' = crashed
  BY DEF AddCallBack
<1>6. /\ t \in Seq(Routes) /\ Len(t) = l + 1
      /\ \A k \in 1 .. l : t[k] = s[k] /\ s[k].mpCallback # c
      /\ t[l + 1].mpCallback = c
  BY <1>3 DEF Longer
<1>7. \A k \in 1 .. l : /\ m \in DOMAIN mCallbacks /\ s = mCallbacks[m]
                        /\ l = Len(mCallbacks[m])
  BY <1>3, <1>4 DEF Longer, RoutesOf
<1> HIDE DEF l, t
<1>8. RoutesInv'
  BY <1>1, <1>2, <1>5, <1>6 DEF RoutesInv, t
<1>9. CountInv'
  <2>1. Len(t) <= MaxRoutes
    BY <1>4, <1>6, RoutesAssumption
  <2> QED
    BY <1>1, <1>2, <2>1 DEF CountInv, t
<1>10. ASSUME NEW n \in DOMAIN mCallbacks', NEW k \in 1 .. Len(mCallbacks'[n])
       PROVE  memory'[mCallbacks'[n][k].mpCallback] = "alive"
  <2>1. mCallbacks'[n][k] \in Routes
    BY <1>8, <1>10, ElementOfSeq DEF RoutesInv
  <2>2. \A d \in Callbacks : memory[d] = "alive" => memory'[d] = "alive"
    BY <1>1, <1>5 DEF RoutesInv
  <2>3. memory'[c] = "alive"
    BY <1>1, <1>5 DEF RoutesInv
  <2>4. CASE n # m
    BY <1>1, <1>2, <2>1, <2>2, <2>4 DEF AliveInv, Routes
  <2>5. CASE n = m
    <3>1. k \in 1 .. l \/ k = l + 1
      BY <1>4, <1>6, <2>5 DEF t
    <3>2. CASE k \in 1 .. l
      BY <1>1, <1>6, <1>7, <2>1, <2>2, <2>5, <3>2 DEF AliveInv, Routes, t
    <3>3. CASE k = l + 1
      BY <1>6, <2>3, <2>5, <3>3 DEF t
    <3> QED
      BY <3>1, <3>2, <3>3
  <2> QED
    BY <2>4, <2>5
<1>11. ASSUME NEW n \in DOMAIN mCallbacks',
              NEW j \in 1 .. Len(mCallbacks'[n]), NEW k \in 1 .. Len(mCallbacks'[n]),
              mCallbacks'[n][j].mpCallback = mCallbacks'[n][k].mpCallback
       PROVE  j = k
  <2>1. CASE n # m
    BY <1>1, <1>2, <1>11, <2>1 DEF OnceInv
  <2>2. CASE n = m
    <3>1. /\ j \in 1 .. l \/ j = l + 1
          /\ k \in 1 .. l \/ k = l + 1
      BY <1>4, <1>6, <2>2 DEF t
    <3>2. t[j].mpCallback = t[k].mpCallback
      BY <1>11, <2>2 DEF t
    <3>3. CASE j \in 1 .. l /\ k \in 1 .. l
      BY <1>1, <1>6, <1>7, <3>2, <3>3 DEF OnceInv
    <3> QED
      BY <1>6, <3>1, <3>2, <3>3
  <2> QED
    BY <2>1, <2>2
<1>12. AliveInv' /\ OnceInv'
  BY <1>10, <1>11 DEF AliveInv, OnceInv
<1> QED
  BY <1>1, <1>5, <1>8, <1>9, <1>12 DEF IInv, TableInv, NothingDeletedIsUsed

\* No route is left to the callback that is deleted.
LEMMA RemoveKeeps ==
    ASSUME IInv, NEW c \in Callbacks, RemoveCallBack(c)
    PROVE  IInv'
<1>1. RoutesInv /\ CountInv /\ AliveInv /\ OnceInv /\ NothingDeletedIsUsed
  BY DEF IInv, TableInv
<1>2. DOMAIN mCallbacks' = DOMAIN mCallbacks
  BY RemovedIs DEF IInv
<1>3. memory' = [memory EXCEPT ![c] = "deleted"] /\ crashed' = crashed
  BY DEF RemoveCallBack
<1>4. ASSUME NEW m \in DOMAIN mCallbacks
      PROVE  /\ mCallbacks'[m] \in Seq(Routes)
             /\ Len(mCallbacks'[m]) <= MaxRoutes
             /\ \A k \in 1 .. Len(mCallbacks'[m]) :
                    memory'[mCallbacks'[m][k].mpCallback] = "alive"
             /\ \A j, k \in 1 .. Len(mCallbacks'[m]) :
                    mCallbacks'[m][j].mpCallback = mCallbacks'[m][k].mpCallback => j = k
  <2> DEFINE s == mCallbacks[m]
             t == mCallbacks'[m]
             n == Len(s)
  <2>1. s \in Seq(Routes) /\ n \in Nat /\ n <= MaxRoutes
    BY <1>1, LenProperties DEF RoutesInv, CountInv
  <2>2. \A k \in 1 .. n : /\ s[k].mpCallback \in Callbacks
                          /\ memory[s[k].mpCallback] = "alive"
    <3>1. \A k \in 1 .. n : s[k] \in Routes
      BY <2>1, ElementOfSeq
    <3> QED
      BY <1>1, <3>1 DEF AliveInv, Routes
  <2>3. \A j, k \in 1 .. n : s[j].mpCallback = s[k].mpCallback => j = k
    BY <1>1 DEF OnceInv
  <2>4. \/ t = s /\ \A k \in 1 .. n : s[k].mpCallback # c
        \/ \E i \in 1 .. n : s[i].mpCallback = c /\ t = RemoveAt(s, i)
    BY RemovedIs DEF IInv
  <2>5. \A d \in Callbacks : d # c => memory'[d] = memory[d]
    BY <1>1, <1>3 DEF RoutesInv
  <2> SUFFICES /\ t \in Seq(Routes) /\ Len(t) <= MaxRoutes
               /\ \A k \in 1 .. Len(t) : memory'[t[k].mpCallback] = "alive"
               /\ \A j, k \in 1 .. Len(t) : t[j].mpCallback = t[k].mpCallback => j = k
    OBVIOUS
  <2> HIDE DEF s, t
  <2>6. CASE t = s /\ \A k \in 1 .. n : s[k].mpCallback # c
    BY <2>1, <2>2, <2>3, <2>5, <2>6
  <2>7. CASE \E i \in 1 .. n : s[i].mpCallback = c /\ t = RemoveAt(s, i)
    <3>1. PICK i \in 1 .. n : s[i].mpCallback = c /\ t = RemoveAt(s, i)
      BY <2>7
    <3>2. /\ t \in Seq(Routes) /\ Len(t) = n - 1
          /\ \A k \in 1 .. n - 1 : t[k] = IF k < i THEN s[k] ELSE s[k + 1]
      BY <2>1, <3>1, TakenOut
    <3> HIDE DEF n
    <3>3. \A k \in 1 .. n - 1 : k \in 1 .. n /\ k + 1 \in 1 .. n
      BY <2>1
    <3>4. \A k \in 1 .. n - 1 : t[k].mpCallback # c
      BY <2>1, <2>3, <3>1, <3>2, <3>3, SMTT(20)
    <3>5. \A k \in 1 .. n - 1 : memory'[t[k].mpCallback] = "alive"
      BY <2>2, <2>5, <3>2, <3>3, <3>4
    <3>6. \A j, k \in 1 .. n - 1 : t[j].mpCallback = t[k].mpCallback => j = k
      <4> SUFFICES ASSUME NEW j \in 1 .. n - 1, NEW k \in 1 .. n - 1,
                          t[j].mpCallback = t[k].mpCallback
                   PROVE  j = k
        OBVIOUS
      <4> DEFINE J == IF j < i THEN j ELSE j + 1
                 K == IF k < i THEN k ELSE k + 1
      <4>1. J \in 1 .. n /\ K \in 1 .. n /\ t[j] = s[J] /\ t[k] = s[K]
        BY <3>2, <3>3
      <4>2. J = K => j = k
        BY <2>1
      <4> HIDE DEF J, K
      <4>3. J = K
        BY <2>3, <4>1
      <4> QED
        BY <4>2, <4>3
    <3>7. n - 1 <= MaxRoutes
      BY <2>1, RoutesAssumption
    <3> QED
      BY <3>2, <3>5, <3>6, <3>7
  <2> QED
    BY <2>4, <2>6, <2>7
<1>5. RoutesInv'
  BY <1>1, <1>2, <1>3, <1>4 DEF RoutesInv
<1>6. CountInv' /\ AliveInv' /\ OnceInv'
  BY <1>2, <1>4 DEF CountInv, AliveInv, OnceInv
<1> QED
  BY <1>1, <1>3, <1>5, <1>6 DEF IInv, TableInv, NothingDeletedIsUsed

\* What the destructor deletes is there, once.
LEMMA DestroyKeeps ==
    ASSUME IInv, Destroy
    PROVE  IInv'
<1>1. RoutesInv /\ AliveInv /\ NothingDeletedIsUsed
  BY DEF IInv, TableInv
<1>2. ASSUME NEW c \in Callbacks, NEW at \in Uses(c) PROVE memory[c] = "alive"
  <2> DEFINE m == at[1]
             k == at[2]
  <2>1. k \in DOMAIN RoutesOf(m) /\ RoutesOf(m)[k].mpCallback = c
    BY <1>2 DEF Uses, Table
  <2>2. m \in DOMAIN mCallbacks /\ RoutesOf(m) = mCallbacks[m]
    <3>1. DOMAIN <<>> = {}
      OBVIOUS
    <3> QED
      BY <2>1, <3>1 DEF RoutesOf
  <2>3. k \in 1 .. Len(mCallbacks[m])
    BY <1>1, <2>1, <2>2, LenProperties DEF RoutesInv
  <2> QED
    BY <1>1, <2>1, <2>2, <2>3 DEF AliveInv
<1>3. \A c \in Callbacks : Uses(c) # {} => memory[c] = "alive"
  BY <1>2
<1>4. /\ memory' = [c \in Callbacks |-> IF Uses(c) # {} THEN "deleted" ELSE memory[c]]
      /\ mCallbacks' = <<>> /\ crashed' = crashed
  BY <1>3 DEF Destroy
<1>5. DOMAIN mCallbacks' = {}
  BY <1>4
<1>6. memory' \in [Callbacks -> {"new", "alive", "deleted"}]
  BY <1>1, <1>4 DEF RoutesInv
<1> QED
  BY <1>1, <1>4, <1>5, <1>6
  DEF IInv, TableInv, RoutesInv, CountInv, AliveInv, OnceInv, NothingDeletedIsUsed

\* The callback that is called lives.
LEMMA InvokeKeeps ==
    ASSUME IInv, NEW t, NEW m \in Methods, NEW path, NEW pairs, NEW text,
           Invoke(t, m, path, pairs, text)
    PROVE  UNCHANGED <<mCallbacks, memory, crashed>>
<1> DEFINE c == Answer(m, PathOf(path \o text))
<1>1. c \in Callbacks
  BY DEF Invoke
<1>2. memory[c] = "alive"
  <2>1. AnswersInv
    BY AnswersAre DEF IInv
  <2>2. /\ m \in DOMAIN mCallbacks
        /\ \E k \in 1 .. Len(mCallbacks[m]) : c = mCallbacks[m][k].mpCallback
    BY <1>1, <2>1 DEF AnswersInv, FirstMatch
  <2> QED
    BY <2>2 DEF IInv, TableInv, AliveInv
<1> QED
  BY <1>2 DEF Invoke

\* A step that leaves the table and the callbacks alone keeps the invariant.
LEMMA StutterKeeps == ASSUME IInv, UNCHANGED <<mCallbacks, memory, crashed>> PROVE IInv'
BY DEF IInv, TableInv, RoutesInv, CountInv, AliveInv, OnceInv, NothingDeletedIsUsed

\* What a step may be, for the table.
LEMMA TableSteps ==
    ASSUME IInv, [Next]_vars
    PROVE  \/ \E c \in Callbacks : RemoveCallBack(c)
           \/ \E c \in Callbacks, uri \in Uris, m \in Methods : AddCallBack(uri, m, c)
           \/ Destroy
           \/ UNCHANGED <<mCallbacks, memory, crashed>>
<1>1. ASSUME NEW t \in Threads, Return(t) PROVE UNCHANGED <<mCallbacks, memory, crashed>>
  BY <1>1 DEF Return
<1>2. ASSUME UNCHANGED vars PROVE UNCHANGED <<mCallbacks, memory, crashed>>
  BY <1>2 DEF vars
<1> QED
  BY <1>1, <1>2, InvokeKeeps DEF Next

\* Every step keeps the invariant.
LEMMA NextIInv == ASSUME IInv, [Next]_vars PROVE IInv'
BY TableSteps, AddKeeps, RemoveKeeps, DestroyKeeps, StutterKeeps

\* The table of a new engine is empty.
LEMMA InitIInv == Init => IInv
<1> SUFFICES ASSUME Init PROVE IInv
  OBVIOUS
<1>1. DOMAIN mCallbacks = {}
  BY DEF Init
<1> QED
  BY <1>1 DEF Init, IInv, TableInv, RoutesInv, CountInv, AliveInv, OnceInv,
              NothingDeletedIsUsed

\* Every route of the table leads to a callback that lives, and a callback has one
\* route under a method, whatever is added and removed.
THEOREM Invariance == Spec => []IInv
<1>1. IInv /\ [Next]_vars => IInv'
  BY NextIInv
<1> QED
  BY <1>1, InitIInv, PTL DEF Spec

\* No call goes to a callback that was deleted, and none is deleted twice.
THEOREM DeletedCallbacksAreNotUsed == Spec => []NothingDeletedIsUsed
<1>1. IInv => NothingDeletedIsUsed
  BY DEF IInv
<1> QED
  BY <1>1, Invariance, PTL

-----------------------------------------------------------------------------
(* Who answers                                                             *)

\* A route behind those of a method takes nothing over from them.
LEMMA AddedIsLast ==
    ASSUME IInv, IInv', NEW uri \in Uris, NEW n \in Methods, NEW c \in Callbacks,
           AddCallBack(uri, n, c),
           NEW m \in Methods, NEW path, Answer(m, path) \in Callbacks
    PROVE  Answer(m, path)' = Answer(m, path)
<1>1. AnswersInv /\ AnswersInv'
  BY AnswersAre, PTL DEF IInv
<1>2. PICK k : /\ m \in DOMAIN mCallbacks
               /\ FirstMatch(mCallbacks[m], path, k)
               /\ Answer(m, path) = mCallbacks[m][k].mpCallback
  BY <1>1 DEF AnswersInv
<1>3. m \in DOMAIN mCallbacks'
  BY <1>2, AddedIs DEF IInv
<1>4. /\ FirstMatch(mCallbacks'[m], path, k)
      /\ mCallbacks'[m][k] = mCallbacks[m][k]
  <2>1. CASE m # n
    <3>1. mCallbacks'[m] = mCallbacks[m]
      BY <1>2, <2>1, AddedIs DEF IInv
    <3> QED
      BY <1>2, <3>1
  <2>2. CASE m = n
    <3> DEFINE s == mCallbacks[m]
               t == mCallbacks'[m]
               l == Len(s)
    <3>1. Len(t) = l + 1 /\ \A j \in 1 .. l : t[j] = s[j]
      <4>1. PICK r \in Seq(Routes) : Longer(r, mCallbacks'[n], n, c)
        BY AddedIs DEF IInv
      <4>2. r = s
        BY <1>2, <2>2, <4>1 DEF Longer, RoutesOf
      <4> QED
        BY <2>2, <4>1, <4>2 DEF Longer
    <3>2. l \in Nat
      BY <1>2, LenProperties DEF IInv, TableInv, RoutesInv
    <3>3. FirstMatch(s, path, k)
      BY <1>2
    <3> HIDE DEF s, t
    <3>4. FirstMatch(t, path, k) /\ t[k] = s[k]
      BY <3>1, <3>2, <3>3 DEF FirstMatch
    <3> QED
      BY <3>4 DEF s, t
  <2> QED
    BY <2>1, <2>2
<1>5. Answer(m, path)' = mCallbacks'[m][k].mpCallback
  BY <1>1, <1>3, <1>4 DEF AnswersInv
<1> QED
  BY <1>2, <1>4, <1>5

\* A route that is taken out changes no answer but its own.
LEMMA RemovedIsGone ==
    ASSUME IInv, IInv', NEW c \in Callbacks, RemoveCallBack(c),
           NEW m \in Methods, NEW path, Answer(m, path) \in Callbacks, Answer(m, path) # c
    PROVE  Answer(m, path)' = Answer(m, path)
<1>1. AnswersInv /\ AnswersInv'
  BY AnswersAre, PTL DEF IInv
<1>2. PICK k : /\ m \in DOMAIN mCallbacks
               /\ FirstMatch(mCallbacks[m], path, k)
               /\ Answer(m, path) = mCallbacks[m][k].mpCallback
  BY <1>1 DEF AnswersInv
<1>3. m \in DOMAIN mCallbacks'
  BY <1>2, RemovedIs DEF IInv
<1> DEFINE s == mCallbacks[m]
           t == mCallbacks'[m]
           l == Len(s)
<1>4. s \in Seq(Routes) /\ l \in Nat
  BY <1>2, LenProperties DEF IInv, TableInv, RoutesInv
<1>5. t = s \/ \E i \in 1 .. l : s[i].mpCallback = c /\ t = RemoveAt(s, i)
  BY <1>2, RemovedIs DEF IInv
<1>6. FirstMatch(s, path, k) /\ s[k].mpCallback # c
  BY <1>2
<1> SUFFICES \E j : FirstMatch(t, path, j) /\ t[j] = s[k]
  BY <1>1, <1>2, <1>3 DEF AnswersInv
<1> HIDE DEF s, t
<1>7. ASSUME NEW i \in 1 .. l, s[i].mpCallback = c, t = RemoveAt(s, i)
      PROVE  \E j : FirstMatch(t, path, j) /\ t[j] = s[k]
  <2>1. /\ Len(t) = l - 1
        /\ \A j \in 1 .. l - 1 : t[j] = IF j < i THEN s[j] ELSE s[j + 1]
    BY <1>4, <1>7, TakenOut
  <2>2. /\ k \in 1 .. l /\ k # i /\ path \in s[k].uri
        /\ \A j \in 1 .. l : path \in s[j].uri => k <= j
    BY <1>6, <1>7 DEF FirstMatch
  <2> HIDE DEF l
  <2> DEFINE at == IF k < i THEN k ELSE k - 1
  <2>3. at \in 1 .. l - 1 /\ t[at] = s[k]
    BY <1>4, <2>1, <2>2
  <2>4. ASSUME NEW j \in 1 .. l - 1, path \in t[j].uri PROVE at <= j
    <3>1. CASE j < i
      <4>1. j \in 1 .. l /\ t[j] = s[j]
        BY <1>4, <2>1, <3>1
      <4>2. k <= j
        BY <2>2, <2>4, <4>1
      <4> QED
        BY <1>4, <2>2, <4>2
    <3>2. CASE ~(j < i)
      <4>1. j + 1 \in 1 .. l /\ t[j] = s[j + 1]
        BY <1>4, <2>1, <3>2
      <4>2. k <= j + 1
        BY <2>2, <2>4, <4>1
      <4> QED
        BY <1>4, <2>2, <3>2, <4>2
    <3> QED
      BY <3>1, <3>2
  <2>5. FirstMatch(t, path, at)
    BY <2>1, <2>2, <2>3, <2>4 DEF FirstMatch
  <2> QED
    BY <2>3, <2>5
<1> QED
  BY <1>5, <1>6, <1>7

\* One step of the engine, for one method and one path.
LEMMA AnswerStep ==
    ASSUME IInv, IInv', [Next]_vars, engine',
           NEW m \in Methods, NEW path, Answer(m, path) \in Callbacks
    PROVE  Answer(m, path)' = Answer(m, path) \/ memory'[Answer(m, path)] = "deleted"
<1> DEFINE d == Answer(m, path)
<1>1. memory \in [Callbacks -> {"new", "alive", "deleted"}]
  BY DEF IInv, TableInv, RoutesInv
<1>2. ASSUME NEW c \in Callbacks, RemoveCallBack(c), c = Answer(m, path)
      PROVE  memory'[Answer(m, path)] = "deleted"
  BY <1>1, <1>2 DEF RemoveCallBack
<1>3. ASSUME Destroy PROVE FALSE
  <2>1. crashed' \/ ~engine'
    BY <1>3 DEF Destroy, Crash
  <2> QED
    BY <2>1 DEF IInv, NothingDeletedIsUsed
<1>4. ASSUME UNCHANGED mCallbacks PROVE Answer(m, path)' = Answer(m, path)
  BY <1>4 DEF Answer, SelectInSeq
<1> QED
  BY <1>2, <1>3, <1>4, TableSteps, AddedIsLast, RemovedIsGone

\* The callback that answers a path changes only when it is deleted, for as long as
\* the engine is there.
THEOREM AnswersStayTheSame == Spec => AnswersAreStable
<1>1. IInv /\ IInv' /\ [Next]_vars =>
         [engine' => \A m \in Methods, path \in Paths :
              Answer(m, path) \in Callbacks =>
                  \/ Answer(m, path)' = Answer(m, path)
                  \/ memory'[Answer(m, path)] = "deleted"]_vars
  BY AnswerStep
<1> QED
  BY <1>1, Invariance, PTL DEF Spec, AnswersAreStable

-----------------------------------------------------------------------------
(* Texts                                                                   *)

\* What is true of 0, and of a number if it is of the one before, is true of all.
LEMMA SetInduction ==
    ASSUME NEW S, 0 \in S, \A n \in Nat : n \in S => n + 1 \in S
    PROVE  \A n \in Nat : n \in S
<1> SUFFICES ASSUME NEW n \in Nat, n \notin S PROVE FALSE
  OBVIOUS
<1> DEFINE T == {m \in Nat : m \notin S}
<1>1. T \subseteq Nat /\ T # {}
  OBVIOUS
<1>2. Min(T) \in T /\ \A m \in T : Min(T) <= m
  <2> HIDE DEF T
  <2> QED
    BY <1>1, LeastNumber
<1>3. PICK m : m \in Nat /\ m \notin S /\ \A k \in Nat : k < m => k \in S
  <2>1. \A k \in Nat : k < Min(T) => k \in S
    BY <1>2
  <2> QED
    BY <1>2, <2>1
<1>4. m # 0 /\ m - 1 \in Nat /\ m - 1 < m /\ (m - 1) + 1 = m
  BY <1>3
<1> QED
  BY <1>3, <1>4

\* The characters that mean something are different.
LEMMA CharactersAreDifferent ==
    /\ And \notin {Equals, Question, Blank, LineEnd}
    /\ Equals \notin {Question, Blank, LineEnd}
    /\ Question \notin {Blank, LineEnd}
    /\ Blank # LineEnd
BY Zenon DEF And, Equals, Question, Blank, LineEnd

\* What a word is made of, the text of a query, and a request.
Plain == STRING \ {And, Equals, Blank, LineEnd}
InLine == Plain \cup {And, Equals}
Characters == STRING \cup {And, Equals, Question, Blank, LineEnd}

\* A word has no separator, and the text of a query is in one line.
LEMMA PlainIsInLine ==
    /\ Plain \subseteq InLine /\ Plain \subseteq Characters /\ InLine \subseteq Characters
    /\ And \in InLine /\ Equals \in InLine /\ LineEnd \in Characters
    /\ \A c \in Plain : c # And /\ c # Equals /\ c # LineEnd /\ c # Blank
    /\ \A c \in InLine : c # LineEnd /\ c # Blank
<1>1. Plain \subseteq InLine /\ Plain \subseteq Characters /\ InLine \subseteq Characters
      /\ And \in InLine /\ Equals \in InLine /\ LineEnd \in Characters
  BY DEF Plain, InLine, Characters
<1>2. \A c \in Plain : c # And /\ c # Equals /\ c # LineEnd /\ c # Blank
  BY DEF Plain
<1> QED
  BY <1>1, <1>2, CharactersAreDifferent DEF InLine

\* The sequences of a part of the characters are texts.
LEMMA SeqOfPart ==
    ASSUME NEW S, NEW T, S \subseteq T, NEW s \in Seq(S)
    PROVE  s \in Seq(T)
OBVIOUS

\* One character more.
LEMMA OneMore ==
    ASSUME NEW S, NEW t \in Seq(S), NEW c \in S
    PROVE  /\ t \o <<c>> \in Seq(S) /\ Len(t \o <<c>>) = Len(t) + 1
           /\ \A k \in 1 .. Len(t) : (t \o <<c>>)[k] = t[k]
           /\ (t \o <<c>>)[Len(t) + 1] = c
<1>1. PICK n \in Nat : n = Len(t)
  BY LenProperties
<1>2. <<c>> \in Seq(S) /\ Len(<<c>>) = 1 /\ <<c>>[1] = c
  OBVIOUS
<1>3. /\ t \o <<c>> \in Seq(S) /\ Len(t \o <<c>>) = n + 1
      /\ \A i \in 1 .. n + 1 : (t \o <<c>>)[i] = IF i <= n THEN t[i] ELSE <<c>>[i - n]
  BY <1>1, <1>2, ConcatProperties
<1>4. (n + 1) - n = 1 /\ ~(n + 1 <= n) /\ n + 1 \in 1 .. n + 1
      /\ \A k \in 1 .. n : k \in 1 .. n + 1 /\ k <= n
  OBVIOUS
<1> QED
  BY <1>1, <1>2, <1>3, <1>4

-----------------------------------------------------------------------------
(* The loop of RESTParameters::RESTParameters                              *)

\* f gives what the first n characters of t leave.
ReadsTo(t, registered, n, f) ==
    f = [k \in 0 .. n |-> IF k = 0 THEN Start ELSE Read(f[k - 1], t[k], registered)]

\* A solution for n characters gives one for n + 1.
LEMMA ReadsStep ==
    ASSUME NEW t, NEW registered, NEW n \in Nat, NEW f, ReadsTo(t, registered, n, f)
    PROVE  \E g : ReadsTo(t, registered, n + 1, g)
<1> DEFINE last == Read(f[n], t[n + 1], registered)
           g == [k \in 0 .. n + 1 |-> IF k = n + 1 THEN last ELSE f[k]]
<1>1. \A k \in 0 .. n : f[k] = IF k = 0 THEN Start ELSE Read(f[k - 1], t[k], registered)
  BY DEF ReadsTo
<1>2. \A k \in 0 .. n : g[k] = f[k] /\ k # n + 1
  OBVIOUS
<1>3. g[n + 1] = last
  OBVIOUS
<1>4. \A k \in 0 .. n + 1 : g[k] = IF k = 0 THEN Start ELSE Read(g[k - 1], t[k], registered)
  <2> SUFFICES ASSUME NEW k \in 0 .. n + 1
               PROVE  g[k] = IF k = 0 THEN Start ELSE Read(g[k - 1], t[k], registered)
    OBVIOUS
  <2> HIDE DEF last, g
  <2>1. CASE k = n + 1
    <3>1. k # 0 /\ k - 1 = n /\ n \in 0 .. n
      BY <2>1
    <3>2. g[k - 1] = f[n]
      BY <1>2, <3>1
    <3>3. g[k] = Read(f[n], t[k], registered)
      BY <1>3, <2>1 DEF last
    <3> QED
      BY <3>1, <3>2, <3>3
  <2>2. CASE k # n + 1
    <3>1. k \in 0 .. n /\ (k # 0 => k - 1 \in 0 .. n)
      BY <2>2
    <3>2. g[k] = f[k] /\ (k # 0 => g[k - 1] = f[k - 1])
      BY <1>2, <3>1
    <3> QED
      BY <1>1, <3>1, <3>2
  <2> QED
    BY <2>1, <2>2
<1>5. g = [k \in 0 .. n + 1 |-> g[k]]
  OBVIOUS
<1> HIDE DEF g
<1>6. ReadsTo(t, registered, n + 1, g)
  BY <1>4, <1>5 DEF ReadsTo
<1> QED
  BY <1>6

\* There is a solution for any number of characters.
LEMMA ReadsExist ==
    ASSUME NEW t, NEW registered
    PROVE  \A n \in Nat : \E f : ReadsTo(t, registered, n, f)
<1> DEFINE S == {n \in Nat : \E f : ReadsTo(t, registered, n, f)}
<1>1. 0 \in S
  <2> DEFINE f == [k \in 0 .. 0 |-> Start]
  <2>1. \A k \in 0 .. 0 : k = 0
    OBVIOUS
  <2>2. ReadsTo(t, registered, 0, f)
    BY <2>1 DEF ReadsTo
  <2> QED
    BY <2>2
<1>2. \A n \in Nat : n \in S => n + 1 \in S
  BY ReadsStep
<1> HIDE DEF S
<1>3. \A n \in Nat : n \in S
  BY <1>1, <1>2, SetInduction
<1> QED
  BY <1>3 DEF S

\* f gives what each beginning of t leaves.
Reads(f, t, registered) ==
    /\ f[0] = Start
    /\ \A k \in 1 .. Len(t) : f[k] = Read(f[k - 1], t[k], registered)

\* The loop runs through the characters of a text, one after the other.
LEMMA ReadAllIs ==
    ASSUME NEW t, NEW registered, Len(t) \in Nat
    PROVE  \E f : Reads(f, t, registered) /\ ReadAll(t, registered) = f[Len(t)]
<1> DEFINE f == CHOOSE g : g = [k \in 0 .. Len(t) |->
                                 IF k = 0 THEN Start ELSE Read(g[k - 1], t[k], registered)]
<1>1. ReadAll(t, registered) = f[Len(t)]
  BY DEF ReadAll
<1>2. \E g : g = [k \in 0 .. Len(t) |->
                     IF k = 0 THEN Start ELSE Read(g[k - 1], t[k], registered)]
  <2>1. \E g : ReadsTo(t, registered, Len(t), g)
    BY ReadsExist
  <2> QED
    BY <2>1 DEF ReadsTo
<1>3. f = [k \in 0 .. Len(t) |-> IF k = 0 THEN Start ELSE Read(f[k - 1], t[k], registered)]
  BY <1>2
<1> HIDE DEF f
<1>4. \A k \in 0 .. Len(t) : f[k] = IF k = 0 THEN Start ELSE Read(f[k - 1], t[k], registered)
  BY <1>3
<1>5. 0 \in 0 .. Len(t) /\ \A k \in 1 .. Len(t) : k \in 0 .. Len(t) /\ k # 0
  OBVIOUS
<1>6. Reads(f, t, registered)
  BY <1>4, <1>5 DEF Reads
<1> QED
  BY <1>1, <1>6

\* Nothing read, and one character more.
LEMMA ReadAllSteps ==
    ASSUME NEW registered
    PROVE  /\ ReadAll(<<>>, registered) = Start
           /\ \A t \in Seq(Characters), c \in Characters :
                 ReadAll(t \o <<c>>, registered) = Read(ReadAll(t, registered), c, registered)
<1>1. ReadAll(<<>>, registered) = Start
  <2>1. Len(<<>>) = 0 /\ 0 \in Nat
    OBVIOUS
  <2>2. PICK f : Reads(f, <<>>, registered) /\ ReadAll(<<>>, registered) = f[Len(<<>>)]
    BY <2>1, ReadAllIs
  <2> QED
    BY <2>1, <2>2 DEF Reads
<1>2. ASSUME NEW t \in Seq(Characters), NEW c \in Characters
      PROVE  ReadAll(t \o <<c>>, registered) = Read(ReadAll(t, registered), c, registered)
  <2>1. PICK u : u = t \o <<c>>
    OBVIOUS
  <2>2. PICK n \in Nat : n = Len(t)
    BY LenProperties
  <2>3. Len(u) = n + 1 /\ (\A k \in 1 .. n : u[k] = t[k]) /\ u[n + 1] = c
    BY <2>1, <2>2, OneMore
  <2>4. PICK f : Reads(f, t, registered) /\ ReadAll(t, registered) = f[n]
    BY <2>2, ReadAllIs
  <2>5. PICK g : Reads(g, u, registered) /\ ReadAll(u, registered) = g[n + 1]
    BY <2>3, ReadAllIs
  <2> DEFINE S == {k \in Nat : k <= n => f[k] = g[k]}
  <2>6. 0 \in S
    BY <2>4, <2>5 DEF Reads
  <2>7. \A k \in Nat : k \in S => k + 1 \in S
    <3> SUFFICES ASSUME NEW k \in Nat, k \in S, k + 1 <= n
                 PROVE  f[k + 1] = g[k + 1]
      OBVIOUS
    <3>1. f[k] = g[k] /\ k + 1 \in 1 .. n /\ k + 1 \in 1 .. n + 1 /\ (k + 1) - 1 = k
      OBVIOUS
    <3>2. f[k + 1] = Read(f[k], t[k + 1], registered)
      BY <2>2, <2>4, <3>1 DEF Reads
    <3>3. g[k + 1] = Read(g[k], u[k + 1], registered)
      BY <2>3, <2>5, <3>1 DEF Reads
    <3> QED
      BY <2>3, <3>1, <3>2, <3>3
  <2> HIDE DEF S
  <2>8. \A k \in Nat : k \in S
    BY <2>6, <2>7, SetInduction
  <2>9. f[n] = g[n]
    BY <2>8 DEF S
  <2>10. g[n + 1] = Read(g[n], c, registered)
    <3>1. n + 1 \in 1 .. n + 1 /\ (n + 1) - 1 = n
      OBVIOUS
    <3> QED
      BY <2>3, <2>5, <3>1 DEF Reads
  <2> QED
    BY <2>1, <2>4, <2>5, <2>9, <2>10
<1> QED
  BY <1>1, <1>2

\* What is true of the empty sequence, and of a sequence with one element more, is
\* true of all.
LEMMA SequenceInduction ==
    ASSUME NEW S, NEW W, <<>> \in W, \A u \in Seq(S), c \in S : u \in W => u \o <<c>> \in W
    PROVE  \A s \in Seq(S) : s \in W
<1> DEFINE L == {n \in Nat : \A s \in Seq(S) : Len(s) = n => s \in W}
<1>1. 0 \in L
  BY EmptySeq
<1>2. ASSUME NEW n \in Nat, n \in L
      PROVE  n + 1 \in L
  <2> SUFFICES ASSUME NEW s \in Seq(S), Len(s) = n + 1 PROVE s \in W
    OBVIOUS
  <2>1. s # <<>>
    BY EmptySeq
  <2>2. PICK u \in Seq(S), c \in S : s = Append(u, c)
    BY <2>1, SequenceEmptyOrAppend
  <2>3. s = u \o <<c>>
    BY <2>2, AppendIsConcat
  <2>4. Len(u) = n
    <3>1. Len(s) = Len(u) + 1 /\ Len(u) \in Nat
      BY <2>3, OneMore, LenProperties
    <3> QED
      BY <3>1
  <2> QED
    BY <1>2, <2>3, <2>4
<1> HIDE DEF L
<1>3. \A n \in Nat : n \in L
  BY <1>1, <1>2, SetInduction
<1> QED
  BY <1>3, LenProperties DEF L

-----------------------------------------------------------------------------
(* What is read                                                            *)

\* Where the reading is in a parameter, and what flag says of it.
InName == TRUE
InValue == FALSE

At(k, v, flag, vs) == [key |-> k, value |-> v, keyFlag |-> flag, values |-> vs]

\* The values when a parameter ends.
Kept(k, v, vs, registered) ==
    IF k \in registered
    THEN [n \in DOMAIN vs \cup {k} |-> IF n = k THEN v ELSE vs[n]]
    ELSE vs

\* The reading begins with nothing, and so it does again when a parameter ends.
LEMMA ReadFlushed ==
    ASSUME NEW k, NEW v, NEW vs, NEW registered, NEW f
    PROVE  Flushed(At(k, v, f, vs), registered) = At(<<>>, <<>>, InName, Kept(k, v, vs, registered))
<1>1. PICK r : r = At(k, v, f, vs)
  OBVIOUS
<1>2. r.key = k /\ r.value = v /\ r.values = vs
  BY <1>1 DEF At
<1>3. Flushed(r, registered) = [Start EXCEPT !.values = Kept(k, v, vs, registered)]
  BY <1>2 DEF Flushed, Kept
<1>4. Start = At(<<>>, <<>>, InName, <<>>)
  BY DEF Start, At, InName
<1>5. [Start EXCEPT !.values = Kept(k, v, vs, registered)]
      = At(<<>>, <<>>, InName, Kept(k, v, vs, registered))
  <2>1. PICK values : values = Kept(k, v, vs, registered)
    OBVIOUS
  <2>2. ASSUME NEW s, s = At(<<>>, <<>>, InName, <<>>)
        PROVE  [s EXCEPT !.values = values] = At(<<>>, <<>>, InName, values)
    BY <2>2 DEF At
  <2> QED
    BY <1>4, <2>1, <2>2
<1> QED
  BY <1>1, <1>3, <1>5

\* Behind an equal sign is the value.
LEMMA ReadEquals ==
    ASSUME NEW k, NEW v, NEW vs, NEW registered, NEW f
    PROVE  Read(At(k, v, f, vs), Equals, registered) = At(k, v, InValue, vs)
<1>1. \A r : Read(r, Equals, registered) = [r EXCEPT !.keyFlag = InValue]
  BY DEF Read, InValue
<1>2. [At(k, v, f, vs) EXCEPT !.keyFlag = InValue] = At(k, v, InValue, vs)
  BY DEF At
<1> QED
  BY <1>1, <1>2

\* A separator ends the parameter.
LEMMA ReadSeparator ==
    ASSUME NEW k, NEW v, NEW vs, NEW registered, NEW f, NEW c \in {And, LineEnd}
    PROVE  Read(At(k, v, f, vs), c, registered)
           = At(<<>>, <<>>, InName, Kept(k, v, vs, registered))
<1>1. c # Equals
  BY CharactersAreDifferent
<1>2. ASSUME NEW r
      PROVE  Read(r, c, registered) = Flushed(r, registered)
  BY <1>1 DEF Read
<1> QED
  BY <1>2, ReadFlushed

\* Any other character belongs to the name, or behind an equal sign to the value.
LEMMA ReadPlain ==
    ASSUME NEW k \in Seq(Plain), NEW v \in Seq(Plain), NEW vs, NEW registered, NEW c \in Plain
    PROVE  /\ Read(At(k, v, InName, vs), c, registered) = At(k \o <<c>>, v, InName, vs)
           /\ Read(At(k, v, InValue, vs), c, registered) = At(k, v \o <<c>>, InValue, vs)
<1>1. c # Equals /\ c \notin {And, LineEnd}
  BY PlainIsInLine
<1>2. /\ Read(At(k, v, InName, vs), c, registered) = At(Append(k, c), v, InName, vs)
      /\ Read(At(k, v, InValue, vs), c, registered) = At(k, Append(v, c), InValue, vs)
  <2>1. Read(At(k, v, InName, vs), c, registered) = At(Append(k, c), v, InName, vs)
    BY <1>1 DEF Read, At, InName
  <2>2. Read(At(k, v, InValue, vs), c, registered) = At(k, Append(v, c), InValue, vs)
    BY <1>1 DEF Read, At, InValue
  <2> QED
    BY <2>1, <2>2
<1> QED
  BY <1>2, AppendIsConcat

\* One character more behind a text and a word.
LEMMA WordGrows ==
    ASSUME NEW registered, NEW t \in Seq(Characters), NEW u \in Seq(Plain), NEW c \in Plain
    PROVE  ReadAll(t \o (u \o <<c>>), registered) = Read(ReadAll(t \o u, registered), c, registered)
<1>1. c \in Characters /\ u \in Seq(Characters)
  BY PlainIsInLine, SeqOfPart
<1>2. t \o u \in Seq(Characters) /\ <<c>> \in Seq(Characters)
  BY <1>1, ConcatProperties
<1>3. t \o (u \o <<c>>) = (t \o u) \o <<c>>
  BY <1>1, <1>2, ConcatAssociative
<1> QED
  BY <1>1, <1>2, <1>3, ReadAllSteps

\* A word is read into the name.
LEMMA ReadName ==
    ASSUME NEW registered, NEW t \in Seq(Characters), NEW vs,
           ReadAll(t, registered) = At(<<>>, <<>>, InName, vs)
    PROVE  \A w \in Seq(Plain) : ReadAll(t \o w, registered) = At(w, <<>>, InName, vs)
<1> DEFINE W == {w \in Seq(Plain) : ReadAll(t \o w, registered) = At(w, <<>>, InName, vs)}
<1>1. <<>> \in Seq(Plain) /\ t \o <<>> = t
  BY EmptySeq, ConcatEmptySeq
<1>2. <<>> \in W
  BY <1>1
<1>3. ASSUME NEW u \in Seq(Plain), NEW c \in Plain, u \in W
      PROVE  u \o <<c>> \in W
  <2>1. u \o <<c>> \in Seq(Plain)
    BY OneMore
  <2>2. ReadAll(t \o (u \o <<c>>), registered) = Read(ReadAll(t \o u, registered), c, registered)
    BY WordGrows
  <2>3. ReadAll(t \o u, registered) = At(u, <<>>, InName, vs)
    BY <1>3
  <2>4. Read(At(u, <<>>, InName, vs), c, registered) = At(u \o <<c>>, <<>>, InName, vs)
    <3>1. \A v \in Seq(Plain) :
              Read(At(u, v, InName, vs), c, registered) = At(u \o <<c>>, v, InName, vs)
      BY ReadPlain
    <3> QED
      BY <1>1, <3>1
  <2>5. ReadAll(t \o (u \o <<c>>), registered) = At(u \o <<c>>, <<>>, InName, vs)
    BY <2>2, <2>3, <2>4
  <2> QED
    BY <2>1, <2>5
<1> HIDE DEF W
<1>4. \A w \in Seq(Plain) : w \in W
  BY <1>2, <1>3, SequenceInduction
<1> QED
  BY <1>4 DEF W

\* Behind an equal sign it is read into the value.
LEMMA ReadValue ==
    ASSUME NEW registered, NEW t \in Seq(Characters), NEW vs, NEW k \in Seq(Plain),
           ReadAll(t, registered) = At(k, <<>>, InValue, vs)
    PROVE  \A w \in Seq(Plain) : ReadAll(t \o w, registered) = At(k, w, InValue, vs)
<1> DEFINE W == {w \in Seq(Plain) : ReadAll(t \o w, registered) = At(k, w, InValue, vs)}
<1>1. <<>> \in Seq(Plain) /\ t \o <<>> = t
  BY EmptySeq, ConcatEmptySeq
<1>2. <<>> \in W
  BY <1>1
<1>3. ASSUME NEW u \in Seq(Plain), NEW c \in Plain, u \in W
      PROVE  u \o <<c>> \in W
  <2>1. u \o <<c>> \in Seq(Plain)
    BY OneMore
  <2>2. ReadAll(t \o (u \o <<c>>), registered) = Read(ReadAll(t \o u, registered), c, registered)
    BY WordGrows
  <2>3. ReadAll(t \o u, registered) = At(k, u, InValue, vs)
    BY <1>3
  <2>4. Read(At(k, u, InValue, vs), c, registered) = At(k, u \o <<c>>, InValue, vs)
    BY ReadPlain
  <2>5. ReadAll(t \o (u \o <<c>>), registered) = At(k, u \o <<c>>, InValue, vs)
    BY <2>2, <2>3, <2>4
  <2> QED
    BY <2>1, <2>5
<1> HIDE DEF W
<1>4. \A w \in Seq(Plain) : w \in W
  BY <1>2, <1>3, SequenceInduction
<1> QED
  BY <1>4 DEF W

\* Three texts, one behind the other.
LEMMA Regrouped ==
    ASSUME NEW s \in Seq(Characters), NEW t \in Seq(Characters), NEW u \in Seq(Characters)
    PROVE  (s \o t) \o u = s \o (t \o u)
BY ConcatAssociative

\* The text of a pair is read as its name and its value.
LEMMA ReadPair ==
    ASSUME NEW registered, NEW t \in Seq(Characters), NEW vs, NEW p, NEW bare,
           p[1] \in Seq(Plain), p[2] \in Seq(Plain),
           ReadAll(t, registered) = At(<<>>, <<>>, InName, vs)
    PROVE  /\ PairText(p, bare) \in Seq(InLine)
           /\ \E f :
                 ReadAll(t \o PairText(p, bare), registered) = At(p[1], p[2], f, vs)
<1>1. PICK k \in Seq(Plain) : k = p[1]
  OBVIOUS
<1>2. PICK v \in Seq(Plain) : v = p[2]
  OBVIOUS
<1>3. /\ k \in Seq(InLine) /\ v \in Seq(InLine) /\ k \in Seq(Characters) /\ v \in Seq(Characters)
      /\ <<Equals>> \in Seq(InLine) /\ <<Equals>> \in Seq(Characters) /\ Equals \in Characters
  <2>1. /\ Plain \subseteq InLine /\ Plain \subseteq Characters /\ InLine \subseteq Characters
        /\ Equals \in InLine
    BY PlainIsInLine
  <2> QED
    BY <2>1, SeqOfPart
<1>0. ReadAll(t, registered) = At(<<>>, <<>>, InName, vs)
  OBVIOUS
<1>4. ReadAll(t \o k, registered) = At(k, <<>>, InName, vs) /\ t \o k \in Seq(Characters)
  <2>1. \A w \in Seq(Plain) : ReadAll(t \o w, registered) = At(w, <<>>, InName, vs)
    BY <1>0, ReadName
  <2>2. t \o k \in Seq(Characters)
    BY <1>3, ConcatProperties
  <2> QED
    BY <2>1, <2>2
<1>5. CASE bare /\ v = <<>>
  <2>1. PairText(p, bare) = k
    <3>1. PairText(p, bare) = k \o <<>> \o v
      BY <1>1, <1>2, <1>5 DEF PairText
    <3> QED
      BY <3>1, <1>5, ConcatEmptySeq
  <2> QED
    BY <1>1, <1>2, <1>3, <1>4, <1>5, <2>1
<1>6. CASE ~(bare /\ v = <<>>)
  <2>1. PairText(p, bare) = (k \o <<Equals>>) \o v
    BY <1>1, <1>2, <1>6 DEF PairText
  <2>2. PairText(p, bare) \in Seq(InLine)
    BY <1>3, <2>1, ConcatProperties
  <2>3. ReadAll((t \o k) \o <<Equals>>, registered) = At(k, <<>>, InValue, vs)
    <3>1. ReadAll((t \o k) \o <<Equals>>, registered)
          = Read(ReadAll(t \o k, registered), Equals, registered)
      BY <1>3, <1>4, ReadAllSteps
    <3>2. Read(At(k, <<>>, InName, vs), Equals, registered) = At(k, <<>>, InValue, vs)
      BY ReadEquals
    <3> QED
      BY <1>4, <3>1, <3>2
  <2>4. (t \o k) \o <<Equals>> \in Seq(Characters)
    BY <1>3, <1>4, ConcatProperties
  <2>5. ReadAll(((t \o k) \o <<Equals>>) \o v, registered) = At(k, v, InValue, vs)
    <3>1. PICK u \in Seq(Characters) : u = (t \o k) \o <<Equals>>
      BY <2>4
    <3>2. ReadAll(u, registered) = At(k, <<>>, InValue, vs)
      BY <2>3, <3>1
    <3>3. \A w \in Seq(Plain) : ReadAll(u \o w, registered) = At(k, w, InValue, vs)
      BY <3>2, ReadValue, SMTT(20)
    <3>4. ReadAll(u \o v, registered) = At(k, v, InValue, vs)
      BY <3>3
    <3> QED
      BY <3>1, <3>4, Zenon
  <2>6. ((t \o k) \o <<Equals>>) \o v = t \o ((k \o <<Equals>>) \o v)
    <3>1. (t \o k) \o <<Equals>> = t \o (k \o <<Equals>>)
      BY <1>3, ConcatAssociative
    <3>2. k \o <<Equals>> \in Seq(Characters)
      BY <1>3, ConcatProperties
    <3>3. (t \o (k \o <<Equals>>)) \o v = t \o ((k \o <<Equals>>) \o v)
      <4>1. PICK x \in Seq(Characters) : x = k \o <<Equals>>
        BY <3>2
      <4>2. (t \o x) \o v = t \o (x \o v)
        BY <1>3, Regrouped
      <4> QED
        BY <4>1, <4>2
    <3> QED
      BY <3>1, <3>3
  <2> QED
    BY <1>1, <1>2, <2>1, <2>2, <2>5, <2>6
<1> QED
  BY <1>5, <1>6

-----------------------------------------------------------------------------
(* The pairs                                                               *)

\* The value that the first n pairs give a name, the last one if there are several.
LastOf(pairs, n, name) ==
    LET given == {k \in 1 .. n : pairs[k][1] = name}
    IN  IF given = {} THEN <<>> ELSE pairs[Max(given)][2]

\* One pair more: its value is the last of its name.
LEMMA LastOfMore ==
    ASSUME NEW pairs, NEW name
    PROVE  /\ LastOf(pairs, 0, name) = <<>>
           /\ \A n \in Nat : LastOf(pairs, n + 1, name)
                             = IF pairs[n + 1][1] = name THEN pairs[n + 1][2] ELSE LastOf(pairs, n, name)
<1>1. LastOf(pairs, 0, name) = <<>>
  <2>1. {k \in 1 .. 0 : pairs[k][1] = name} = {}
    OBVIOUS
  <2> QED
    BY <2>1 DEF LastOf
<1>2. ASSUME NEW n \in Nat
      PROVE  LastOf(pairs, n + 1, name)
             = IF pairs[n + 1][1] = name THEN pairs[n + 1][2] ELSE LastOf(pairs, n, name)
  <2> DEFINE before == {k \in 1 .. n : pairs[k][1] = name}
             given == {k \in 1 .. n + 1 : pairs[k][1] = name}
  <2>1. LastOf(pairs, n + 1, name) = IF given = {} THEN <<>> ELSE pairs[Max(given)][2]
    BY DEF LastOf
  <2>2. LastOf(pairs, n, name) = IF before = {} THEN <<>> ELSE pairs[Max(before)][2]
    BY DEF LastOf
  <2>3. CASE pairs[n + 1][1] = name
    <3>1. n + 1 \in given /\ \A k \in given : k \in Nat /\ k <= n + 1
      BY <2>3
    <3>2. Max(given) = n + 1
      <4> HIDE DEF given
      <4>1. \A x \in given : (\A y \in given : x >= y) <=> x = n + 1
        BY <3>1
      <4> QED
        BY <3>1, <4>1 DEF Max
    <3>3. given # {}
      BY <3>1
    <3> HIDE DEF given
    <3> QED
      BY <2>1, <2>3, <3>2, <3>3
  <2>4. CASE pairs[n + 1][1] # name
    <3>1. given = before
      BY <2>4
    <3> HIDE DEF given, before
    <3> QED
      BY <2>1, <2>2, <2>4, <3>1
  <2> QED
    BY <2>3, <2>4
<1> QED
  BY <1>1, <1>2

\* What getParam() finds when a parameter was kept.
LEMMA KeptIsFound ==
    ASSUME NEW k, NEW v, NEW vs, NEW name \in Registered
    PROVE  GetParam(Kept(k, v, vs, Registered), name) = IF k = name THEN v ELSE GetParam(vs, name)
<1>1. CASE k \in Registered
  <2>1. PICK kept : kept = [n \in DOMAIN vs \cup {k} |-> IF n = k THEN v ELSE vs[n]]
    OBVIOUS
  <2>2. Kept(k, v, vs, Registered) = kept
    BY <1>1, <2>1 DEF Kept
  <2>3. GetParam(kept, name) = IF k = name THEN v ELSE GetParam(vs, name)
    BY <2>1 DEF GetParam
  <2> QED
    BY <2>2, <2>3
<1>2. CASE k \notin Registered
  <2>1. Kept(k, v, vs, Registered) = vs /\ k # name
    BY <1>2 DEF Kept
  <2> QED
    BY <2>1
<1> QED
  BY <1>1, <1>2

\* What is between two pairs.
Between(k) == IF k = 1 THEN <<>> ELSE <<And>>

\* f gives the texts of the first pairs, up to n of them.
WritesTo(pairs, bare, n, f) ==
    f = [k \in 0 .. n |-> IF k = 0 THEN <<>>
                          ELSE f[k - 1] \o (IF k = 1 THEN <<>> ELSE <<And>>) \o PairText(pairs[k], bare)]

\* A solution for n pairs gives one for n + 1.
LEMMA WritesStep ==
    ASSUME NEW pairs, NEW bare, NEW n \in Nat, NEW f, WritesTo(pairs, bare, n, f)
    PROVE  \E g : WritesTo(pairs, bare, n + 1, g)
<1> DEFINE Piece(k) == PairText(pairs[k], bare)
           Text(s, k) == s \o Between(k) \o Piece(k)
           g == [k \in 0 .. n + 1 |-> IF k = n + 1 THEN Text(f[n], n + 1) ELSE f[k]]
<1>1. \A k \in 0 .. n : f[k] = IF k = 0 THEN <<>> ELSE Text(f[k - 1], k)
  BY DEF WritesTo, Between
<1>2. \A k \in 0 .. n : g[k] = f[k] /\ k # n + 1
  <2> HIDE DEF Text
  <2> QED
    OBVIOUS
<1>3. g[n + 1] = Text(f[n], n + 1)
  <2> HIDE DEF Text
  <2> QED
    OBVIOUS
<1>4. \A k \in 0 .. n + 1 : g[k] = IF k = 0 THEN <<>> ELSE Text(g[k - 1], k)
  <2> SUFFICES ASSUME NEW k \in 0 .. n + 1
               PROVE  g[k] = IF k = 0 THEN <<>> ELSE Text(g[k - 1], k)
    OBVIOUS
  <2> HIDE DEF Text, g
  <2>1. CASE k = n + 1
    <3>1. k # 0 /\ k - 1 = n /\ n \in 0 .. n
      BY <2>1
    <3>2. g[k - 1] = f[n]
      BY <1>2, <3>1
    <3>3. g[k] = Text(f[n], k)
      BY <1>3, <2>1
    <3> QED
      BY <3>1, <3>2, <3>3
  <2>2. CASE k # n + 1
    <3>1. k \in 0 .. n /\ (k # 0 => k - 1 \in 0 .. n)
      BY <2>2
    <3>2. g[k] = f[k] /\ (k # 0 => g[k - 1] = f[k - 1])
      BY <1>2, <3>1
    <3> QED
      BY <1>1, <3>1, <3>2
  <2> QED
    BY <2>1, <2>2
<1>5. g = [k \in 0 .. n + 1 |-> g[k]]
  <2> HIDE DEF Text
  <2> QED
    OBVIOUS
<1> HIDE DEF g
<1>6. WritesTo(pairs, bare, n + 1, g)
  BY <1>4, <1>5 DEF WritesTo, Between
<1> QED
  BY <1>6

\* There is a solution for any number of pairs.
LEMMA WritesExist ==
    ASSUME NEW pairs, NEW bare
    PROVE  \A n \in Nat : \E f : WritesTo(pairs, bare, n, f)
<1> DEFINE S == {n \in Nat : \E f : WritesTo(pairs, bare, n, f)}
<1>1. 0 \in S
  <2> DEFINE f == [k \in 0 .. 0 |-> <<>>]
  <2>1. \A k \in 0 .. 0 : k = 0
    OBVIOUS
  <2>2. WritesTo(pairs, bare, 0, f)
    BY <2>1 DEF WritesTo
  <2> QED
    BY <2>2
<1>2. \A n \in Nat : n \in S => n + 1 \in S
  BY WritesStep
<1> HIDE DEF S
<1>3. \A n \in Nat : n \in S
  BY <1>1, <1>2, SetInduction
<1> QED
  BY <1>3 DEF S

\* The text of a query is that of its pairs, one behind the other.
LEMMA QueryTextIs ==
    ASSUME NEW pairs, NEW bare, Len(pairs) \in Nat
    PROVE  \E f : /\ f[0] = <<>>
                  /\ \A k \in 1 .. Len(pairs) :
                        f[k] = f[k - 1] \o Between(k) \o PairText(pairs[k], bare)
                  /\ QueryText(pairs, bare) = f[Len(pairs)]
<1> DEFINE f == CHOOSE g : g =
                    [k \in 0 .. Len(pairs) |-> IF k = 0 THEN <<>>
                        ELSE g[k - 1] \o (IF k = 1 THEN <<>> ELSE <<And>>) \o PairText(pairs[k], bare)]
<1>1. QueryText(pairs, bare) = f[Len(pairs)]
  BY DEF QueryText
<1>2. WritesTo(pairs, bare, Len(pairs), f)
  <2>1. \E g : WritesTo(pairs, bare, Len(pairs), g)
    BY WritesExist
  <2> QED
    BY <2>1 DEF WritesTo
<1> HIDE DEF f
<1>3. \A k \in 0 .. Len(pairs) :
          f[k] = IF k = 0 THEN <<>> ELSE f[k - 1] \o Between(k) \o PairText(pairs[k], bare)
  BY <1>2 DEF WritesTo, Between
<1>4. 0 \in 0 .. Len(pairs) /\ \A k \in 1 .. Len(pairs) : k \in 0 .. Len(pairs) /\ k # 0
  OBVIOUS
<1>5. f[0] = <<>>
  BY <1>3, <1>4
<1>6. \A k \in 1 .. Len(pairs) : f[k] = f[k - 1] \o Between(k) \o PairText(pairs[k], bare)
  BY <1>3, <1>4
<1> QED
  BY <1>1, <1>5, <1>6

\* What a client writes is made of words.
LEMMA PairsAreWords ==
    ASSUME NEW pairs \in Seq(Names \X Values), NEW k \in 1 .. Len(pairs)
    PROVE  pairs[k][1] \in Seq(Plain) /\ pairs[k][2] \in Seq(Plain)
<1>1. pairs[k] \in Names \X Values
  BY ElementOfSeq
<1>2. pairs[k][1] \in Names \cup Values /\ pairs[k][2] \in Names \cup Values
  BY <1>1
<1> QED
  BY <1>2, TextsAssumption DEF Plain

\* The text t was read up to a parameter that is not kept yet, and with it getParam()
\* gives the values of the first n pairs.
ReadsPairs(t, pairs, n) ==
    \E key, value \in Seq(Plain) : \E f, vs :
        /\ ReadAll(t, Registered) = At(key, value, f, vs)
        /\ \A name \in Registered :
              GetParam(Kept(key, value, vs, Registered), name) = LastOf(pairs, n, name)

\* The empty text gives no values.
LEMMA NothingIsRead ==
    ASSUME NEW pairs
    PROVE  ReadsPairs(<<>>, pairs, 0)
<1>1. ReadAll(<<>>, Registered) = At(<<>>, <<>>, InName, <<>>)
  BY ReadAllSteps DEF Start, At, InName
<1>2. Kept(<<>>, <<>>, <<>>, Registered) = <<>>
  BY TextsAssumption DEF Kept
<1>3. \A name : GetParam(<<>>, name) = <<>>
  <2>1. DOMAIN <<>> = {}
    OBVIOUS
  <2> QED
    BY <2>1 DEF GetParam
<1>4. \A name \in Registered : GetParam(Kept(<<>>, <<>>, <<>>, Registered), name) = LastOf(pairs, 0, name)
  BY <1>2, <1>3, LastOfMore
<1>5. <<>> \in Seq(Plain)
  BY EmptySeq
<1> QED
  BY <1>1, <1>4, <1>5 DEF ReadsPairs

\* One pair more, behind an ampersand if it is not the first.
LEMMA OnePairMore ==
    ASSUME NEW pairs \in Seq(Names \X Values), NEW bare, NEW n \in Nat, n + 1 \in 1 .. Len(pairs),
           NEW t \in Seq(InLine), ReadsPairs(t, pairs, n), n = 0 => t = <<>>
    PROVE  LET u == t \o Between(n + 1) \o PairText(pairs[n + 1], bare)
           IN  u \in Seq(InLine) /\ ReadsPairs(u, pairs, n + 1)
<1>1. PICK p : p = pairs[n + 1]
  OBVIOUS
<1>2. p[1] \in Seq(Plain) /\ p[2] \in Seq(Plain)
  BY <1>1, PairsAreWords
<1>3. t \in Seq(Characters) /\ And \in InLine /\ And \in Characters
  <2>1. InLine \subseteq Characters /\ And \in InLine
    BY PlainIsInLine
  <2> QED
    BY <2>1, SeqOfPart
<1>4. PICK key, value, f, vs :
          /\ key \in Seq(Plain) /\ value \in Seq(Plain)
          /\ ReadAll(t, Registered) = At(key, value, f, vs)
          /\ \A name \in Registered :
                GetParam(Kept(key, value, vs, Registered), name) = LastOf(pairs, n, name)
  BY DEF ReadsPairs
<1>5. \E s, ws :
          /\ s \in Seq(InLine)
          /\ s = t \o Between(n + 1)
          /\ ReadAll(s, Registered) = At(<<>>, <<>>, InName, ws)
          /\ \A name \in Registered : GetParam(ws, name) = LastOf(pairs, n, name)
  <2>1. CASE n = 0
    <3>1. t \o Between(n + 1) = <<>> /\ <<>> \in Seq(InLine)
      <4>1. Between(n + 1) = <<>>
        BY <2>1 DEF Between
      <4> QED
        BY <2>1, <4>1, EmptySeq, ConcatEmptySeq
    <3>2. ReadAll(<<>>, Registered) = At(<<>>, <<>>, InName, <<>>)
      BY ReadAllSteps DEF Start, At, InName
    <3>3. \A name \in Registered : GetParam(<<>>, name) = LastOf(pairs, n, name)
      <4>1. DOMAIN <<>> = {}
        OBVIOUS
      <4>2. \A name \in Registered : LastOf(pairs, n, name) = <<>>
        BY <2>1, LastOfMore
      <4> QED
        BY <4>1, <4>2 DEF GetParam
    <3> QED
      BY <3>1, <3>2, <3>3
  <2>2. CASE n # 0
    <3>1. Between(n + 1) = <<And>>
      BY <2>2 DEF Between
    <3>2. t \o <<And>> \in Seq(InLine)
      BY <1>3, OneMore
    <3>3. ReadAll(t \o <<And>>, Registered) = Read(At(key, value, f, vs), And, Registered)
      BY <1>3, <1>4, ReadAllSteps
    <3>4. Read(At(key, value, f, vs), And, Registered)
          = At(<<>>, <<>>, InName, Kept(key, value, vs, Registered))
      BY ReadSeparator
    <3> QED
      BY <1>4, <3>1, <3>2, <3>3, <3>4
  <2> QED
    BY <2>1, <2>2
<1>6. PICK s, ws :
          /\ s \in Seq(InLine)
          /\ s = t \o Between(n + 1)
          /\ ReadAll(s, Registered) = At(<<>>, <<>>, InName, ws)
          /\ \A name \in Registered : GetParam(ws, name) = LastOf(pairs, n, name)
  BY <1>5
<1>7. s \in Seq(Characters)
  BY <1>6, PlainIsInLine, SeqOfPart
<1>8. /\ PairText(p, bare) \in Seq(InLine)
      /\ \E g : ReadAll(s \o PairText(p, bare), Registered) = At(p[1], p[2], g, ws)
  <2>1. ReadAll(s, Registered) = At(<<>>, <<>>, InName, ws)
    BY <1>6
  <2>2. \A q : q[1] \in Seq(Plain) /\ q[2] \in Seq(Plain) =>
            /\ PairText(q, bare) \in Seq(InLine)
            /\ \E g : ReadAll(s \o PairText(q, bare), Registered) = At(q[1], q[2], g, ws)
    BY <1>7, <2>1, ReadPair
  <2> QED
    BY <1>2, <2>2
<1>9. s \o PairText(p, bare) \in Seq(InLine)
  BY <1>6, <1>8, ConcatProperties
<1>10. \A name \in Registered :
          GetParam(Kept(p[1], p[2], ws, Registered), name) = LastOf(pairs, n + 1, name)
  <2> TAKE name \in Registered
  <2>1. GetParam(Kept(p[1], p[2], ws, Registered), name)
        = IF p[1] = name THEN p[2] ELSE GetParam(ws, name)
    BY KeptIsFound
  <2>2. LastOf(pairs, n + 1, name) = IF p[1] = name THEN p[2] ELSE LastOf(pairs, n, name)
    BY <1>1, LastOfMore
  <2> QED
    BY <1>6, <2>1, <2>2
<1>11. ReadsPairs(s \o PairText(p, bare), pairs, n + 1)
  BY <1>2, <1>8, <1>10 DEF ReadsPairs
<1> QED
  BY <1>1, <1>6, <1>9, <1>11

\* The text of a query, whichever way its pairs are written, is in one line and gives
\* the values of the pairs.
LEMMA QueryIsRead ==
    ASSUME NEW pairs \in Seq(Names \X Values), NEW bare
    PROVE  /\ QueryText(pairs, bare) \in Seq(InLine)
           /\ ReadsPairs(QueryText(pairs, bare), pairs, Len(pairs))
<1>1. PICK n \in Nat : n = Len(pairs)
  BY LenProperties
<1>2. PICK f : /\ f[0] = <<>>
               /\ \A k \in 1 .. n : f[k] = f[k - 1] \o Between(k) \o PairText(pairs[k], bare)
               /\ QueryText(pairs, bare) = f[n]
  BY <1>1, QueryTextIs
<1> DEFINE S == {k \in Nat : k <= n => f[k] \in Seq(InLine) /\ ReadsPairs(f[k], pairs, k)}
<1>3. 0 \in S
  BY <1>2, NothingIsRead, EmptySeq
<1>4. ASSUME NEW k \in Nat, k \in S
      PROVE  k + 1 \in S
  <2> SUFFICES ASSUME k + 1 <= n
               PROVE  f[k + 1] \in Seq(InLine) /\ ReadsPairs(f[k + 1], pairs, k + 1)
    OBVIOUS
  <2>1. k + 1 \in 1 .. n /\ k <= n /\ (k + 1) - 1 = k
    OBVIOUS
  <2>2. f[k] \in Seq(InLine) /\ ReadsPairs(f[k], pairs, k)
    BY <1>4, <2>1
  <2>3. f[k + 1] = f[k] \o Between(k + 1) \o PairText(pairs[k + 1], bare)
    BY <1>2, <2>1
  <2>4. k = 0 => f[k] = <<>>
    BY <1>2
  <2> HIDE DEF S
  <2>5. PICK t \in Seq(InLine) : t = f[k]
    BY <2>2
  <2> QED
    BY <1>1, <2>1, <2>2, <2>3, <2>4, <2>5, OnePairMore
<1> HIDE DEF S
<1>5. \A k \in Nat : k \in S
  BY <1>3, <1>4, SetInduction
<1>6. n <= n
  OBVIOUS
<1> QED
  BY <1>1, <1>2, <1>5, <1>6 DEF S

-----------------------------------------------------------------------------
(* What the loop of RESTParameters::RESTParameters leaves out               *)

\* The part of a text before the first of some characters.
LEMMA BeforeIs ==
    ASSUME NEW A, NEW s \in Seq(A), NEW S, NEW m \in Nat, m <= Len(s),
           \A k \in 1 .. m : s[k] \notin S, m = Len(s) \/ s[m + 1] \in S
    PROVE  Before(s, S) = SubSeq(s, 1, m)
<1> DEFINE T == {k \in DOMAIN s : s[k] \in S} \cup {Len(s) + 1}
<1>1. PICK n \in Nat : n = Len(s) /\ DOMAIN s = 1 .. n
  BY LenProperties
<1>2. m + 1 \in T
  BY <1>1
<1>3. \A k \in T : k \in Nat /\ m + 1 <= k
  <2> SUFFICES ASSUME NEW k \in T PROVE k \in Nat /\ m + 1 <= k
    OBVIOUS
  <2>1. CASE k = Len(s) + 1
    BY <1>1, <2>1
  <2>2. CASE k \in 1 .. n /\ s[k] \in S
    BY <1>1, <2>2
  <2> QED
    BY <1>1, <2>1, <2>2
<1>4. Before(s, S) = SubSeq(s, 1, Min(T) - 1)
  BY DEF Before
<1> HIDE DEF T
<1>5. Min(T) = m + 1
  <2>1. \A x \in T : (\A y \in T : x <= y) <=> x = m + 1
    BY <1>2, <1>3
  <2> QED
    BY <1>2, <2>1 DEF Min
<1>6. (m + 1) - 1 = m
  OBVIOUS
<1> QED
  BY <1>4, <1>5, <1>6

\* The first m characters are read if they do not begin with a space, the line does not
\* end behind the first of them, and the next one ends it.
LEMMA CutIs ==
    ASSUME NEW t \in Seq(Characters), NEW m \in Nat, 1 <= m, m <= Len(t), t[1] # Blank,
           \A k \in 2 .. m : t[k] \notin {Blank, LineEnd},
           m = Len(t) \/ t[m + 1] \in {Blank, LineEnd}
    PROVE  ReadParameters(t, Registered)
           = Flushed(ReadAll(SubSeq(t, 1, m), Registered), Registered).values
<1>1. PICK n \in Nat : n = Len(t)
  BY LenProperties
<1>2. t # <<>>
  BY <1>1, EmptySeq
<1>3. PICK s : s = Tail(t)
  OBVIOUS
<1>4. s \in Seq(Characters) /\ Len(s) = n - 1 /\ \A k \in 1 .. n - 1 : s[k] = t[k + 1]
  BY <1>1, <1>2, <1>3, HeadTailProperties
<1>5. Head(t) = t[1]
  BY <1>2, HeadTailProperties
<1>6. PICK j \in Nat : j + 1 = m /\ j <= n - 1
  BY <1>1
<1>7. \A k \in 1 .. j : s[k] \notin {Blank, LineEnd}
  <2> SUFFICES ASSUME NEW k \in 1 .. j PROVE s[k] \notin {Blank, LineEnd}
    OBVIOUS
  <2>1. k + 1 \in 2 .. m /\ k \in 1 .. n - 1
    BY <1>6
  <2> QED
    BY <1>4, <2>1
<1>8. j = Len(s) \/ s[j + 1] \in {Blank, LineEnd}
  <2>1. CASE m = n
    BY <1>4, <1>6, <2>1
  <2>2. CASE m # n
    <3>1. j + 1 \in 1 .. n - 1 /\ (j + 1) + 1 = m + 1
      BY <1>1, <1>6, <2>2
    <3>2. s[j + 1] = t[m + 1]
      BY <1>4, <3>1
    <3> QED
      BY <1>1, <2>2, <3>2
  <2> QED
    BY <2>1, <2>2
<1>9. Before(s, {Blank, LineEnd}) = SubSeq(s, 1, j)
  BY <1>4, <1>6, <1>7, <1>8, BeforeIs
<1>10. Len(SubSeq(s, 1, j)) = j
  <2>1. \A k \in 1 .. j : s[k] \in Characters
    BY <1>4, <1>6, ElementOfSeq
  <2>2. Len(SubSeq(s, 1, j)) = IF 1 <= j THEN j - 1 + 1 ELSE 0
    BY <2>1, SubSeqProperties
  <2> QED
    BY <2>2
<1> QED
  BY <1>2, <1>3, <1>5, <1>6, <1>9, <1>10 DEF ReadParameters

\* At the end of the text what was not kept yet is kept.
LEMMA EndIsRead ==
    ASSUME NEW t, NEW pairs, NEW n, ReadsPairs(t, pairs, n), NEW name \in Registered
    PROVE  GetParam(Flushed(ReadAll(t, Registered), Registered).values, name) = LastOf(pairs, n, name)
<1>1. PICK key, value, f, vs :
          /\ ReadAll(t, Registered) = At(key, value, f, vs)
          /\ GetParam(Kept(key, value, vs, Registered), name) = LastOf(pairs, n, name)
  BY DEF ReadsPairs
<1>2. Flushed(At(key, value, f, vs), Registered)
      = At(<<>>, <<>>, InName, Kept(key, value, vs, Registered))
  BY ReadFlushed
<1>3. At(<<>>, <<>>, InName, Kept(key, value, vs, Registered)).values
      = Kept(key, value, vs, Registered)
  BY DEF At
<1> QED
  BY <1>1, <1>2, <1>3

\* One separator at the end changes nothing: no parameter has the empty name.
LEMMA SeparatorIsRead ==
    ASSUME NEW t \in Seq(Characters), NEW pairs, NEW n, ReadsPairs(t, pairs, n),
           NEW c \in {And, LineEnd}
    PROVE  ReadsPairs(t \o <<c>>, pairs, n)
<1>1. PICK key, value, f, vs :
          /\ ReadAll(t, Registered) = At(key, value, f, vs)
          /\ \A name \in Registered :
                GetParam(Kept(key, value, vs, Registered), name) = LastOf(pairs, n, name)
  BY DEF ReadsPairs
<1>2. PICK ws : ws = Kept(key, value, vs, Registered)
  OBVIOUS
<1>3. c \in Characters
  BY DEF Characters
<1>4. ReadAll(t \o <<c>>, Registered) = Read(At(key, value, f, vs), c, Registered)
  BY <1>1, <1>3, ReadAllSteps
<1>5. Read(At(key, value, f, vs), c, Registered) = At(<<>>, <<>>, InName, ws)
  BY <1>2, ReadSeparator
<1>6. Kept(<<>>, <<>>, ws, Registered) = ws
  BY TextsAssumption DEF Kept
<1>7. <<>> \in Seq(Plain)
  BY EmptySeq
<1>8. \A name \in Registered :
          GetParam(Kept(<<>>, <<>>, ws, Registered), name) = LastOf(pairs, n, name)
  BY <1>1, <1>2, <1>6
<1>9. ReadAll(t \o <<c>>, Registered) = At(<<>>, <<>>, InName, ws)
  BY <1>4, <1>5
<1>10. PICK e \in Seq(Plain) : e = <<>>
  BY <1>7
<1>11. /\ ReadAll(t \o <<c>>, Registered) = At(e, e, InName, ws)
       /\ \A name \in Registered :
             GetParam(Kept(e, e, ws, Registered), name) = LastOf(pairs, n, name)
  BY <1>8, <1>9, <1>10
<1> QED
  BY <1>11 DEF ReadsPairs

\* The beginning of a text that something follows.
LEMMA Beginning ==
    ASSUME NEW S, NEW q \in Seq(S), NEW end \in Seq(S)
    PROVE  /\ q \o end \in Seq(S) /\ Len(q \o end) = Len(q) + Len(end)
           /\ \A k \in 1 .. Len(q) : (q \o end)[k] = q[k]
           /\ \A k \in 1 .. Len(end) : (q \o end)[Len(q) + k] = end[k]
           /\ SubSeq(q \o end, 1, Len(q)) = q
           /\ Len(end) >= 1 => SubSeq(q \o end, 1, Len(q) + 1) = q \o <<end[1]>>
<1>1. PICK a \in Nat : a = Len(q)
  BY LenProperties
<1>2. PICK b \in Nat : b = Len(end)
  BY LenProperties
<1>3. PICK t : t = q \o end
  OBVIOUS
<1>4. /\ t \in Seq(S) /\ Len(t) = a + b
      /\ \A k \in 1 .. a + b : t[k] = IF k <= a THEN q[k] ELSE end[k - a]
  BY <1>1, <1>2, <1>3, ConcatProperties
<1>5. \A k \in 1 .. a : t[k] = q[k]
  BY <1>4
<1>6. \A k \in 1 .. b : t[a + k] = end[k]
  <2> SUFFICES ASSUME NEW k \in 1 .. b PROVE t[a + k] = end[k]
    OBVIOUS
  <2>1. a + k \in 1 .. a + b /\ ~(a + k <= a) /\ (a + k) - a = k
    OBVIOUS
  <2> QED
    BY <1>4, <2>1
<1>7. \A m \in 0 .. a + b : /\ SubSeq(t, 1, m) \in Seq(S) /\ Len(SubSeq(t, 1, m)) = m
                            /\ \A k \in 1 .. m : SubSeq(t, 1, m)[k] = t[k]
  <2> SUFFICES ASSUME NEW m \in 0 .. a + b
               PROVE  /\ SubSeq(t, 1, m) \in Seq(S) /\ Len(SubSeq(t, 1, m)) = m
                      /\ \A k \in 1 .. m : SubSeq(t, 1, m)[k] = t[k]
    OBVIOUS
  <2>1. \A k \in 1 .. m : t[k] \in S
    BY <1>4, ElementOfSeq
  <2>2. /\ SubSeq(t, 1, m) \in Seq(S)
        /\ Len(SubSeq(t, 1, m)) = IF 1 <= m THEN m - 1 + 1 ELSE 0
        /\ \A k \in 1 .. m - 1 + 1 : SubSeq(t, 1, m)[k] = t[1 + k - 1]
    BY <2>1, SubSeqProperties
  <2>3. m - 1 + 1 = m /\ (~(1 <= m) => m = 0) /\ \A k \in 1 .. m : 1 + k - 1 = k
    OBVIOUS
  <2> QED
    BY <2>2, <2>3
<1>8. SubSeq(t, 1, a) = q
  <2>1. PICK s : s = SubSeq(t, 1, a)
    OBVIOUS
  <2>2. s \in Seq(S) /\ Len(s) = a /\ \A k \in 1 .. a : s[k] = q[k]
    <3>1. a \in 0 .. a + b
      OBVIOUS
    <3> QED
      BY <1>5, <1>7, <2>1, <3>1
  <2> QED
    BY <1>1, <2>1, <2>2, SeqEqual
<1>9. ASSUME b >= 1
      PROVE  SubSeq(t, 1, a + 1) = q \o <<end[1]>>
  <2>1. PICK s : s = SubSeq(t, 1, a + 1)
    OBVIOUS
  <2>2. PICK u : u = q \o <<end[1]>>
    OBVIOUS
  <2>3. end[1] \in S
    <3>1. 1 \in 1 .. Len(end)
      BY <1>2, <1>9
    <3> QED
      BY <3>1, ElementOfSeq
  <2>4. u \in Seq(S) /\ Len(u) = a + 1 /\ (\A k \in 1 .. a : u[k] = q[k]) /\ u[a + 1] = end[1]
    BY <1>1, <2>2, <2>3, OneMore
  <2>5. s \in Seq(S) /\ Len(s) = a + 1 /\ \A k \in 1 .. a + 1 : s[k] = t[k]
    <3>1. a + 1 \in 0 .. a + b
      BY <1>9
    <3> QED
      BY <1>7, <2>1, <3>1
  <2>6. \A k \in 1 .. a + 1 : s[k] = u[k]
    <3> SUFFICES ASSUME NEW k \in 1 .. a + 1 PROVE s[k] = u[k]
      OBVIOUS
    <3>1. CASE k \in 1 .. a
      BY <1>5, <2>4, <2>5, <3>1
    <3>2. CASE k = a + 1
      <4>1. 1 \in 1 .. b
        BY <1>9
      <4> QED
        BY <1>6, <2>4, <2>5, <3>2, <4>1
    <3> QED
      BY <3>1, <3>2
  <2> QED
    BY <2>1, <2>2, <2>4, <2>5, <2>6, SeqEqual
<1> QED
  BY <1>1, <1>2, <1>3, <1>4, <1>5, <1>6, <1>8, <1>9

\* What follows the query changes nothing, whether the loop reads it or leaves it.
LEMMA EndChangesNothing ==
    ASSUME NEW q \in Seq(InLine), NEW end \in Ends, NEW pairs, NEW n, ReadsPairs(q, pairs, n),
           NEW name \in Registered
    PROVE  GetParam(ReadParameters(q \o end, Registered), name) = LastOf(pairs, n, name)
<1> DEFINE Found(u) == GetParam(Flushed(ReadAll(u, Registered), Registered).values, name)
<1>0. PICK found : found = GetParam(ReadParameters(q \o end, Registered), name)
  OBVIOUS
<1>1. /\ q \in Seq(Characters) /\ end \in Seq(Characters)
      /\ end # <<>> => /\ end[1] \in {And, Blank, LineEnd}
                       /\ Len(end) = 1 \/ end[1] = Blank \/ end[2] \in {Blank, LineEnd}
  <2>1. q \in Seq(Characters)
    BY PlainIsInLine, SeqOfPart
  <2>2. CASE end = <<>>
    BY <2>1, <2>2, EmptySeq
  <2>3. CASE end # <<>>
    <3>1. end \in Ends \ {<<>>}
      BY <2>3
    <3>2. end \in Seq(STRING) /\ STRING \subseteq Characters
      BY <3>1, EndsAssumption DEF Characters
    <3> QED
      BY <2>1, <2>3, <3>1, <3>2, EndsAssumption, SeqOfPart
  <2> QED
    BY <2>2, <2>3
<1>2. PICK a \in Nat : a = Len(q)
  BY LenProperties
<1>3. PICK b \in Nat : b = Len(end) /\ (b = 0 <=> end = <<>>)
  BY <1>1, LenProperties, EmptySeq
<1>4. PICK t \in Seq(Characters) :
          /\ t = q \o end /\ Len(t) = a + b
          /\ \A k \in 1 .. a : t[k] = q[k]
          /\ \A k \in 1 .. b : t[a + k] = end[k]
          /\ SubSeq(t, 1, a) = q
          /\ b >= 1 => SubSeq(t, 1, a + 1) = q \o <<end[1]>>
  <2>1. /\ q \o end \in Seq(Characters) /\ Len(q \o end) = Len(q) + Len(end)
        /\ \A k \in 1 .. Len(q) : (q \o end)[k] = q[k]
        /\ \A k \in 1 .. Len(end) : (q \o end)[Len(q) + k] = end[k]
        /\ SubSeq(q \o end, 1, Len(q)) = q
        /\ Len(end) >= 1 => SubSeq(q \o end, 1, Len(q) + 1) = q \o <<end[1]>>
    BY <1>1, Beginning
  <2> QED
    BY <1>2, <1>3, <2>1
<1>5. \A k \in 1 .. a : t[k] \notin {Blank, LineEnd}
  <2> SUFFICES ASSUME NEW k \in 1 .. a PROVE t[k] \notin {Blank, LineEnd}
    OBVIOUS
  <2>1. q[k] \in InLine
    BY <1>2, ElementOfSeq
  <2> QED
    BY <1>4, <2>1, PlainIsInLine
<1>6. Found(q) = LastOf(pairs, n, name)
  BY EndIsRead
<1>7. \A c \in {And, LineEnd} : Found(q \o <<c>>) = LastOf(pairs, n, name)
  BY <1>1, SeparatorIsRead, EndIsRead
<1> HIDE DEF Found
\* Nothing is read: there is no pair.
<1>8. ASSUME t = <<>> \/ t[1] = Blank
      PROVE  found = LastOf(pairs, n, name)
  <2>1. a = 0
    <3> SUFFICES ASSUME a # 0 PROVE FALSE
      OBVIOUS
    <3>1. 1 \in 1 .. a
      OBVIOUS
    <3>2. t[1] # Blank /\ t # <<>>
      BY <1>4, <1>5, <3>1, EmptySeq
    <3> QED
      BY <1>8, <3>2
  <2>2. q = <<>>
    BY <1>2, <2>1, EmptySeq
  <2>3. Found(<<>>) = GetParam(<<>>, name)
    <3>1. ReadAll(<<>>, Registered) = At(<<>>, <<>>, InName, <<>>)
      BY ReadAllSteps DEF Start, At, InName
    <3>2. Flushed(At(<<>>, <<>>, InName, <<>>), Registered)
          = At(<<>>, <<>>, InName, Kept(<<>>, <<>>, <<>>, Registered))
      BY ReadFlushed
    <3>3. Kept(<<>>, <<>>, <<>>, Registered) = <<>>
      BY TextsAssumption DEF Kept
    <3>4. At(<<>>, <<>>, InName, <<>>).values = <<>>
      BY DEF At
    <3> QED
      BY <3>1, <3>2, <3>3, <3>4 DEF Found
  <2>4. ReadParameters(t, Registered) = <<>>
    <3>1. t # <<>> => Head(t) = t[1]
      BY HeadTailProperties
    <3> QED
      BY <1>8, <3>1 DEF ReadParameters
  <2> QED
    BY <1>0, <1>4, <1>6, <2>2, <2>3, <2>4
\* The loop ends behind the query.
<1>9. ASSUME a >= 1, b = 0 \/ end[1] \in {Blank, LineEnd}
      PROVE  found = LastOf(pairs, n, name)
  <2>1. t[1] # Blank /\ \A k \in 2 .. a : t[k] \notin {Blank, LineEnd}
    <3>1. 1 \in 1 .. a /\ \A k \in 2 .. a : k \in 1 .. a
      BY <1>9
    <3> QED
      BY <1>5, <3>1
  <2>2. a = Len(t) \/ t[a + 1] \in {Blank, LineEnd}
    <3>1. CASE b = 0
      BY <1>4, <3>1
    <3>2. CASE b # 0
      <4>1. 1 \in 1 .. b
        BY <3>2
      <4> QED
        BY <1>4, <1>9, <3>2, <4>1
    <3> QED
      BY <3>1, <3>2
  <2>3. ReadParameters(t, Registered) = Flushed(ReadAll(SubSeq(t, 1, a), Registered), Registered).values
    <3>1. 1 <= a /\ a <= Len(t)
      BY <1>4, <1>9
    <3> QED
      BY <2>1, <2>2, <3>1, CutIs
  <2> QED
    BY <1>0, <1>4, <1>6, <2>3 DEF Found
\* It ends behind a separator.
<1>10. ASSUME b >= 1, end[1] \in {And, LineEnd}, end[1] = And \/ a = 0
       PROVE  found = LastOf(pairs, n, name)
  <2>1. t[1] # Blank /\ \A k \in 2 .. a + 1 : t[k] \notin {Blank, LineEnd}
    <3>1. 1 \in 1 .. b /\ t[a + 1] = end[1]
      BY <1>4, <1>10
    <3>2. And # Blank /\ And # LineEnd /\ LineEnd # Blank
      BY CharactersAreDifferent
    <3>3. CASE a = 0
      <4>1. \A k \in 2 .. a + 1 : FALSE
        BY <3>3
      <4>2. t[1] = end[1]
        BY <3>1, <3>3
      <4> QED
        BY <1>10, <3>2, <4>1, <4>2
    <3>4. CASE a # 0
      <4>1. 1 \in 1 .. a /\ \A k \in 2 .. a + 1 : k \in 1 .. a \/ k = a + 1
        BY <3>4
      <4>2. t[a + 1] \notin {Blank, LineEnd}
        BY <1>10, <3>1, <3>2, <3>4
      <4> QED
        BY <1>5, <4>1, <4>2
    <3> QED
      BY <3>3, <3>4
  <2>2. a + 1 = Len(t) \/ t[(a + 1) + 1] \in {Blank, LineEnd}
    <3>1. CASE b = 1
      BY <1>4, <3>1
    <3>2. CASE b # 1
      <4>1. 2 \in 1 .. b /\ (a + 1) + 1 = a + 2
        BY <1>10, <3>2
      <4>2. end[1] # Blank
        BY <1>10, CharactersAreDifferent
      <4> QED
        BY <1>1, <1>3, <1>4, <1>10, <3>2, <4>1, <4>2
    <3> QED
      BY <3>1, <3>2
  <2>3. ReadParameters(t, Registered)
        = Flushed(ReadAll(SubSeq(t, 1, a + 1), Registered), Registered).values
    <3>1. 1 <= a + 1 /\ a + 1 <= Len(t) /\ a + 1 \in Nat
      BY <1>4, <1>10
    <3> QED
      BY <2>1, <2>2, <3>1, CutIs
  <2>4. SubSeq(t, 1, a + 1) = q \o <<end[1]>>
    BY <1>4, <1>10
  <2>5. Found(q \o <<end[1]>>) = LastOf(pairs, n, name)
    BY <1>7, <1>10
  <2> QED
    BY <1>0, <1>4, <2>3, <2>4, <2>5 DEF Found
<1>11. CASE a = 0 /\ b = 0
  <2>1. t = <<>>
    BY <1>4, <1>11, EmptySeq
  <2> QED
    BY <1>0, <1>8, <2>1
<1>12. CASE a = 0 /\ b # 0
  <2>1. 1 \in 1 .. b /\ b >= 1 /\ t[1] = end[1]
    BY <1>4, <1>12
  <2>2. end[1] \in {And, Blank, LineEnd}
    BY <1>1, <1>3, <1>12
  <2> QED
    BY <1>0, <1>8, <1>10, <1>12, <2>1, <2>2
<1>13. CASE a # 0
  <2>1. a >= 1
    BY <1>13
  <2>2. CASE b = 0 \/ end[1] \in {Blank, LineEnd}
    BY <1>0, <1>9, <2>1, <2>2
  <2>3. CASE b # 0 /\ end[1] = And
    BY <1>0, <1>10, <2>3
  <2>4. b # 0 => end[1] \in {And, Blank, LineEnd}
    BY <1>1, <1>3
  <2> QED
    BY <2>2, <2>3, <2>4
<1> QED
  BY <1>11, <1>12, <1>13

-----------------------------------------------------------------------------
(* What invoke() takes for the query                                       *)

\* Behind a path without a question mark, the query is what follows the first one.
LEMMA QueryIs ==
    ASSUME NEW path \in Seq(STRING \ {Question, Blank}), NEW q \in Seq(Characters)
    PROVE  /\ QueryOf(path \o <<>>) = <<>>
           /\ QueryOf(path \o (<<Question>> \o q)) = q
<1>1. PICK a \in Nat : a = Len(path)
  BY LenProperties
<1>2. path \in Seq(Characters) /\ \A k \in 1 .. a : path[k] # Question
  <2>1. STRING \ {Question, Blank} \subseteq Characters
    BY DEF Characters
  <2>2. \A k \in 1 .. a : path[k] \in STRING \ {Question, Blank}
    BY <1>1, ElementOfSeq
  <2> QED
    BY <2>1, <2>2, SeqOfPart
<1>3. QueryOf(path \o <<>>) = <<>>
  <2>1. path \o <<>> = path
    BY ConcatEmptySeq
  <2>2. DOMAIN path = 1 .. a
    BY <1>1, LenProperties
  <2>3. ~Has(path, Question)
    BY <1>2, <2>2 DEF Has, ToSet
  <2> QED
    BY <2>1, <2>3 DEF QueryOf
<1>4. QueryOf(path \o (<<Question>> \o q)) = q
  <2>1. PICK b \in Nat : b = Len(q)
    BY LenProperties
  <2>2. Question \in Characters /\ <<Question>> \in Seq(Characters) /\ Len(<<Question>>) = 1
        /\ <<Question>>[1] = Question
    BY DEF Characters
  <2>3. PICK u \in Seq(Characters) :
            /\ u = <<Question>> \o q /\ Len(u) = b + 1
            /\ u[1] = Question /\ \A k \in 1 .. b : u[1 + k] = q[k]
    <3>1. /\ <<Question>> \o q \in Seq(Characters) /\ Len(<<Question>> \o q) = 1 + b
          /\ \A k \in 1 .. 1 : (<<Question>> \o q)[k] = <<Question>>[k]
          /\ \A k \in 1 .. b : (<<Question>> \o q)[1 + k] = q[k]
      BY <2>1, <2>2, Beginning
    <3>2. (<<Question>> \o q)[1] = Question /\ 1 + b = b + 1
      BY <2>2, <3>1
    <3> QED
      BY <3>1, <3>2
  <2>4. PICK url \in Seq(Characters) :
            /\ url = path \o u /\ Len(url) = a + (b + 1)
            /\ \A k \in 1 .. a : url[k] = path[k]
            /\ \A k \in 1 .. b + 1 : url[a + k] = u[k]
            /\ SubSeq(url, 1, a) = path
    <3>1. /\ path \o u \in Seq(Characters) /\ Len(path \o u) = Len(path) + Len(u)
          /\ \A k \in 1 .. Len(path) : (path \o u)[k] = path[k]
          /\ \A k \in 1 .. Len(u) : (path \o u)[Len(path) + k] = u[k]
          /\ SubSeq(path \o u, 1, Len(path)) = path
      BY <1>2, <2>3, Beginning
    <3> QED
      BY <1>1, <2>3, <3>1
  <2>5. url[a + 1] = Question /\ a + 1 \in 1 .. a + (b + 1)
    <3>1. 1 \in 1 .. b + 1 /\ a + 1 \in 1 .. a + (b + 1)
      OBVIOUS
    <3>2. url[a + 1] = u[1]
      BY <2>4, <3>1
    <3> QED
      BY <2>3, <3>1, <3>2
  <2>6. Has(url, Question)
    <3>1. DOMAIN url = 1 .. a + (b + 1)
      BY <2>4, LenProperties
    <3> QED
      BY <2>5, <3>1 DEF Has, ToSet
  <2>7. PathOf(url) = path
    <3>1. Before(url, {Question}) = SubSeq(url, 1, a)
      <4>1. a <= Len(url)
        BY <2>4
      <4>2. \A k \in 1 .. a : url[k] \notin {Question}
        BY <1>2, <2>4
      <4>3. url[a + 1] \in {Question}
        BY <2>5
      <4> QED
        BY <4>1, <4>2, <4>3, BeforeIs
    <3> QED
      BY <2>4, <2>6, <3>1 DEF PathOf
  <2>8. QueryOf(url) = SubSeq(url, a + 2, a + (b + 1))
    BY <1>1, <2>4, <2>6, <2>7 DEF QueryOf
  <2>9. SubSeq(url, a + 2, a + (b + 1)) = q
    <3>1. PICK i \in Nat : i = a + 2
      OBVIOUS
    <3>2. PICK j \in Nat : j = a + (b + 1)
      OBVIOUS
    <3>3. \A k \in i .. j : url[k] \in Characters
      <4> SUFFICES ASSUME NEW k \in i .. j PROVE url[k] \in Characters
        OBVIOUS
      <4>1. k \in 1 .. Len(url)
        BY <2>4, <3>1, <3>2
      <4> QED
        BY <4>1, ElementOfSeq
    <3>4. /\ SubSeq(url, i, j) \in Seq(Characters)
          /\ Len(SubSeq(url, i, j)) = IF i <= j THEN j - i + 1 ELSE 0
          /\ \A k \in 1 .. j - i + 1 : SubSeq(url, i, j)[k] = url[i + k - 1]
      BY <3>3, SubSeqProperties
    <3>5. j - i + 1 = b /\ (~(i <= j) => b = 0)
      BY <3>1, <3>2
    <3>6. \A k \in 1 .. b : SubSeq(url, i, j)[k] = q[k]
      <4> SUFFICES ASSUME NEW k \in 1 .. b PROVE SubSeq(url, i, j)[k] = q[k]
        OBVIOUS
      <4>1. i + k - 1 = a + (1 + k) /\ 1 + k \in 1 .. b + 1
        BY <3>1
      <4>2. url[i + k - 1] = u[1 + k]
        BY <2>4, <4>1
      <4> QED
        BY <2>3, <3>4, <3>5, <4>2
    <3>7. Len(SubSeq(url, i, j)) = b
      BY <3>4, <3>5
    <3> QED
      BY <2>1, <3>1, <3>2, <3>4, <3>6, <3>7, SeqEqual
  <2> QED
    BY <2>3, <2>4, <2>8, <2>9
<1> QED
  BY <1>3, <1>4

\* Whatever a client writes, the callback finds the value given last.
LEMMA LastGivenIsFound ==
    ASSUME NEW path \in Seq(STRING \ {Question, Blank}), NEW pairs \in Seq(Names \X Values),
           NEW text \in Texts(pairs), NEW name \in Registered
    PROVE  GetParam(ReadParameters(QueryOf(path \o text), Registered), name)
           = LastOf(pairs, Len(pairs), name)
<1>1. CASE pairs = <<>> /\ text = <<>>
  <2>1. QueryOf(path \o <<>>) = <<>>
    BY EmptySeq, QueryIs
  <2>2. ReadParameters(<<>>, Registered) = <<>>
    BY DEF ReadParameters
  <2>3. GetParam(<<>>, name) = <<>>
    <3>1. DOMAIN <<>> = {}
      OBVIOUS
    <3> QED
      BY <3>1 DEF GetParam
  <2>4. Len(pairs) = 0 /\ LastOf(pairs, 0, name) = <<>>
    BY <1>1, LastOfMore
  <2> QED
    BY <1>1, <2>1, <2>2, <2>3, <2>4
<1>2. CASE \E bare \in BOOLEAN, end \in Ends : text = <<Question>> \o QueryText(pairs, bare) \o end
  <2>1. PICK bare \in BOOLEAN, end \in Ends : text = <<Question>> \o QueryText(pairs, bare) \o end
    BY <1>2
  <2>2. PICK q \in Seq(InLine) : q = QueryText(pairs, bare) /\ ReadsPairs(q, pairs, Len(pairs))
    BY QueryIsRead
  <2>3. q \in Seq(Characters) /\ end \in Seq(Characters) /\ <<Question>> \in Seq(Characters)
    <3>1. q \in Seq(Characters)
      BY PlainIsInLine, SeqOfPart
    <3>3. STRING \subseteq Characters /\ Question \in Characters
      BY DEF Characters
    <3>2. end \in Seq(Characters)
      BY <3>3, EmptySeq, EndsAssumption, SeqOfPart
    <3> QED
      BY <3>1, <3>2, <3>3
  <2>4. text = <<Question>> \o (q \o end) /\ q \o end \in Seq(Characters)
    BY <2>1, <2>2, <2>3, ConcatAssociative, ConcatProperties
  <2>5. QueryOf(path \o text) = q \o end
    BY <2>4, QueryIs
  <2> QED
    BY <2>2, <2>5, EndChangesNothing
<1> QED
  BY <1>1, <1>2 DEF Texts

-----------------------------------------------------------------------------
(* What the handlers find                                                  *)

\* A call has found what its client gave last.
FoundLast(call) ==
    \A name \in Registered :
        LET given == {k \in DOMAIN call.pairs : call.pairs[k][1] = name}
        IN  GetParam(call.values, name) = IF given = {} THEN <<>> ELSE call.pairs[Max(given)][2]

\* Every thread is in a call or outside, and the calls have found what was given last.
CallsInv ==
    /\ calls = [u \in Threads |-> calls[u]]
    /\ \A u \in Threads : calls[u] # Outside => FoundLast(calls[u])

\* The last value of a name, among all the pairs.
LEMMA LastOfAll ==
    ASSUME NEW pairs \in Seq(Names \X Values), NEW name
    PROVE  LastOf(pairs, Len(pairs), name)
           = LET given == {k \in DOMAIN pairs : pairs[k][1] = name}
             IN  IF given = {} THEN <<>> ELSE pairs[Max(given)][2]
<1>1. DOMAIN pairs = 1 .. Len(pairs)
  BY LenProperties
<1> QED
  BY <1>1 DEF LastOf

\* What clients write is a sequence of pairs.
LEMMA PairsAreSequences ==
    ASSUME NEW pairs \in Pairs
    PROVE  pairs \in Seq(Names \X Values)
<1>1. pairs \in BoundedSeq(Names \X Values, MaxPairs)
  BY DEF Pairs
<1>2. PICK m \in 0 .. MaxPairs : pairs \in [1 .. m -> Names \X Values]
  BY <1>1 DEF BoundedSeq, SeqOf
<1>3. m \in Nat
  BY BoundAssumption
<1> QED
  BY <1>2, <1>3, SeqDef

\* A call reads what its client gave.
LEMMA InvokeCallsInv ==
    ASSUME CallsInv, NEW t \in Threads, NEW m \in Methods, NEW path \in Paths,
           NEW pairs \in Pairs, NEW text \in Texts(pairs), Invoke(t, m, path, pairs, text)
    PROVE  CallsInv'
<1> DEFINE c == Answer(m, PathOf(path \o text))
           read == ReadParameters(QueryOf(path \o text), Registered)
           call == [p |-> c, pairs |-> pairs, values |-> read]
<1>1. CASE UNCHANGED calls
  BY <1>1 DEF CallsInv
<1>2. CASE calls' = [calls EXCEPT ![t] = call]
  <2>1. path \in Seq(STRING \ {Question, Blank}) /\ pairs \in Seq(Names \X Values)
    BY PathsAssumption, PairsAreSequences
  <2>2. call.pairs = pairs /\ call.values = read
    OBVIOUS
  <2> HIDE DEF call
  <2>5. FoundLast(call)
    <3> SUFFICES ASSUME NEW name \in Registered
                 PROVE  LET given == {k \in DOMAIN pairs : pairs[k][1] = name}
                        IN  GetParam(read, name) = IF given = {} THEN <<>> ELSE pairs[Max(given)][2]
      BY <2>2 DEF FoundLast
    <3>1. GetParam(read, name) = LastOf(pairs, Len(pairs), name)
      BY <2>1, LastGivenIsFound
    <3> HIDE DEF read
    <3> QED
      BY <2>1, <3>1, LastOfAll, Zenon
  <2>3. /\ calls' = [u \in Threads |-> calls'[u]]
        /\ calls'[t] = call /\ \A u \in Threads : u # t => calls'[u] = calls[u]
    BY <1>2 DEF CallsInv
  <2> QED
    BY <2>3, <2>5 DEF CallsInv
<1> QED
  BY <1>1, <1>2 DEF Invoke, Crash

\* No other step gives a call values, or changes those it has.
LEMMA NextCallsInv ==
    ASSUME CallsInv, [Next]_vars
    PROVE  CallsInv'
<1>1. CASE UNCHANGED calls
  BY <1>1 DEF CallsInv
<1>2. ASSUME NEW c \in Callbacks, NEW uri \in Uris, NEW m \in Methods,
             RemoveCallBack(c) \/ AddCallBack(uri, m, c)
      PROVE  UNCHANGED calls
  BY <1>2 DEF RemoveCallBack, AddCallBack
<1>3. ASSUME NEW c \in Callbacks, RemoveCallBack(c)
      PROVE  UNCHANGED calls
  BY <1>3 DEF RemoveCallBack
<1>4. Destroy => UNCHANGED calls
  BY DEF Destroy, Crash
<1>5. ASSUME NEW t \in Threads, Return(t)
      PROVE  CallsInv'
  <2>1. /\ calls' = [u \in Threads |-> calls'[u]]
        /\ calls'[t] = Outside /\ \A u \in Threads : u # t => calls'[u] = calls[u]
    BY <1>5 DEF Return, CallsInv
  <2> QED
    BY <2>1 DEF CallsInv
<1>6. ASSUME NEW t \in Threads, NEW m \in Methods, NEW path \in Paths, NEW pairs \in Pairs,
             NEW text \in Texts(pairs), Invoke(t, m, path, pairs, text)
      PROVE  CallsInv'
  BY <1>6, InvokeCallsInv
<1>7. UNCHANGED vars => UNCHANGED calls
  BY DEF vars
<1> QED
  BY <1>1, <1>2, <1>3, <1>4, <1>5, <1>6, <1>7 DEF Next

\* A handler finds each parameter of its callback with the value that the client gave
\* it last, and none that it did not give: for all pairs of words, in whichever way they
\* are written and whatever separator or rest of the request follows them.
THEOREM ParametersAreRead == Spec => []LastGivenIsRead
<1>1. Init => CallsInv
  BY DEF Init, CallsInv
<1>2. CallsInv /\ [Next]_vars => CallsInv'
  BY NextCallsInv
<1>3. CallsInv => LastGivenIsRead
  BY DEF CallsInv, FoundLast, LastGivenIsRead, Inside
<1> QED
  BY <1>1, <1>2, <1>3, PTL DEF Spec

-----------------------------------------------------------------------------
(* The types of the calls                                                  *)

\* The values that are kept so far are of parameters that some callback has.
KeepsRegistered(r) ==
    \E k, v, vs : \E flag \in {InName, InValue} :
        r = At(k, v, flag, vs) /\ DOMAIN vs \subseteq Registered

\* What is kept when a parameter ends is one of those.
LEMMA KeptIsRegistered ==
    ASSUME NEW k, NEW v, NEW vs, DOMAIN vs \subseteq Registered
    PROVE  DOMAIN Kept(k, v, vs, Registered) \subseteq Registered
BY DEF Kept

\* No character changes that.
LEMMA ReadKeepsRegistered ==
    ASSUME NEW r, KeepsRegistered(r), NEW c
    PROVE  KeepsRegistered(Read(r, c, Registered))
<1>1. PICK k, v, vs : \E flag \in {InName, InValue} :
          r = At(k, v, flag, vs) /\ DOMAIN vs \subseteq Registered
  BY DEF KeepsRegistered
<1>2. PICK flag \in {InName, InValue} : r = At(k, v, flag, vs) /\ DOMAIN vs \subseteq Registered
  BY <1>1
<1>3. CASE c = Equals
  <2>1. Read(r, c, Registered) = At(k, v, InValue, vs)
    BY <1>2, <1>3, ReadEquals
  <2> QED
    BY <1>2, <2>1 DEF KeepsRegistered
<1>4. CASE c \in {And, LineEnd}
  <2>1. Read(r, c, Registered) = At(<<>>, <<>>, InName, Kept(k, v, vs, Registered))
    BY <1>2, <1>4, ReadSeparator
  <2>2. DOMAIN Kept(k, v, vs, Registered) \subseteq Registered
    BY <1>2, KeptIsRegistered
  <2> QED
    BY <2>1, <2>2 DEF KeepsRegistered
<1>5. CASE c # Equals /\ c \notin {And, LineEnd}
  <2>1. flag = InName => Read(r, c, Registered) = At(Append(k, c), v, InName, vs)
    BY <1>2, <1>5 DEF Read, At, InName
  <2>2. flag = InValue => Read(r, c, Registered) = At(k, Append(v, c), InValue, vs)
    BY <1>2, <1>5 DEF Read, At, InValue
  <2> QED
    BY <1>2, <2>1, <2>2 DEF KeepsRegistered
<1> QED
  BY <1>3, <1>4, <1>5

\* Nor does a text.
LEMMA TextKeepsRegistered ==
    \A t \in Seq(Characters) : KeepsRegistered(ReadAll(t, Registered))
<1> DEFINE W == {u \in Seq(Characters) : KeepsRegistered(ReadAll(u, Registered))}
<1>1. <<>> \in W
  <2>1. ReadAll(<<>>, Registered) = Start
    BY ReadAllSteps
  <2>2. Start = At(<<>>, <<>>, InName, <<>>) /\ DOMAIN <<>> = {}
    BY DEF Start, At, InName
  <2>3. KeepsRegistered(Start)
    BY <2>2 DEF KeepsRegistered
  <2> QED
    BY <2>1, <2>3, EmptySeq
<1>2. ASSUME NEW u \in Seq(Characters), NEW c \in Characters, u \in W
      PROVE  u \o <<c>> \in W
  <2>1. ReadAll(u \o <<c>>, Registered) = Read(ReadAll(u, Registered), c, Registered)
    BY ReadAllSteps
  <2>2. u \o <<c>> \in Seq(Characters)
    BY OneMore
  <2> QED
    BY <1>2, <2>1, <2>2, ReadKeepsRegistered
<1> HIDE DEF W
<1>3. \A s \in Seq(Characters) : s \in W
  BY <1>1, <1>2, SequenceInduction
<1> QED
  BY <1>3 DEF W

\* The text before a character is a part of the text.
LEMMA BeforeIsPart ==
    ASSUME NEW A, NEW s \in Seq(A), NEW S
    PROVE  Len(Before(s, S)) \in Nat /\ Len(Before(s, S)) <= Len(s)
<1> DEFINE T == {k \in DOMAIN s : s[k] \in S} \cup {Len(s) + 1}
<1>1. PICK n \in Nat : n = Len(s) /\ DOMAIN s = 1 .. n
  BY LenProperties
<1>2. T \subseteq Nat /\ n + 1 \in T /\ \A k \in T : 1 <= k /\ k <= n + 1
  BY <1>1
<1>3. Before(s, S) = SubSeq(s, 1, Min(T) - 1)
  BY DEF Before
<1> HIDE DEF T
<1>4. Min(T) \in T
  BY <1>2, LeastNumber
<1>5. PICK x : x = Min(T)
  OBVIOUS
<1>9. x \in Nat /\ 1 <= x /\ x <= n + 1
  BY <1>2, <1>4, <1>5
<1>10. PICK m \in Nat : m = x - 1 /\ m <= n
  BY <1>1, <1>9
<1>6. \A k \in 1 .. m : s[k] \in A
  BY <1>1, <1>10, ElementOfSeq
<1>7. Len(SubSeq(s, 1, m)) = IF 1 <= m THEN m - 1 + 1 ELSE 0
  BY <1>6, SubSeqProperties
<1>8. Len(Before(s, S)) = m
  BY <1>3, <1>5, <1>7, <1>10
<1> QED
  BY <1>1, <1>8, <1>10

\* The values of a call are those of parameters that some callback has.
LEMMA ValuesAreRegistered ==
    ASSUME NEW t \in Seq(Characters)
    PROVE  DOMAIN ReadParameters(t, Registered) \subseteq Registered
<1>1. CASE t = <<>> \/ Head(t) = Blank
  <2>1. ReadParameters(t, Registered) = <<>> /\ DOMAIN <<>> = {}
    BY <1>1 DEF ReadParameters
  <2> QED
    BY <2>1
<1>2. CASE ~(t = <<>> \/ Head(t) = Blank)
  <2>1. PICK n \in Nat : n = Len(t)
    BY LenProperties
  <2>2. Tail(t) \in Seq(Characters) /\ Len(Tail(t)) = n - 1
    BY <1>2, <2>1, HeadTailProperties
  <2>3. PICK b : b = Len(Before(Tail(t), {Blank, LineEnd}))
    OBVIOUS
  <2>4. b \in Nat /\ b <= n - 1
    BY <2>2, <2>3, BeforeIsPart
  <2>5. PICK m \in Nat : m = b + 1 /\ m <= n
    BY <2>1, <2>4
  <2>6. PICK s : s = SubSeq(t, 1, m)
    OBVIOUS
  <2>7. s \in Seq(Characters)
    <3>1. \A k \in 1 .. m : t[k] \in Characters
      BY <2>1, <2>5, ElementOfSeq
    <3> QED
      BY <2>6, <3>1, SubSeqProperties
  <2>8. ReadParameters(t, Registered) = Flushed(ReadAll(s, Registered), Registered).values
    BY <1>2, <2>3, <2>5, <2>6 DEF ReadParameters
  <2>9. PICK r : r = ReadAll(s, Registered)
    OBVIOUS
  <2>10. KeepsRegistered(r)
    BY <2>7, <2>9, TextKeepsRegistered
  <2>11. PICK k, v, vs : \E flag \in {InName, InValue} :
             r = At(k, v, flag, vs) /\ DOMAIN vs \subseteq Registered
    BY <2>10 DEF KeepsRegistered
  <2>12. PICK flag \in {InName, InValue} : r = At(k, v, flag, vs) /\ DOMAIN vs \subseteq Registered
    BY <2>11
  <2>13. Flushed(r, Registered) = At(<<>>, <<>>, InName, Kept(k, v, vs, Registered))
    BY <2>12, ReadFlushed
  <2>14. Flushed(r, Registered).values = Kept(k, v, vs, Registered)
    BY <2>13 DEF At
  <2> QED
    BY <2>8, <2>9, <2>12, <2>14, KeptIsRegistered
<1> QED
  BY <1>1, <1>2

\* A text that is not empty is a question mark, pairs and an end.
LEMMA TextIsWritten ==
    ASSUME NEW pairs, NEW text \in Texts(pairs), text # <<>>
    PROVE  \E bare \in BOOLEAN, end \in Ends :
               text = <<Question>> \o QueryText(pairs, bare) \o end
  BY DEF Texts

\* What invoke() takes for the query is a text.
LEMMA QueryIsText ==
    ASSUME NEW path \in Seq(STRING \ {Question, Blank}), NEW pairs \in Seq(Names \X Values),
           NEW text \in Texts(pairs)
    PROVE  QueryOf(path \o text) \in Seq(Characters)
<1>1. CASE text = <<>>
  <2>1. QueryOf(path \o <<>>) = <<>>
    BY EmptySeq, QueryIs
  <2> QED
    BY <1>1, <2>1, EmptySeq
<1>2. CASE text # <<>>
  <2>1. PICK bare \in BOOLEAN, end \in Ends : text = <<Question>> \o QueryText(pairs, bare) \o end
    BY <1>2, TextIsWritten
  <2>2. PICK q \in Seq(InLine) : q = QueryText(pairs, bare) /\ ReadsPairs(q, pairs, Len(pairs))
    BY QueryIsRead
  <2>3. q \in Seq(Characters) /\ end \in Seq(Characters) /\ <<Question>> \in Seq(Characters)
    <3>1. q \in Seq(Characters)
      BY PlainIsInLine, SeqOfPart
    <3>2. STRING \subseteq Characters /\ Question \in Characters
      BY DEF Characters
    <3>3. end \in Seq(Characters)
      BY <3>2, EmptySeq, EndsAssumption, SeqOfPart
    <3> QED
      BY <3>1, <3>2, <3>3
  <2>4. text = <<Question>> \o (q \o end) /\ q \o end \in Seq(Characters)
    BY <2>1, <2>2, <2>3, ConcatAssociative, ConcatProperties
  <2> QED
    BY <2>4, QueryIs
<1> QED
  BY <1>1, <1>2

\* What a call under way is.
IsCall(call) ==
    /\ call.p \in Callbacks
    /\ call.pairs \in BoundedSeq(Names \X Values, MaxPairs)
    /\ DOMAIN call.values \subseteq Registered

\* The types of the calls, and of what has two values.
CallTypes ==
    /\ \A u \in Threads : calls[u] = Outside \/ IsCall(calls[u])
    /\ engine \in BOOLEAN /\ crashed \in BOOLEAN

\* A call begins with a callback and values of its parameters.
LEMMA InvokeCallTypes ==
    ASSUME CallsInv, CallTypes, NEW t \in Threads, NEW m \in Methods, NEW path \in Paths,
           NEW pairs \in Pairs, NEW text \in Texts(pairs), Invoke(t, m, path, pairs, text)
    PROVE  CallTypes'
<1>1. PICK c, url, values :
          /\ url = path \o text /\ c = Answer(m, PathOf(url))
          /\ values = ReadParameters(QueryOf(url), Registered)
  OBVIOUS
<1>2. PICK call : call = [p |-> c, pairs |-> pairs, values |-> values]
  OBVIOUS
<1>3. /\ c \in Callbacks
      /\ \/ crashed' = TRUE /\ UNCHANGED <<calls, engine>>
         \/ calls' = [calls EXCEPT ![t] = call] /\ UNCHANGED <<engine, crashed>>
  BY <1>1, <1>2, Zenon DEF Invoke, Crash
<1>4. IsCall(call)
  <2>1. path \in Seq(STRING \ {Question, Blank}) /\ pairs \in Seq(Names \X Values)
    BY PathsAssumption, PairsAreSequences
  <2>2. QueryOf(url) \in Seq(Characters)
    BY <1>1, <2>1, QueryIsText
  <2>3. DOMAIN values \subseteq Registered
    BY <1>1, <2>2, ValuesAreRegistered
  <2>4. pairs \in BoundedSeq(Names \X Values, MaxPairs)
    BY DEF Pairs
  <2>5. call.p = c /\ call.pairs = pairs /\ call.values = values
    BY <1>2
  <2> QED
    BY <1>3, <2>3, <2>4, <2>5, Zenon DEF IsCall
<1>5. CASE crashed' = TRUE /\ UNCHANGED <<calls, engine>>
  BY <1>5 DEF CallTypes
<1>6. CASE calls' = [calls EXCEPT ![t] = call] /\ UNCHANGED <<engine, crashed>>
  <2>1. calls'[t] = call /\ \A u \in Threads : u # t => calls'[u] = calls[u]
    BY <1>6 DEF CallsInv
  <2>2. \A u \in Threads : calls'[u] = Outside \/ IsCall(calls'[u])
    BY <1>4, <2>1 DEF CallTypes
  <2> QED
    BY <1>6, <2>2 DEF CallTypes
<1> QED
  BY <1>3, <1>5, <1>6

\* Every step keeps them.
LEMMA NextCallTypes ==
    ASSUME CallsInv, CallTypes, [Next]_vars
    PROVE  CallTypes'
<1>1. CASE UNCHANGED <<calls, engine, crashed>>
  BY <1>1 DEF CallTypes
<1>2. ASSUME NEW c \in Callbacks, NEW uri \in Uris, NEW m \in Methods, AddCallBack(uri, m, c)
      PROVE  UNCHANGED <<calls, engine, crashed>>
  BY <1>2 DEF AddCallBack
<1>3. ASSUME NEW c \in Callbacks, RemoveCallBack(c)
      PROVE  UNCHANGED <<calls, engine, crashed>>
  BY <1>3 DEF RemoveCallBack
<1>4. CASE Destroy
  <2>1. UNCHANGED calls /\ engine' \in BOOLEAN /\ crashed' \in BOOLEAN
    BY <1>4 DEF Destroy, Crash, CallTypes
  <2> QED
    BY <2>1 DEF CallTypes
<1>5. ASSUME NEW t \in Threads, Return(t)
      PROVE  CallTypes'
  <2>1. /\ calls'[t] = Outside /\ \A u \in Threads : u # t => calls'[u] = calls[u]
        /\ UNCHANGED <<engine, crashed>>
    BY <1>5 DEF Return, CallsInv
  <2> QED
    BY <2>1 DEF CallTypes
<1>6. ASSUME NEW t \in Threads, NEW m \in Methods, NEW path \in Paths, NEW pairs \in Pairs,
             NEW text \in Texts(pairs), Invoke(t, m, path, pairs, text)
      PROVE  CallTypes'
  BY <1>6, InvokeCallTypes
<1>7. UNCHANGED vars => UNCHANGED <<calls, engine, crashed>>
  BY DEF vars
<1> QED
  BY <1>1, <1>2, <1>3, <1>4, <1>5, <1>6, <1>7 DEF Next

\* Every variable of the engine keeps its type: a call has a callback of the application, and
\* values of parameters that some callback has.
THEOREM TypeCorrect == Spec => []TypeOK
<1>1. Init => CallsInv /\ CallTypes
  BY DEF Init, CallsInv, CallTypes
<1>2. CallsInv /\ CallTypes /\ [Next]_vars => (CallsInv /\ CallTypes)'
  BY NextCallsInv, NextCallTypes
<1>3. Spec => [](CallsInv /\ CallTypes)
  BY <1>1, <1>2, PTL DEF Spec
<1>4. IInv /\ CallTypes => TypeOK
  BY DEF IInv, TableInv, RoutesInv, CallTypes, IsCall, TypeOK
<1> QED
  BY <1>3, <1>4, Invariance, PTL

=============================================================================
