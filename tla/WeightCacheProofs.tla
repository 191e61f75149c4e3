------------------------- MODULE WeightCacheProofs --------------------------
(***************************************************************************)
(* Theorems about WeightCache, for every number of weights and objects and *)
(* every set of data.                                                      *)
(***************************************************************************)
EXTENDS WeightCache, FiniteSetTheorems, TLAPS

\* The inductive invariant.
CacheInv == TypeOK /\ EntriesKept /\ NoWeightLeak

-----------------------------------------------------------------------------
(* The key.                                                                *)

\* The loop reads the first word and no other.
LEMMA SampledFirst ==
  ASSUME NEW data \in Data
  PROVE  Sampled(data) = {0}
<1> DEFINE n == Len(data)
<1>1. n \in Nat /\ n > 0
  BY DataAssumption
<1>2. Size(data) \div SizeOfWord = n /\ Size(data) \div 2 = 2 * n
  BY <1>1 DEF Size, SizeOfWord
<1>3. ASSUME NEW m \in Nat, m > 0, NEW i \in 0 .. m - 1
      PROVE  (i % (2 * m) = 0) <=> i = 0
  BY <1>3
<1> HIDE DEF n
<1>4. {i \in 0 .. n - 1 : i % (2 * n) = 0} = {0}
  BY <1>1, <1>3
<1> QED BY <1>2, <1>4 DEF Sampled

\* So the key is the first word.
LEMMA KeyIsFirstWord ==
  ASSUME NEW data \in Data
  PROVE  w_key(data) = data[1]
<1>1. Sampled(data) = {0}
  BY SampledFirst
<1>2. 1 \in DOMAIN data
  BY DataAssumption
<1> DEFINE odd(m) == m % 2 = 1
<1>a. odd(1) /\ ~odd(0)
  OBVIOUS
<1> HIDE DEF odd
<1>3. ASSUME NEW b
      PROVE  odd(Cardinality({i \in {0} : b \in data[i + 1]})) <=> b \in data[1]
  <2>1. CASE b \in data[1]
    <3>1. {i \in {0} : b \in data[i + 1]} = {0}
      BY <2>1
    <3>2. Cardinality({0}) = 1
      BY FS_Singleton
    <3> QED BY <2>1, <3>1, <3>2, <1>a
  <2>2. CASE b \notin data[1]
    <3>1. {i \in {0} : b \in data[i + 1]} = {}
      BY <2>2
    <3>2. Cardinality({}) = 0
      BY FS_EmptySet
    <3> QED BY <2>2, <3>1, <3>2, <1>a
  <2> QED BY <2>1, <2>2
<1>4. data[1] \subseteq UNION {data[i] : i \in DOMAIN data}
  BY <1>2
<1> QED BY <1>1, <1>3, <1>4 DEF w_key, odd

-----------------------------------------------------------------------------
(* Steps.                                                                  *)

LEMMA ReorderedFacts ==
  ASSUME TypeOK, NEW w \in Weights, NEW order \in PimGemmOrder,
         NEW onDevice \in BOOLEAN
  PROVE  /\ Reordered(w, order, onDevice) \in Conversion
         /\ Reordered(w, order, onDevice) # NoObj
         /\ Reordered(w, order, onDevice).data = weight[w].data
         /\ weight[w].data \in Data
<1>1. weight[w].data \in Data
  BY DEF TypeOK
<1>2. check_need_for_transpose(order, w) \in BOOLEAN
  BY DEF check_need_for_transpose
<1> QED BY <1>1, <1>2 DEF Reordered, Conversion, NoObj

\* A lookup that finds an object, and a conversion, of weight w.
LEMMA GetInv ==
  ASSUME CacheInv, Running, NEW w \in Weights, NEW order \in PimGemmOrder,
         NEW onDevice \in BOOLEAN, NEW save \in BOOLEAN, NEW o \in Objs,
         get_preloaded_pim_gemm_weight(w, order, onDevice, save, o),
         UNCHANGED <<pim_initialized, weight, dangling>>,
         held' = held \cup {<<o, save>>} \/ (save /\ held' = held)
  PROVE  CacheInv'
<1> DEFINE r == Reordered(w, order, onDevice)
           k == w_key(weight[w].data)
<1>r. r \in Conversion /\ r # NoObj /\ r.data = weight[w].data /\ weight[w].data \in Data
  BY ReorderedFacts DEF CacheInv
<1>k. k \in Keys
  BY <1>r DEF Keys
<1>h. /\ held' \subseteq Objs \X BOOLEAN /\ held \subseteq held'
      /\ Given \subseteq Given' /\ (o \in Given' \/ save)
  <2>1. held \subseteq Objs \X BOOLEAN /\ <<o, save>> \in Objs \X BOOLEAN
    BY DEF CacheInv, TypeOK
  <2>2. held \subseteq held' /\ held' \subseteq held \cup {<<o, save>>}
    OBVIOUS
  <2>3. <<o, save>> \in held' \/ save
    OBVIOUS
  <2>4. <<o, save>>[1] = o
    OBVIOUS
  <2>5. Given \subseteq Given'
    BY <2>2 DEF Given
  <2>6. o \in Given' \/ save
    <3>1. CASE save
      BY <3>1
    <3>2. CASE <<o, save>> \in held'
      BY <3>2, <2>4, Zenon DEF Given
    <3> QED BY <3>1, <3>2, <2>3
  <2> QED BY <2>1, <2>2, <2>5, <2>6
<1> HIDE DEF r, k
<1>1. CASE /\ o \in find_preloaded_pim_weight(w) /\ UNCHANGED <<weight_map_, obj>>
           /\ read_deleted' = read_deleted \/ (read_deleted' = TRUE /\ obj[o] = NoObj)
  <2>1. k \in DOMAIN weight_map_ /\ o = weight_map_[k]
    BY <1>1 DEF find_preloaded_pim_weight, k
  <2>2. read_deleted' \in BOOLEAN /\ (read_deleted' => dangling # {})
    <3>1. CASE read_deleted' = read_deleted
      BY <3>1 DEF CacheInv, TypeOK, EntriesKept
    <3>2. CASE read_deleted' = TRUE /\ obj[o] = NoObj
      <4>1. k \in dangling
        BY <3>2, <2>1 DEF CacheInv, EntriesKept, Live
      <4> QED BY <3>2, <4>1
    <3> QED BY <1>1, <3>1, <3>2
  <2>3. TypeOK'
    BY <1>1, <1>h, <2>2 DEF CacheInv, TypeOK, Cached, Conversion
  <2>4. EntriesKept'
    BY <1>1, <2>2 DEF CacheInv, EntriesKept, Live
  <2>5. NoWeightLeak'
    BY <1>1, <1>h DEF CacheInv, NoWeightLeak, Live, Cached
  <2> QED BY <2>3, <2>4, <2>5 DEF CacheInv
<1>2. CASE /\ find_preloaded_pim_weight(w) = {} /\ obj[o] = NoObj
           /\ obj' = [obj EXCEPT ![o] = r]
           /\ IF save THEN insert_preloaded_pim_weight(w, o) ELSE UNCHANGED weight_map_
           /\ UNCHANGED read_deleted
  <2>1. k \notin DOMAIN weight_map_
    BY <1>2 DEF find_preloaded_pim_weight, k
  <2>2. \A j \in DOMAIN weight_map_ \ dangling : weight_map_[j] # o
    BY <1>2 DEF CacheInv, EntriesKept, Live
  <2>0. \A j \in DOMAIN weight_map_ : weight_map_[j] \in Objs
    BY DEF CacheInv, TypeOK, Cached
  <2>3. /\ obj' \in [Objs -> Conversion \cup {NoObj}] /\ obj'[o] = r
        /\ \A p \in Objs : p # o => obj'[p] = obj[p]
    BY <1>2, <1>r DEF CacheInv, TypeOK
  <2>4. CASE save
    <3>1. weight_map_' = [j \in DOMAIN weight_map_ \cup {k} |->
                            IF j \in DOMAIN weight_map_ THEN weight_map_[j] ELSE o]
      BY <1>2, <2>4 DEF insert_preloaded_pim_weight, k
    <3>2. /\ DOMAIN weight_map_' = DOMAIN weight_map_ \cup {k}
          /\ weight_map_'[k] = o
          /\ \A j \in DOMAIN weight_map_ : weight_map_'[j] = weight_map_[j]
      BY <3>1, <2>1
    <3>3. Cached' = Cached \cup {o}
      BY <3>2 DEF Cached
    <3>4. TypeOK'
      BY <1>2, <1>h, <3>2, <3>3, <2>3, <1>k DEF CacheInv, TypeOK, Running
    <3>5. EntriesKept'
      <4>1. ASSUME NEW j \in DOMAIN weight_map_' \ dangling'
            PROVE  weight_map_'[j] \in Live' /\ w_key(obj'[weight_map_'[j]].data) = j
        <5>1. CASE j = k
          BY <5>1, <3>2, <2>3, <1>r DEF Live, k
        <5>2. CASE j \in DOMAIN weight_map_ \ dangling
          BY <5>2, <3>2, <2>0, <2>2, <2>3 DEF CacheInv, EntriesKept, Live
        <5> QED BY <4>1, <5>1, <5>2, <3>2
      <4> QED BY <4>1, <1>2 DEF CacheInv, EntriesKept
    <3>6. NoWeightLeak'
      BY <3>3, <2>3, <1>h DEF CacheInv, NoWeightLeak, Live
    <3> QED BY <3>4, <3>5, <3>6 DEF CacheInv
  <2>5. CASE ~save
    <3>1. weight_map_' = weight_map_ /\ o \in Given'
      BY <1>2, <1>h, <2>5
    <3>2. TypeOK'
      BY <1>2, <1>h, <3>1, <2>3 DEF CacheInv, TypeOK, Cached
    <3>3. EntriesKept'
      BY <1>2, <3>1, <2>0, <2>2, <2>3 DEF CacheInv, EntriesKept, Live
    <3>4. NoWeightLeak'
      BY <1>h, <3>1, <2>3 DEF CacheInv, NoWeightLeak, Live, Cached
    <3> QED BY <3>2, <3>3, <3>4 DEF CacheInv
  <2> QED BY <2>4, <2>5
<1> QED BY <1>1, <1>2 DEF get_preloaded_pim_gemm_weight, r

\* Init establishes CacheInv.
LEMMA InitCacheInv == Init => CacheInv
BY DEF Init, CacheInv, TypeOK, EntriesKept, NoWeightLeak, Live, Cached

\* Every step keeps CacheInv.
LEMMA NextCacheInv == ASSUME CacheInv, [Next]_vars PROVE CacheInv'
<1>1. ASSUME NEW w \in Weights, NEW order \in PimGemmOrder, PimExecuteGemm(w, order)
      PROVE  CacheInv'
  <2>1. PICK o \in Objs : get_preloaded_pim_gemm_weight(w, order, FALSE, TRUE, o)
    BY <1>1 DEF PimExecuteGemm
  <2> QED BY <1>1, <2>1, GetInv DEF PimExecuteGemm
<1>2. ASSUME NEW w \in Weights, NEW order \in PimGemmOrder,
             NEW onDevice \in BOOLEAN, NEW save \in BOOLEAN,
             PimConvertGemmWeight(w, order, onDevice, save)
      PROVE  CacheInv'
  <2>1. PICK o \in Objs : /\ get_preloaded_pim_gemm_weight(w, order, onDevice, save, o)
                          /\ held' = held \cup {<<o, save>>}
    BY <1>2 DEF PimConvertGemmWeight
  <2> QED BY <1>2, <2>1, GetInv DEF PimConvertGemmWeight
<1>3. ASSUME NEW o \in Objs, PimDestroyBo(o) PROVE CacheInv'
  <2>1. /\ dangling' = dangling \cup {j \in DOMAIN weight_map_ : weight_map_[j] = o}
        /\ UNCHANGED <<pim_initialized, weight, weight_map_, read_deleted>>
        /\ held' = {h \in held : h[1] # o}
    BY <1>3 DEF PimDestroyBo
  <2>2. /\ obj' \in [Objs -> Conversion \cup {NoObj}] /\ obj'[o] = NoObj
        /\ \A p \in Objs : p # o => obj'[p] = obj[p]
    BY <1>3 DEF PimDestroyBo, CacheInv, TypeOK
  <2>3. TypeOK'
    BY <2>1, <2>2 DEF CacheInv, TypeOK, Cached
  <2>4. EntriesKept'
    <3>1. \A j \in DOMAIN weight_map_ \ dangling' : weight_map_[j] # o /\ weight_map_[j] \in Objs
      BY <2>1 DEF CacheInv, TypeOK, Cached
    <3>2. dangling \subseteq dangling'
      BY <2>1
    <3>3. read_deleted' => dangling' # {}
      BY <2>1, <3>2 DEF CacheInv, EntriesKept
    <3> QED BY <2>1, <2>2, <3>1, <3>2, <3>3 DEF CacheInv, EntriesKept, Live
  <2>5. NoWeightLeak'
    BY <2>1, <2>2 DEF CacheInv, NoWeightLeak, Live, Cached, Given
  <2> QED BY <2>3, <2>4, <2>5 DEF CacheInv
<1>4. ASSUME NEW w \in Weights, NEW data \in Data, PimCopyMemory(w, data)
      PROVE  CacheInv'
  <2>1. TypeOK'
    BY <1>4 DEF PimCopyMemory, CacheInv, TypeOK, Cached
  <2> QED BY <1>4, <2>1 DEF PimCopyMemory, CacheInv, EntriesKept, NoWeightLeak, Live, Cached, Given
<1>5. CASE PimDeinitialize
  <2>1. /\ DOMAIN weight_map_' = {} /\ Cached' = {} /\ dangling' = {}
        /\ pim_initialized' = FALSE /\ UNCHANGED <<weight, read_deleted>> /\ read_deleted = FALSE
        /\ held' = {h \in held : h[1] \notin Cached}
        /\ obj' = [o \in Objs |-> IF o \in Cached THEN NoObj ELSE obj[o]]
    BY <1>5 DEF PimDeinitialize, DeleteCached, Running, Cached, CacheInv, TypeOK
  <2>2. TypeOK'
    BY <2>1 DEF CacheInv, TypeOK
  <2>3. NoWeightLeak'
    BY <2>1 DEF CacheInv, NoWeightLeak, Live, Given
  <2> QED BY <2>1, <2>2, <2>3 DEF CacheInv, EntriesKept
<1>6. CASE PimDeinitializeDeleted
  <2>1. dangling # {}
    <3>1. SUFFICES ASSUME dangling = {} PROVE Deletable
      BY <1>6 DEF PimDeinitializeDeleted
    <3>2. \A j \in DOMAIN weight_map_ : /\ weight_map_[j] \in Live
                                        /\ w_key(obj[weight_map_[j]].data) = j
      BY <3>1 DEF CacheInv, EntriesKept
    <3> QED BY <3>2 DEF Deletable, Cached
  <2>2. read_deleted' = TRUE /\ UNCHANGED <<pim_initialized, weight, weight_map_, obj, held, dangling>>
    BY <1>6 DEF PimDeinitializeDeleted
  <2>3. TypeOK'
    BY <2>2 DEF CacheInv, TypeOK, Cached
  <2> QED BY <2>1, <2>2, <2>3 DEF CacheInv, EntriesKept, NoWeightLeak, Live, Cached, Given
<1>7. CASE PimInitialize
  <2>1. TypeOK'
    BY <1>7 DEF PimInitialize, CacheInv, TypeOK, Cached
  <2> QED BY <1>7, <2>1 DEF PimInitialize, CacheInv, EntriesKept, NoWeightLeak, Live, Cached, Given
<1>8. CASE UNCHANGED vars
  <2>1. TypeOK'
    BY <1>8 DEF vars, CacheInv, TypeOK, Cached
  <2> QED BY <1>8, <2>1 DEF vars, CacheInv, EntriesKept, NoWeightLeak, Live, Cached, Given
<1> QED BY <1>1, <1>2, <1>3, <1>4, <1>5, <1>6, <1>7, <1>8 DEF Next

\* A weight found through an entry that does not dangle has the key of the one
\* asked for, hence its first word.
LEMMA NextAgrees ==
  ASSUME CacheInv, FirstWordAgrees, [Next]_vars
  PROVE  FirstWordAgrees'
<1>0. ASSUME used' = NoUse PROVE FirstWordAgrees'
  BY <1>0 DEF FirstWordAgrees, NoUse
<1>1. ASSUME NEW w \in Weights, NEW order \in PimGemmOrder, NEW onDevice \in BOOLEAN,
             NEW save \in BOOLEAN, NEW o \in Objs,
             get_preloaded_pim_gemm_weight(w, order, onDevice, save, o)
      PROVE  FirstWordAgrees'
  <2> DEFINE r == Reordered(w, order, onDevice)
             k == w_key(weight[w].data)
  <2>r. r \in Conversion /\ r # NoObj /\ r.data = weight[w].data /\ weight[w].data \in Data
    BY ReorderedFacts DEF CacheInv
  <2> HIDE DEF r, k
  <2>1. CASE /\ o \in find_preloaded_pim_weight(w)
             /\ used' = [asked |-> r, got |-> obj[o], sound |-> k \notin dangling]
    <3>1. k \in DOMAIN weight_map_ /\ o = weight_map_[k]
      BY <2>1 DEF find_preloaded_pim_weight, k
    <3>a. SUFFICES ASSUME k \notin dangling
                   PROVE  obj[o] # NoObj /\ obj[o].data[1] = r.data[1]
      BY <2>1 DEF FirstWordAgrees
    <3>2. o \in Live /\ w_key(obj[o].data) = k
      BY <3>1, <3>a DEF CacheInv, EntriesKept
    <3>3. obj[o] # NoObj /\ obj[o].data \in Data
      BY <3>2 DEF CacheInv, TypeOK, Live, Conversion
    <3> QED BY <3>2, <3>3, <2>r, KeyIsFirstWord DEF k
  <2>2. CASE /\ obj[o] = NoObj /\ obj' = [obj EXCEPT ![o] = r]
             /\ used' = [asked |-> r, got |-> obj'[o], sound |-> TRUE]
    <3>1. obj'[o] = r
      BY <2>2 DEF CacheInv, TypeOK
    <3> QED BY <2>2, <2>r, <3>1 DEF FirstWordAgrees
  <2> QED BY <1>0, <1>1, <2>1, <2>2 DEF get_preloaded_pim_gemm_weight, r, k
<1>2. ASSUME NEW w \in Weights, NEW order \in PimGemmOrder, PimExecuteGemm(w, order)
      PROVE  FirstWordAgrees'
  BY <1>1, <1>2 DEF PimExecuteGemm
<1>3. ASSUME NEW w \in Weights, NEW order \in PimGemmOrder,
             NEW onDevice \in BOOLEAN, NEW save \in BOOLEAN,
             PimConvertGemmWeight(w, order, onDevice, save)
      PROVE  FirstWordAgrees'
  BY <1>1, <1>3 DEF PimConvertGemmWeight
<1>4. CASE PimDeinitialize \/ PimDeinitializeDeleted
  BY <1>0, <1>4 DEF PimDeinitialize, DeleteCached, PimDeinitializeDeleted
<1>5. CASE UNCHANGED used
  BY <1>5 DEF FirstWordAgrees
<1>6. ASSUME NEW o \in Objs, PimDestroyBo(o) PROVE FirstWordAgrees'
  BY <1>0, <1>6 DEF PimDestroyBo
<1>7. ASSUME NEW w \in Weights, NEW data \in Data, PimCopyMemory(w, data)
      PROVE  FirstWordAgrees'
  BY <1>0, <1>7 DEF PimCopyMemory
<1>8. CASE PimInitialize \/ UNCHANGED vars
  BY <1>5, <1>8 DEF PimInitialize, vars
<1> QED BY <1>2, <1>3, <1>4, <1>6, <1>7, <1>8 DEF Next

-----------------------------------------------------------------------------
(* Theorems.                                                               *)

\* The inductive invariant of weight_map_ and the converted objects, also after
\* PimDestroyBo of objects the map keeps.
THEOREM CacheInvariant == Spec => []CacheInv
BY InitCacheInv, NextCacheInv, PTL DEF Spec

\* The state keeps its types, and without a runtime there is no cache.
THEOREM CacheTypeCorrect == Spec => []TypeOK
BY CacheInvariant, PTL DEF CacheInv

\* Only PimDestroyBo of an object that weight_map_ keeps spoils an entry; every
\* other entry finds a live conversion of data with its key.
THEOREM EntriesStay == Spec => []EntriesKept
BY CacheInvariant, PTL DEF CacheInv

\* No converted weight is lost to both the client and PimDeinitialize.
THEOREM WeightsReachable == Spec => []NoWeightLeak
BY CacheInvariant, PTL DEF CacheInv

\* The weight a gemm works with, unless its entry dangles, agrees with its own in
\* the first word, and as
\* KeyIsFirstWord shows the loop of find_preloaded_pim_weight warrants no more.
THEOREM HitsAgree == Spec => []FirstWordAgrees
<1>1. Init => FirstWordAgrees
  BY DEF Init, FirstWordAgrees, NoUse
<1> QED BY <1>1, NextAgrees, CacheInvariant, PTL DEF Spec
=============================================================================
