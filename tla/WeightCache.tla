---------------------------- MODULE WeightCache -----------------------------
(***************************************************************************)
(* The cache of converted gemm weights: weight_map_ of PimRuntime.cpp with *)
(* the calls that read it, fill it and outlive it.  PimExecuteGemm and     *)
(* PimConvertGemmWeight reorder a weight for the PIM kernels once and find *)
(* the result again by a key computed from the weight's data.              *)
(*                                                                         *)
(* The reordering itself is opaque: its result is named by what it reads.  *)
(* Buffer objects are addresses, so that a deleted one can come back as    *)
(* another object.  The client rewrites its weights, converts and          *)
(* multiplies in any order, and destroys, once each, the converted weights *)
(* it was given by calls that it did not ask to keep them.                 *)
(***************************************************************************)
EXTENDS Integers, Sequences, FiniteSets

CONSTANTS
  Weights,  \* RAW weight buffers of the client, large enough for PIM
  Data,     \* what they can hold: sequences of words, sets of bits
  Objs      \* addresses of PimBo structures for converted weights

\* A weight has at least one word.
ASSUME DataAssumption ==
  \A data \in Data : Len(data) \in Nat \ {0} /\ DOMAIN data = 1 .. Len(data)

VARIABLES
  pim_initialized,
  weight,       \* the client's buffers: [data, transposed]
  weight_map_,  \* key -> converted object
  obj,          \* the object at an address: what it was reordered from
  held,         \* what PimConvertGemmWeight gave to the client: <<object, save>>
  used,         \* history: the conversion the last call asked for and the one
                \* it was given, and whether no dangling entry was involved
  dangling,     \* history: keys of entries whose object PimDestroyBo deleted
  read_deleted  \* a call has read a deleted PimBo; what follows is undefined

vars == <<pim_initialized, weight, weight_map_, obj, held, used, dangling,
          read_deleted>>

PimGemmOrder == {"I_X_W", "W_X_I"}
NoObj == [path |-> "none"]
NoUse == [asked |-> NoObj, got |-> NoObj, sound |-> FALSE]

-----------------------------------------------------------------------------
(* The key.                                                                *)

SizeOfWord == 4
Size(data) == SizeOfWord * Len(data)

\* Mutant of Sampled: the loop starts after its first step.
Sampled_fromStep(data) == {}

\* The words the loop reads: it counts words and steps by half the bytes.
Sampled(data) ==
  {i \in 0 .. (Size(data) \div SizeOfWord) - 1 : i % (Size(data) \div 2) = 0}

\* The exclusive or of the sampled words.
w_key(data) ==
  {b \in UNION {data[i] : i \in DOMAIN data} :
     Cardinality({i \in Sampled(data) : b \in data[i + 1]}) % 2 = 1}

Keys == {w_key(data) : data \in Data}

-----------------------------------------------------------------------------
(* Conversion.                                                             *)

check_need_for_transpose(order, w) == (order = "I_X_W") = ~weight[w].transposed

\* What the reordered weight depends on.  The order also chooses the layout.
\* The kernels that reorder on the device do not look at the transposed flag.
Reordered(w, order, onDevice) ==
  IF onDevice
    THEN [path |-> "device", data |-> weight[w].data, order |-> order]
    ELSE [path |-> "host", data |-> weight[w].data, order |-> order,
          transpose |-> check_need_for_transpose(order, w)]

Conversion ==
  [path : {"device"}, data : Data, order : PimGemmOrder]
    \cup [path : {"host"}, data : Data, order : PimGemmOrder, transpose : BOOLEAN]

Live == {o \in Objs : obj[o] # NoObj}
Cached == {weight_map_[k] : k \in DOMAIN weight_map_}
Given == {h[1] : h \in held}

\* Calls do something only with a runtime, and mean something only before a
\* deleted object was read.
Running == pim_initialized /\ ~read_deleted

Init ==
  /\ pim_initialized = TRUE
  /\ weight \in [Weights -> [data : Data, transposed : BOOLEAN]]
  /\ weight_map_ = [k \in {} |-> 0]
  /\ obj = [o \in Objs |-> NoObj]
  /\ held = {}
  /\ used = NoUse
  /\ dangling = {}
  /\ read_deleted = FALSE

\* Mutant of find_preloaded_pim_weight: never found.
find_preloaded_pim_weight_never(w) == {}

find_preloaded_pim_weight(w) ==
  LET k == w_key(weight[w].data)
  IN  IF k \in DOMAIN weight_map_ THEN {weight_map_[k]} ELSE {}

\* Mutant of insert_preloaded_pim_weight: its own loop reads another word than
\* the lookup's.
insert_preloaded_pim_weight_last(w, o) ==
  LET k == weight[w].data[Len(weight[w].data)]
  IN  weight_map_' =
        [j \in DOMAIN weight_map_ \cup {k} |->
           IF j \in DOMAIN weight_map_ THEN weight_map_[j] ELSE o]

\* unordered_map::insert keeps an entry that is there.
insert_preloaded_pim_weight(w, o) ==
  LET k == w_key(weight[w].data)
  IN  weight_map_' =
        [j \in DOMAIN weight_map_ \cup {k} |->
           IF j \in DOMAIN weight_map_ THEN weight_map_[j] ELSE o]

\* The call that found o, or converted w into it.  What is found is returned
\* whether or not this call asked to save; a deleted object is read then.
get_preloaded_pim_gemm_weight(w, order, onDevice, save, o) ==
  \/ /\ o \in find_preloaded_pim_weight(w)
     /\ obj[o] # NoObj
     /\ used' = [asked |-> Reordered(w, order, onDevice), got |-> obj[o],
                 sound |-> w_key(weight[w].data) \notin dangling]
     /\ UNCHANGED <<weight_map_, obj, read_deleted>>
  \/ /\ o \in find_preloaded_pim_weight(w)
     /\ obj[o] = NoObj
     /\ read_deleted' = TRUE
     /\ used' = NoUse
     /\ UNCHANGED <<weight_map_, obj>>
  \/ /\ find_preloaded_pim_weight(w) = {}
     /\ obj[o] = NoObj
     /\ obj' = [obj EXCEPT ![o] = Reordered(w, order, onDevice)]
     /\ used' = [asked |-> Reordered(w, order, onDevice), got |-> obj'[o],
                 sound |-> TRUE]
     /\ IF save THEN insert_preloaded_pim_weight(w, o) ELSE UNCHANGED weight_map_
     /\ UNCHANGED read_deleted

-----------------------------------------------------------------------------
(* Calls.                                                                  *)

\* Gemm on a RAW weight: converted on the host, saved.
PimExecuteGemm(w, order) ==
  /\ Running
  /\ \E o \in Objs : get_preloaded_pim_gemm_weight(w, order, FALSE, TRUE, o)
  /\ UNCHANGED <<pim_initialized, weight, held, dangling>>

PimConvertGemmWeight(w, order, onDevice, save) ==
  /\ Running
  /\ \E o \in Objs :
       /\ get_preloaded_pim_gemm_weight(w, order, onDevice, save, o)
       /\ held' = held \cup {<<o, save>>}
  /\ UNCHANGED <<pim_initialized, weight, dangling>>

\* The client destroys a converted weight that it did not ask to be kept, as
\* the tests of gemm do.  The map is not told, and may have it all the same.
PimDestroyBo(o) ==
  /\ Running
  /\ <<o, FALSE>> \in held
  /\ obj' = [obj EXCEPT ![o] = NoObj]
  /\ held' = {h \in held : h[1] # o}
  /\ dangling' = dangling \cup {k \in DOMAIN weight_map_ : weight_map_[k] = o}
  /\ used' = NoUse
  /\ UNCHANGED <<pim_initialized, weight, weight_map_, read_deleted>>

\* PimCopyMemory into a weight the client has.
PimCopyMemory(w, data) ==
  /\ Running
  /\ weight' = [weight EXCEPT ![w].data = data]
  /\ used' = NoUse
  /\ UNCHANGED <<pim_initialized, weight_map_, obj, held, dangling, read_deleted>>

\* Every entry has an object of its own that is still there.
Deletable ==
  /\ Cached \subseteq Live
  /\ \A j, k \in DOMAIN weight_map_ : weight_map_[j] = weight_map_[k] => j = k

\* Frees and deletes what the map points to.  A client that still held such an
\* object has lost it.
DeleteCached ==
  /\ Running
  /\ Deletable
  /\ pim_initialized' = FALSE
  /\ obj' = [o \in Objs |-> IF o \in Cached THEN NoObj ELSE obj[o]]
  /\ held' = {h \in held : h[1] \notin Cached}
  /\ used' = NoUse

\* Mutant of PimDeinitialize: the map outlives the runtime.
PimDeinitialize_map ==
  /\ DeleteCached
  /\ UNCHANGED <<weight, weight_map_, dangling, read_deleted>>

\* The map goes with the runtime.
PimDeinitialize ==
  /\ DeleteCached
  /\ weight_map_' = [k \in {} |-> 0]
  /\ dangling' = {}
  /\ UNCHANGED <<weight, read_deleted>>

\* Tear-down that meets an object already deleted, frees and deletes it again.
PimDeinitializeDeleted ==
  /\ Running
  /\ ~Deletable
  /\ read_deleted' = TRUE
  /\ used' = NoUse
  /\ UNCHANGED <<pim_initialized, weight, weight_map_, obj, held, dangling>>

PimInitialize ==
  /\ ~pim_initialized
  /\ pim_initialized' = TRUE
  /\ UNCHANGED <<weight, weight_map_, obj, held, used, dangling, read_deleted>>

Next ==
  \/ \E w \in Weights, order \in PimGemmOrder : PimExecuteGemm(w, order)
  \/ \E w \in Weights, order \in PimGemmOrder, onDevice, save \in BOOLEAN :
       PimConvertGemmWeight(w, order, onDevice, save)
  \/ \E o \in Objs : PimDestroyBo(o)
  \/ \E w \in Weights, data \in Data : PimCopyMemory(w, data)
  \/ PimDeinitialize
  \/ PimDeinitializeDeleted
  \/ PimInitialize

Spec == Init /\ [][Next]_vars

-----------------------------------------------------------------------------
(* Properties.                                                             *)

\* Types of the state, and no runtime, no cache.
TypeOK ==
  /\ pim_initialized \in BOOLEAN /\ read_deleted \in BOOLEAN
  /\ weight \in [Weights -> [data : Data, transposed : BOOLEAN]]
  /\ DOMAIN weight_map_ \subseteq Keys /\ Cached \subseteq Objs
  /\ ~pim_initialized => Cached = {}
  /\ obj \in [Objs -> Conversion \cup {NoObj}]
  /\ held \subseteq Objs \X BOOLEAN
  /\ dangling \subseteq DOMAIN weight_map_

\* PimDestroyBo of a cached object is all that spoils an entry: the others are
\* live conversions of data with their key through every rewrite of a weight,
\* reuse of an address and re-initialization, and without such a destroy no
\* call reads a deleted object.
EntriesKept ==
  /\ \A k \in DOMAIN weight_map_ \ dangling :
       /\ weight_map_[k] \in Live
       /\ w_key(obj[weight_map_[k]].data) = k
  /\ read_deleted => dangling # {}

\* Converted weights are never lost: each one is reachable for the client or
\* for PimDeinitialize.
NoWeightLeak == Live \subseteq Given \cup Cached

\* The weight a call works with, not found through a dangling entry, agrees
\* with the one asked for at least in its first word, all the key looks at.
FirstWordAgrees ==
  used.sound => used.got # NoObj /\ used.got.data[1] = used.asked.data[1]

\* A gemm or a conversion works with its own weight reordered as asked.
RightWeight == used.sound => used.got = used.asked
=============================================================================
