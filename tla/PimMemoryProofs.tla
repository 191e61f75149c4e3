-------------------------- MODULE PimMemoryProofs ---------------------------
(***************************************************************************)
(* Theorems about PimMemory, for every number of devices, chunks, pointers *)
(* and buffer objects.                                                     *)
(***************************************************************************)
EXTENDS PimMemory, TLAPS

-----------------------------------------------------------------------------
(* The inductive invariant.                                                *)

\* PIM memory is a chunk, other memory a HIP pointer.
KindsOK ==
  /\ \A r \in raw : r.ptr \in IF r.mem = "PIM" THEN PimPtrs ELSE HipPtrs
  /\ \A b \in Bos : bo[b] # NoBo =>
       bo[b].data \in IF bo[b].mem_type = "PIM" THEN PimPtrs \cup {Null} ELSE HipPtrs
  /\ exec["pim_gemv_tmp_buffer_"] \in PimPtrs \cup {Null}
  /\ exec["d_srf_bin_buffer_"] \in HipPtrs \cup {Null}
  /\ exec["zero_buffer_"] \in HipPtrs \cup {Null}

\* A buffer object around user memory wraps memory the client still holds.
Wrapped ==
  \A b \in Bos : bo[b] # NoBo /\ bo[b].use_user_ptr =>
    \E r \in raw : r.ptr = bo[b].data /\ r.mem = bo[b].mem_type

OwnersBacked == \A o \in Owners : Holds(o) \in heap \cup hip \cup {Null}

MemInv == TypeOK /\ KindsOK /\ Wrapped /\ Exclusive /\ OwnersBacked

-----------------------------------------------------------------------------
(* Owners.                                                                 *)

LEMMA HoldsFacts ==
  /\ \A b : Holds(<<"bo", b>>) = bo[b].data
  /\ \A r : Holds(<<"raw", r>>) = r.ptr
  /\ \A m : Holds(<<"exec", m>>) = exec[m]
  /\ \A p : Holds(<<"weight", p>>) = p
BY DEF Holds

\* The same after a step.
LEMMA HoldsFactsPrime ==
  /\ \A b : Holds(<<"bo", b>>)' = bo'[b].data
  /\ \A r : Holds(<<"raw", r>>)' = r.ptr
  /\ \A m : Holds(<<"exec", m>>)' = exec'[m]
  /\ \A p : Holds(<<"weight", p>>)' = p
BY DEF Holds

\* What an owner is and holds.
LEMMA OwnerCases ==
  ASSUME NEW o \in Owners
  PROVE  \/ \E b \in Bos : o = <<"bo", b>> /\ bo[b] # NoBo /\ ~bo[b].use_user_ptr
         \/ \E r \in raw : o = <<"raw", r>>
         \/ \E m \in ExecBuffer : o = <<"exec", m>>
         \/ \E p \in weight_map_ : o = <<"weight", p>>
BY DEF Owners, BoOwners, RawOwners, ExecOwners, WeightOwners

\* Handles X get memory nobody held.
LEMMA Gain ==
  ASSUME Exclusive, OwnersBacked, NEW X,
         Owners' \subseteq Owners \cup X,
         \A o \in Owners' : o \notin X => Holds(o)' = Holds(o),
         \A x \in X : Holds(x)' = Null
                        \/ (Holds(x)' \notin heap \cup hip /\ Holds(x)' \in heap' \cup hip'),
         \A x, y \in X : x # y => Holds(x)' # Holds(y)' \/ Holds(x)' = Null,
         heap \cup hip \subseteq heap' \cup hip'
  PROVE  Exclusive' /\ OwnersBacked'
<1>1. ASSUME NEW o \in Owners', NEW p \in Owners', o # p
      PROVE  Holds(o)' # Holds(p)' \/ Holds(o)' = Null
  <2>1. CASE o \in X /\ p \in X
    BY <2>1, <1>1
  <2>2. CASE o \notin X /\ p \in X
    BY <2>2, <1>1 DEF OwnersBacked
  <2>3. CASE o \in X /\ p \notin X
    BY <2>3, <1>1 DEF OwnersBacked
  <2>4. CASE o \notin X /\ p \notin X
    BY <2>4, <1>1 DEF Exclusive
  <2> QED BY <2>1, <2>2, <2>3, <2>4
<1>2. ASSUME NEW o \in Owners' PROVE Holds(o)' \in heap' \cup hip' \cup {Null}
  <2>1. CASE o \in X
    BY <2>1, <1>2
  <2>2. CASE o \notin X
    BY <2>2, <1>2 DEF OwnersBacked
  <2> QED BY <2>1, <2>2
<1> QED BY <1>1, <1>2 DEF Exclusive, OwnersBacked

\* Memory D goes back, and an owner that remains keeps what it held and is not
\* in D, or holds nothing.
LEMMA Lose ==
  ASSUME Exclusive, OwnersBacked, NEW D,
         Owners' \subseteq Owners,
         \A o \in Owners' : \/ Holds(o)' = Null
                            \/ Holds(o)' = Holds(o) /\ Holds(o) \notin D,
         (heap \cup hip) \ D \subseteq heap' \cup hip'
  PROVE  Exclusive' /\ OwnersBacked'
BY DEF Exclusive, OwnersBacked

\* What is allocated stays owned if every piece that was owned, or is new, is.
LEMMA Keeps ==
  ASSUME \A o \in Owners : Holds(o) \in heap' \cup hip'
           => \E n \in Owners' : Holds(n)' = Holds(o),
         \A p \in (heap' \cup hip') \ (heap \cup hip) :
           \E n \in Owners' : Holds(n)' = p
  PROVE  Orphans' \subseteq Orphans
BY DEF Orphans

-----------------------------------------------------------------------------
(* Steps that several calls share.                                         *)

\* Nothing changes but the device and the result.
LEMMA Idle ==
  ASSUME MemInv, device' \in Devices, UNCHANGED <<pim_initialized, memory, handles>>
  PROVE  MemInv' /\ Orphans' = Orphans
<1> USE DEF MemInv, memory, handles
<1>1. TypeOK' BY DEF TypeOK
<1>2. KindsOK' /\ Wrapped' BY DEF KindsOK, Wrapped
<1>3. Owners' = Owners BY DEF Owners, BoOwners, RawOwners, ExecOwners, WeightOwners
<1>4. \A o : Holds(o)' = Holds(o) BY DEF Holds
<1>5. Exclusive' /\ OwnersBacked' BY <1>3, <1>4 DEF Exclusive, OwnersBacked
<1>6. Orphans' = Orphans BY <1>3, <1>4 DEF Orphans
<1> QED BY <1>1, <1>2, <1>5, <1>6

\* An outcome of alloc_memory: null and nothing changed, or memory of the right
\* kind that was not allocated before and is now.
LEMMA AllocOutcome ==
  ASSUME TypeOK, NEW mem \in MemType, NEW out \in alloc_memory(mem)
  PROVE  /\ out.ptr = Null => out.heap = heap /\ out.hip = hip
         /\ out.ptr # Null => /\ out.ret = 0
                              /\ out.ptr \in IF mem = "PIM" THEN PimPtrs ELSE HipPtrs
                              /\ out.ptr \notin heap \cup hip
                              /\ out.heap \cup out.hip = heap \cup hip \cup {out.ptr}
         /\ out.ptr = Null /\ mem # "PIM" => out.ret # 0
         /\ heap \subseteq out.heap /\ out.heap \subseteq PimPtrs
         /\ hip \subseteq out.hip /\ out.hip \subseteq HipPtrs
         /\ mem = "PIM" => out.hip = hip
<1>1. CASE mem = "PIM"
  <2>1. PICK p \in HeapAlloc(device) :
          out = [ptr |-> p, ret |-> 0, heap |-> heap \cup ({p} \ {Null}), hip |-> hip]
    BY <1>1 DEF alloc_memory
  <2>2. p = Null \/ (p \in PimPtrs /\ p \notin heap)
    BY <2>1 DEF HeapAlloc, TypeOK, PimPtrs
  <2> QED BY <1>1, <2>1, <2>2, PointerAssumption DEF TypeOK, Ptrs
<1>2. CASE mem # "PIM"
  BY <1>2, PointerAssumption DEF alloc_memory, TypeOK, Ptrs
<1> QED BY <1>1, <1>2

\* A buffer object gets the memory of an outcome.
LEMMA BoTakes ==
  ASSUME MemInv, NEW b \in Bos, bo[b] = NoBo, NEW mem \in MemType,
         NEW out \in alloc_memory(mem), out.ret = 0,
         heap' = out.heap, hip' = out.hip,
         bo' = [bo EXCEPT ![b] = [mem_type |-> mem, data |-> out.ptr,
                                  use_user_ptr |-> FALSE]],
         UNCHANGED <<pim_initialized, device, raw, exec, weight_map_>>
  PROVE  MemInv' /\ Orphans' \subseteq Orphans
<1> DEFINE new == <<"bo", b>>
<1>1. TypeOK BY DEF MemInv
<1>2. out.ptr = Null \/ (/\ out.ptr \in IF mem = "PIM" THEN PimPtrs ELSE HipPtrs
                         /\ out.ptr \notin heap \cup hip
                         /\ heap' \cup hip' = heap \cup hip \cup {out.ptr})
  BY <1>1, AllocOutcome
<1>3. out.ptr = Null => mem = "PIM" /\ heap' = heap /\ hip' = hip
  BY <1>1, AllocOutcome
<1>4. /\ heap \subseteq heap' /\ heap' \subseteq PimPtrs
      /\ hip \subseteq hip' /\ hip' \subseteq HipPtrs
  BY <1>1, AllocOutcome
<1>5. \A c \in Bos : bo'[c] = IF c = b THEN [mem_type |-> mem, data |-> out.ptr,
                                             use_user_ptr |-> FALSE] ELSE bo[c]
  BY <1>1 DEF TypeOK
<1>6. [mem_type |-> mem, data |-> out.ptr, use_user_ptr |-> FALSE] \in PimBo
  BY <1>2 DEF PimBo, Ptrs
<1>7. TypeOK'
  BY <1>1, <1>4, <1>6 DEF TypeOK
<1>8. KindsOK'
  BY <1>2, <1>3, <1>5 DEF MemInv, KindsOK
<1>9. Wrapped'
  BY <1>5 DEF MemInv, Wrapped
<1>10. Owners' = Owners \cup {new}
  <2>1. bo'[b] = [mem_type |-> mem, data |-> out.ptr, use_user_ptr |-> FALSE]
    BY <1>5
  <2>2. bo'[b] \in PimBo
    BY <2>1, <1>6
  <2>3. bo'[b] # NoBo
    BY <2>2, PointerAssumption
  <2>4. ~bo'[b].use_user_ptr
    BY <2>1
  <2>5. BoOwners' = BoOwners \cup {new}
    BY <2>3, <2>4, <1>5 DEF BoOwners
  <2> QED BY <2>5 DEF Owners, RawOwners, ExecOwners, WeightOwners
<1>11. new \notin Owners
  BY DEF Owners, BoOwners, RawOwners, ExecOwners, WeightOwners
<1>12. \A o \in Owners : Holds(o)' = Holds(o)
  BY <1>5, <1>11, OwnerCases, HoldsFacts, HoldsFactsPrime
<1>13. Holds(new)' = out.ptr
  BY <1>5, HoldsFactsPrime
<1>14. Exclusive' /\ OwnersBacked'
  <2>1. \A x \in {new} : Holds(x)' = Null
          \/ (Holds(x)' \notin heap \cup hip /\ Holds(x)' \in heap' \cup hip')
    BY <1>2, <1>13
  <2> HIDE DEF new
  <2> QED BY <2>1, <1>4, <1>10, <1>12, Gain, ZenonT(30) DEF MemInv
<1>15. Orphans' \subseteq Orphans
  <2>1. \A o \in Owners : \E n \in Owners' : Holds(n)' = Holds(o)
    BY <1>10, <1>12
  <2>2. \A p \in (heap' \cup hip') \ (heap \cup hip) : \E n \in Owners' : Holds(n)' = p
    BY <1>2, <1>3, <1>10, <1>13
  <2> QED BY <2>1, <2>2, Keeps
<1> QED BY <1>7, <1>8, <1>9, <1>14, <1>15 DEF MemInv

\* A buffer object that owns its memory gives it back and is dropped.
LEMMA BoGives ==
  ASSUME MemInv, NEW b \in Bos, bo[b] # NoBo, ~bo[b].use_user_ptr,
         free_bo_ret(b) = 0,
         heap' = HeapAfter(bo[b].data, bo[b].mem_type),
         hip' = HipAfter(bo[b].data, bo[b].mem_type),
         bo' = [bo EXCEPT ![b] = NoBo],
         UNCHANGED <<pim_initialized, device, raw, exec, weight_map_>>
  PROVE  MemInv' /\ Orphans' \subseteq Orphans
<1> DEFINE old == <<"bo", b>>
<1>1. TypeOK /\ KindsOK BY DEF MemInv
<1>2. heap' = heap \ {bo[b].data} /\ hip' = hip \ {bo[b].data}
  <2>1. CASE bo[b].mem_type = "PIM"
    <3>1. bo[b].data \notin hip
      BY <1>1, <2>1, PointerAssumption DEF KindsOK, TypeOK, Ptrs
    <3>2. HeapFrees(bo[b].data)
      BY <2>1 DEF free_bo_ret
    <3> QED BY <2>1, <3>1, <3>2 DEF HeapAfter, HipAfter
  <2>2. CASE bo[b].mem_type # "PIM"
    <3>1. bo[b].data \notin heap
      BY <1>1, <2>2, PointerAssumption DEF KindsOK, TypeOK
    <3> QED BY <2>2, <3>1 DEF HeapAfter, HipAfter
  <2> QED BY <2>1, <2>2
<1>3. \A c \in Bos : bo'[c] = IF c = b THEN NoBo ELSE bo[c]
  BY <1>1 DEF TypeOK
<1>4. TypeOK'
  BY <1>1, <1>2 DEF TypeOK
<1>5. KindsOK' /\ Wrapped'
  BY <1>3 DEF MemInv, KindsOK, Wrapped
<1>6. Owners' = Owners \ {old}
  BY <1>3 DEF Owners, BoOwners, RawOwners, ExecOwners, WeightOwners
<1>7. old \in Owners /\ Holds(old) = bo[b].data
  BY HoldsFacts DEF Owners, BoOwners
<1>8. \A o \in Owners' : Holds(o)' = Holds(o)
  BY <1>3, <1>6, OwnerCases, HoldsFacts, HoldsFactsPrime
<1>9. \A o \in Owners' : Holds(o) # bo[b].data \/ Holds(o) = Null
  BY <1>6, <1>7 DEF MemInv, Exclusive
<1>10. Exclusive' /\ OwnersBacked'
  <2>1. Owners' \subseteq Owners BY <1>6
  <2>2. (heap \cup hip) \ {bo[b].data} \subseteq heap' \cup hip' BY <1>2
  <2>3. \A o \in Owners' : \/ Holds(o)' = Null
                           \/ Holds(o)' = Holds(o) /\ Holds(o) \notin {bo[b].data}
    BY <1>8, <1>9
  <2> QED BY <2>1, <2>2, <2>3, Lose DEF MemInv
<1>11. Orphans' \subseteq Orphans
  BY <1>2, <1>6, <1>7, <1>8 DEF Orphans
<1> QED BY <1>4, <1>5, <1>10, <1>11 DEF MemInv

-----------------------------------------------------------------------------
(* One lemma per call.                                                     *)

LEMMA InitializeStep ==
  ASSUME MemInv, PimInitialize
  PROVE  MemInv' /\ Orphans' \subseteq Orphans
<1>1. TypeOK /\ KindsOK /\ Wrapped BY DEF MemInv
<1>2. CASE pim_initialized
  BY <1>1, <1>2, Idle DEF PimInitialize, TypeOK
<1>3. CASE ~pim_initialized
  <2>1. PICK p, q \in (HipPtrs \ hip) \cup {Null}, out \in alloc_memory("PIM") :
          /\ p # q \/ p = Null
          /\ exec' = [exec EXCEPT !["d_srf_bin_buffer_"] = p,
                                  !["zero_buffer_"] = q,
                                  !["pim_gemv_tmp_buffer_"] = out.ptr]
          /\ heap' = out.heap
          /\ hip' = hip \cup ({p, q} \ {Null})
    BY <1>3 DEF PimInitialize
  <2>2. pim_initialized' = TRUE /\ UNCHANGED <<device, bo, raw, weight_map_>>
    BY <1>3 DEF PimInitialize
  <2>3. exec = NoExec
    BY <1>1, <1>3 DEF TypeOK
  <2>4. /\ out.ptr = Null \/ (out.ptr \in PimPtrs /\ out.ptr \notin heap \cup hip
                                /\ heap' = heap \cup {out.ptr})
        /\ out.ptr = Null => heap' = heap
        /\ heap \subseteq heap' /\ heap' \subseteq PimPtrs
    <3>1. "PIM" \in MemType BY DEF MemType
    <3>2. PICK r \in HeapAlloc(device) :
            out = [ptr |-> r, ret |-> 0, heap |-> heap \cup ({r} \ {Null}), hip |-> hip]
      BY DEF alloc_memory
    <3> QED BY <2>1, <3>1, <3>2, <1>1, AllocOutcome
  <2>5. /\ exec'["d_srf_bin_buffer_"] = p /\ exec'["zero_buffer_"] = q
        /\ exec'["pim_gemv_tmp_buffer_"] = out.ptr
        /\ exec' \in [ExecBuffer -> Ptrs \cup {Null}]
    BY <2>1, <2>4, <1>1 DEF TypeOK, ExecBuffer, Ptrs
  <2>6. TypeOK'
    BY <1>1, <2>1, <2>2, <2>4, <2>5 DEF TypeOK
  <2>7. KindsOK' /\ Wrapped'
    BY <1>1, <2>1, <2>2, <2>4, <2>5 DEF KindsOK, Wrapped
  <2>8. Owners' = Owners /\ ExecOwners \subseteq Owners
    BY <2>2 DEF Owners, BoOwners, RawOwners, ExecOwners, WeightOwners
  <2>9. \A o \in Owners' : o \notin ExecOwners => Holds(o)' = Holds(o)
    BY <2>2, <2>8, OwnerCases, HoldsFacts, HoldsFactsPrime DEF ExecOwners
  <2>10. /\ Holds(<<"exec", "d_srf_bin_buffer_">>)' = p
         /\ Holds(<<"exec", "zero_buffer_">>)' = q
         /\ Holds(<<"exec", "pim_gemv_tmp_buffer_">>)' = out.ptr
    BY <2>5, HoldsFactsPrime
  <2>11. \A x \in ExecOwners : \/ x = <<"exec", "d_srf_bin_buffer_">>
                               \/ x = <<"exec", "zero_buffer_">>
                               \/ x = <<"exec", "pim_gemv_tmp_buffer_">>
    BY DEF ExecOwners, ExecBuffer
  <2>12. /\ p = Null \/ (p \in HipPtrs /\ p \notin heap \cup hip /\ p \in hip')
         /\ q = Null \/ (q \in HipPtrs /\ q \notin heap \cup hip /\ q \in hip')
    BY <2>1, <1>1, PointerAssumption DEF TypeOK
  <2>13. \A x \in ExecOwners : Holds(x)' = Null
           \/ (Holds(x)' \notin heap \cup hip /\ Holds(x)' \in heap' \cup hip')
    BY <2>4, <2>10, <2>11, <2>12
  <2>14. \A x, y \in ExecOwners : x # y => Holds(x)' # Holds(y)' \/ Holds(x)' = Null
    <3>1. out.ptr # Null => out.ptr # p /\ out.ptr # q
      BY <2>4, <2>12, PointerAssumption
    <3> QED BY <3>1, <2>1, <2>10, <2>11
  <2>15. heap \cup hip \subseteq heap' \cup hip'
    BY <2>1, <2>4
  <2>16. Exclusive' /\ OwnersBacked'
    <3>1. Owners' \subseteq Owners \cup ExecOwners BY <2>8
    <3> QED BY <3>1, <2>9, <2>13, <2>14, <2>15, Gain DEF MemInv
  <2>17. Orphans' \subseteq Orphans
    <3>1. ASSUME NEW o \in Owners, Holds(o) \in heap' \cup hip'
          PROVE  \E n \in Owners' : Holds(n)' = Holds(o)
      <4>1. CASE o \in ExecOwners
        <5>1. Holds(o) = Null
          BY <4>1, <2>3, HoldsFacts DEF ExecOwners, NoExec
        <5>2. Null \notin heap' \cup hip'
          BY <2>6, PointerAssumption DEF TypeOK, Ptrs
        <5> QED BY <5>1, <5>2, <3>1
      <4>2. CASE o \notin ExecOwners
        BY <4>2, <2>8, <2>9
      <4> QED BY <4>1, <4>2
    <3>2. ASSUME NEW r \in (heap' \cup hip') \ (heap \cup hip)
          PROVE  \E n \in Owners' : Holds(n)' = r
      <4>1. r = p \/ r = q \/ r = out.ptr
        BY <2>1, <2>4
      <4>2. /\ <<"exec", "d_srf_bin_buffer_">> \in Owners'
            /\ <<"exec", "zero_buffer_">> \in Owners'
            /\ <<"exec", "pim_gemv_tmp_buffer_">> \in Owners'
        BY <2>8 DEF ExecOwners, ExecBuffer
      <4> QED BY <4>1, <4>2, <2>10
    <3> QED BY <3>1, <3>2, Keeps
  <2> QED BY <2>6, <2>7, <2>16, <2>17 DEF MemInv
<1> QED BY <1>2, <1>3

\* PimDeinitialize keeps MemInv, and strands only PIM chunks of other
\* devices.
LEMMA DeinitializeStep ==
  ASSUME MemInv, PimDeinitialize
  PROVE  /\ MemInv'
         /\ \A p \in Orphans' \ Orphans :
              call'.op = "PimDeinitialize" /\ p \in PimPtrs /\ p[1] # device
<1>1. TypeOK /\ KindsOK /\ Wrapped BY DEF MemInv
<1>2. CASE ~pim_initialized
  BY <1>1, <1>2, Idle DEF PimDeinitialize, Teardown, TypeOK
<1>3. CASE Teardown(AfterDeinitialize)
  <2> DEFINE srf  == exec["d_srf_bin_buffer_"]
             zero == exec["zero_buffer_"]
             gemv == exec["pim_gemv_tmp_buffer_"]
             D    == {srf, zero} \cup
                       {p \in heap : HeapFrees(p) /\ p \in weight_map_ \cup {gemv}}
  <2>1. /\ pim_initialized' = FALSE /\ exec' = NoExec /\ weight_map_' = {}
        /\ UNCHANGED <<device, bo, raw>>
        /\ hip' = hip \ {srf, zero} /\ heap' = AfterDeinitialize
        /\ call'.op = "PimDeinitialize"
    BY <1>3 DEF Teardown, Returns
  <2>2. \A p \in heap : p \in heap' <=> (HeapFrees(p) => p \notin weight_map_ \cup {gemv})
    BY <2>1 DEF AfterDeinitialize
  <2>3. heap' \subseteq heap /\ hip' \subseteq hip
    BY <2>1 DEF AfterDeinitialize
  <2>4. TypeOK'
    BY <1>1, <2>1, <2>3 DEF TypeOK, NoExec, ExecBuffer
  <2>5. KindsOK' /\ Wrapped'
    BY <1>1, <2>1 DEF KindsOK, Wrapped, NoExec, ExecBuffer
  <2>6. Owners' = Owners \ WeightOwners
    BY <2>1 DEF Owners, BoOwners, RawOwners, ExecOwners, WeightOwners
  <2>7. \A o \in Owners' : \/ \E b \in Bos : o = <<"bo", b>>
                           \/ \E r \in raw : o = <<"raw", r>>
                           \/ \E m \in ExecBuffer : o = <<"exec", m>>
    BY <2>6, OwnerCases DEF WeightOwners
  <2>8. \A o \in Owners' : Holds(o)' = Null
          \/ (Holds(o)' = Holds(o) /\ o \notin ExecOwners \cup WeightOwners)
    BY <2>1, <2>7, HoldsFacts, HoldsFactsPrime DEF NoExec, ExecOwners, WeightOwners
  <2>9. \A p \in D : \E x \in ExecOwners \cup WeightOwners : Holds(x) = p
    BY HoldsFacts DEF ExecOwners, WeightOwners, ExecBuffer
  <2>10. ExecOwners \cup WeightOwners \subseteq Owners
    BY DEF Owners
  <2>11. \A o \in Owners' : \/ Holds(o)' = Null
                            \/ Holds(o)' = Holds(o) /\ Holds(o) \notin D
    BY <2>6, <2>8, <2>9, <2>10 DEF MemInv, Exclusive
  <2>12. (heap \cup hip) \ D \subseteq heap' \cup hip'
    BY <2>1, <2>2
  <2>13. Exclusive' /\ OwnersBacked'
    <3>1. Owners' \subseteq Owners BY <2>6
    <3> HIDE DEF D
    <3> QED BY <3>1, <2>11, <2>12, Lose DEF MemInv
  <2>14. ASSUME NEW p \in Orphans' \ Orphans PROVE p \in PimPtrs /\ p[1] # device
    <3>1. p \in heap' \cup hip' /\ p \in heap \cup hip
      BY <2>3 DEF Orphans
    <3>2. PICK o \in Owners : Holds(o) = p
      BY <3>1 DEF Orphans
    <3>3. p # Null
      BY <3>1, <2>4, PointerAssumption DEF TypeOK, Ptrs
    <3>4. o \in ExecOwners \cup WeightOwners
      <4>1. SUFFICES ASSUME o \notin ExecOwners \cup WeightOwners PROVE FALSE
        OBVIOUS
      <4>2. o \in Owners' BY <4>1, <2>6
      <4>3. Holds(o)' = Holds(o)
        BY <4>1, <2>1, OwnerCases, HoldsFacts, HoldsFactsPrime DEF ExecOwners, WeightOwners
      <4> QED BY <4>2, <4>3, <3>2 DEF Orphans
    <3>5. p # srf /\ p # zero
      BY <3>1, <3>3, <2>1, <2>4, <1>1, PointerAssumption DEF KindsOK, TypeOK
    <3>6. p \in weight_map_ \cup {gemv}
      BY <3>2, <3>4, <3>5, HoldsFacts DEF ExecOwners, WeightOwners, ExecBuffer
    <3>7. p \in PimPtrs
      BY <3>6, <3>3, <1>1 DEF TypeOK, KindsOK
    <3>8. p \in heap /\ p \in heap'
      BY <3>1, <3>7, <2>4, <1>1, PointerAssumption DEF TypeOK
    <3>9. ~HeapFrees(p)
      BY <3>6, <3>8, <2>2
    <3> QED BY <3>7, <3>8, <3>9 DEF HeapFrees
  <2> QED BY <2>1, <2>4, <2>5, <2>13, <2>14 DEF MemInv
<1> QED BY <1>2, <1>3 DEF PimDeinitialize

\* PimCreateBo keeps MemInv and strands nothing.
LEMMA CreateBoStep ==
  ASSUME MemInv, NEW b \in Bos, NEW mem \in MemType, PimCreateBo(b, mem)
  PROVE  MemInv' /\ Orphans' \subseteq Orphans
<1>1. PICK out \in alloc_memory(mem) :
        /\ heap' = out.heap /\ hip' = out.hip
        /\ bo' = IF out.ret # 0 THEN bo
                 ELSE [bo EXCEPT ![b] = [mem_type |-> mem, data |-> out.ptr,
                                         use_user_ptr |-> FALSE]]
  BY DEF PimCreateBo
<1>2. bo[b] = NoBo /\ UNCHANGED <<pim_initialized, device, raw, exec, weight_map_>>
  BY DEF PimCreateBo
<1>3. CASE out.ret = 0
  BY <1>1, <1>2, <1>3, BoTakes
<1>4. CASE out.ret # 0
  <2>1. heap' = heap /\ hip' = hip
    BY <1>1, <1>4, AllocOutcome DEF MemInv
  <2> QED BY <1>1, <1>2, <1>4, <2>1, Idle DEF MemInv, TypeOK, memory, handles
<1> QED BY <1>3, <1>4

\* PimAllocMemory(PimBo*) keeps MemInv and strands nothing.
LEMMA AllocMemoryBoStep ==
  ASSUME MemInv, NEW b \in Bos, NEW mem \in MemType, PimAllocMemoryBo(b, mem)
  PROVE  MemInv' /\ Orphans' \subseteq Orphans
<1>1. PICK out \in alloc_memory(mem) :
        /\ heap' = out.heap /\ hip' = out.hip
        /\ bo' = IF out.ptr = Null THEN bo
                 ELSE [bo EXCEPT ![b] = [mem_type |-> mem, data |-> out.ptr,
                                         use_user_ptr |-> FALSE]]
  BY DEF PimAllocMemoryBo
<1>2. bo[b] = NoBo /\ UNCHANGED <<pim_initialized, device, raw, exec, weight_map_>>
  BY DEF PimAllocMemoryBo
<1>3. CASE out.ptr # Null
  <2>1. out.ret = 0
    BY <1>3, AllocOutcome DEF MemInv
  <2> QED BY <1>1, <1>2, <1>3, <2>1, BoTakes
<1>4. CASE out.ptr = Null
  <2>1. heap' = heap /\ hip' = hip
    BY <1>1, <1>4, AllocOutcome DEF MemInv
  <2> QED BY <1>1, <1>2, <1>4, <2>1, Idle DEF MemInv, TypeOK, memory, handles
<1> QED BY <1>3, <1>4

\* A buffer object around user memory comes or goes: no owner, no memory.
LEMMA UserBoStep ==
  ASSUME MemInv, NEW b \in Bos, NEW v \in PimBo \cup {NoBo},
         bo[b] = NoBo \/ bo[b].use_user_ptr,
         v # NoBo => /\ v.use_user_ptr
                     /\ \E r \in raw : r.ptr = v.data /\ r.mem = v.mem_type,
         bo' = [bo EXCEPT ![b] = v],
         UNCHANGED <<pim_initialized, device, memory, raw, exec, weight_map_>>
  PROVE  MemInv' /\ Orphans' \subseteq Orphans
<1> USE DEF memory
<1>1. TypeOK /\ KindsOK /\ Wrapped BY DEF MemInv
<1>2. \A c \in Bos : bo'[c] = IF c = b THEN v ELSE bo[c]
  BY <1>1 DEF TypeOK
<1>3. TypeOK' BY <1>1 DEF TypeOK
<1>4. KindsOK' BY <1>1, <1>2 DEF KindsOK
<1>5. Wrapped' BY <1>1, <1>2 DEF Wrapped
<1>6. Owners' = Owners
  <2>1. BoOwners' = BoOwners BY <1>2 DEF BoOwners
  <2> QED BY <2>1 DEF Owners, RawOwners, ExecOwners, WeightOwners
<1>7. \A o \in Owners : Holds(o)' = Holds(o)
  BY <1>2, OwnerCases, HoldsFacts, HoldsFactsPrime
<1>8. Exclusive' /\ OwnersBacked'
  BY <1>6, <1>7 DEF MemInv, Exclusive, OwnersBacked
<1>9. Orphans' \subseteq Orphans
  BY <1>6, <1>7 DEF Orphans
<1> QED BY <1>3, <1>4, <1>5, <1>8, <1>9 DEF MemInv

\* PimCreateBo around user memory keeps MemInv and strands nothing.
LEMMA CreateBoUserStep ==
  ASSUME MemInv, NEW b \in Bos, NEW r \in raw, PimCreateBoUser(b, r)
  PROVE  MemInv' /\ Orphans' \subseteq Orphans
<1> DEFINE v == [mem_type |-> r.mem, data |-> r.ptr, use_user_ptr |-> TRUE]
<1>1. r \in [ptr : Ptrs, mem : MemType]
  BY DEF MemInv, TypeOK
<1>2. v \in PimBo
  BY <1>1 DEF PimBo
<1>3. v.use_user_ptr /\ r.ptr = v.data /\ r.mem = v.mem_type
  OBVIOUS
<1>4. /\ bo[b] = NoBo /\ bo' = [bo EXCEPT ![b] = v]
      /\ UNCHANGED <<pim_initialized, device, memory, raw, exec, weight_map_>>
  BY DEF PimCreateBoUser
<1> HIDE DEF v
<1> QED BY <1>2, <1>3, <1>4, UserBoStep

\* PimDestroyBo keeps MemInv and strands nothing.
LEMMA DestroyBoStep ==
  ASSUME MemInv, NEW b \in Bos, PimDestroyBo(b)
  PROVE  MemInv' /\ Orphans' \subseteq Orphans
<1>1. bo[b] # NoBo /\ UNCHANGED <<pim_initialized, device, raw, exec, weight_map_>>
  BY DEF PimDestroyBo
<1>2. CASE bo[b].use_user_ptr
  <2>1. heap' = heap /\ hip' = hip /\ bo' = [bo EXCEPT ![b] = NoBo]
    BY <1>2 DEF PimDestroyBo, free_bo_ret
  <2> QED BY <1>1, <1>2, <2>1, UserBoStep DEF memory
<1>3. CASE ~bo[b].use_user_ptr /\ free_bo_ret(b) = 0
  BY <1>1, <1>3, BoGives DEF PimDestroyBo
<1>4. CASE ~bo[b].use_user_ptr /\ free_bo_ret(b) # 0
  <2>1. heap' = heap /\ hip' = hip /\ bo' = bo
    BY <1>4 DEF PimDestroyBo, free_bo_ret, HeapAfter, HipAfter
  <2> QED BY <1>1, <2>1, Idle DEF MemInv, TypeOK, memory, handles
<1> QED BY <1>2, <1>3, <1>4

\* PimFreeMemory(PimBo*) keeps MemInv and strands nothing.
LEMMA FreeMemoryBoStep ==
  ASSUME MemInv, NEW b \in Bos, PimFreeMemoryBo(b)
  PROVE  MemInv' /\ Orphans' \subseteq Orphans
<1>1. /\ bo[b] # NoBo /\ ~bo[b].use_user_ptr
      /\ UNCHANGED <<pim_initialized, device, raw, exec, weight_map_>>
  BY DEF PimFreeMemoryBo
<1>2. CASE free_bo_ret(b) = 0
  BY <1>1, <1>2, BoGives DEF PimFreeMemoryBo
<1>3. CASE free_bo_ret(b) # 0
  <2>1. heap' = heap /\ hip' = hip /\ bo' = bo
    BY <1>1, <1>3 DEF PimFreeMemoryBo, free_bo_ret, HeapAfter, HipAfter
  <2> QED BY <1>1, <2>1, Idle DEF MemInv, TypeOK, memory, handles
<1> QED BY <1>2, <1>3

\* PimAllocMemory keeps MemInv and strands nothing.
LEMMA AllocMemoryStep ==
  ASSUME MemInv, NEW mem \in MemType, PimAllocMemory(mem)
  PROVE  MemInv' /\ Orphans' \subseteq Orphans
<1>1. TypeOK /\ KindsOK /\ Wrapped BY DEF MemInv
<1>2. PICK out \in alloc_memory(mem) :
        /\ heap' = out.heap /\ hip' = out.hip
        /\ raw' = IF out.ptr = Null THEN raw
                  ELSE raw \cup {[ptr |-> out.ptr, mem |-> mem]}
  BY DEF PimAllocMemory
<1>3. UNCHANGED <<pim_initialized, device, bo, exec, weight_map_>>
  BY DEF PimAllocMemory
<1>4. CASE out.ptr = Null
  <2>1. heap' = heap /\ hip' = hip /\ raw' = raw
    BY <1>1, <1>2, <1>4, AllocOutcome
  <2> QED BY <1>1, <1>3, <2>1, Idle DEF TypeOK, memory, handles
<1>5. CASE out.ptr # Null
  <2> DEFINE r   == [ptr |-> out.ptr, mem |-> mem]
             new == <<"raw", r>>
  <2>1. /\ out.ptr \in IF mem = "PIM" THEN PimPtrs ELSE HipPtrs
        /\ out.ptr \notin heap \cup hip
        /\ heap' \cup hip' = heap \cup hip \cup {out.ptr}
        /\ heap' \subseteq PimPtrs /\ hip' \subseteq HipPtrs
    BY <1>1, <1>2, <1>5, AllocOutcome
  <2>2. raw' = raw \cup {r}
    BY <1>2, <1>5
  <2>3. r \in [ptr : Ptrs, mem : MemType]
    BY <2>1 DEF Ptrs
  <2>4. TypeOK'
    BY <1>1, <1>3, <2>1, <2>2, <2>3 DEF TypeOK
  <2>5. KindsOK'
    BY <1>1, <1>3, <2>1, <2>2 DEF KindsOK
  <2>6. Wrapped'
    BY <1>1, <1>3, <2>2 DEF Wrapped
  <2>7. Owners' = Owners \cup {new}
    BY <1>3, <2>2 DEF Owners, BoOwners, RawOwners, ExecOwners, WeightOwners
  <2>8. \A o \in Owners : Holds(o)' = Holds(o)
    BY <1>3, OwnerCases, HoldsFacts, HoldsFactsPrime
  <2>9. Holds(new)' = out.ptr
    BY HoldsFactsPrime
  <2> HIDE DEF new
  <2>10. new \notin Owners
    BY <1>5, <2>1, <2>8, <2>9 DEF MemInv, OwnersBacked
  <2>11. Exclusive' /\ OwnersBacked'
    <3>1. Owners' \subseteq Owners \cup {new} BY <2>7
    <3>2. \A o \in Owners' : o \notin {new} => Holds(o)' = Holds(o) BY <2>7, <2>8
    <3>3. \A x \in {new} : Holds(x)' = Null
            \/ (Holds(x)' \notin heap \cup hip /\ Holds(x)' \in heap' \cup hip')
      BY <2>1, <2>9
    <3>4. heap \cup hip \subseteq heap' \cup hip' BY <2>1
    <3> QED BY <3>1, <3>2, <3>3, <3>4, Gain DEF MemInv
  <2>12. Orphans' \subseteq Orphans
    <3>1. \A o \in Owners : \E n \in Owners' : Holds(n)' = Holds(o)
      BY <2>7, <2>8
    <3>2. \A p \in (heap' \cup hip') \ (heap \cup hip) : \E n \in Owners' : Holds(n)' = p
      BY <2>1, <2>7, <2>9
    <3> QED BY <3>1, <3>2, Keeps
  <2> QED BY <2>4, <2>5, <2>6, <2>11, <2>12 DEF MemInv
<1> QED BY <1>4, <1>5

\* PimFreeMemory keeps MemInv and strands nothing.
LEMMA FreeMemoryStep ==
  ASSUME MemInv, NEW r \in raw, Unwrapped(r), PimFreeMemory(r)
  PROVE  MemInv' /\ Orphans' \subseteq Orphans
<1> DEFINE old == <<"raw", r>>
<1>1. TypeOK /\ KindsOK /\ Wrapped BY DEF MemInv
<1>2. UNCHANGED <<pim_initialized, device, bo, exec, weight_map_>>
  BY DEF PimFreeMemory
<1>3. CASE r.mem = "PIM" /\ ~HeapFrees(r.ptr)
  <2>1. heap' = heap /\ hip' = hip /\ raw' = raw
    BY <1>3 DEF PimFreeMemory, HeapAfter, HipAfter
  <2> QED BY <1>1, <1>2, <2>1, Idle DEF TypeOK, memory, handles
<1>4. CASE ~(r.mem = "PIM" /\ ~HeapFrees(r.ptr))
  <2>1. raw' = raw \ {r}
    BY <1>4 DEF PimFreeMemory
  <2>2. heap' = heap \ {r.ptr} /\ hip' = hip \ {r.ptr}
    <3>1. r.mem = "PIM" => r.ptr \notin hip
      BY <1>1, PointerAssumption DEF KindsOK, TypeOK
    <3>2. r.mem # "PIM" => r.ptr \notin heap
      BY <1>1, PointerAssumption DEF KindsOK, TypeOK
    <3> QED BY <1>4, <3>1, <3>2 DEF PimFreeMemory, HeapAfter, HipAfter
  <2>3. TypeOK' /\ KindsOK'
    BY <1>1, <1>2, <2>1, <2>2 DEF TypeOK, KindsOK
  <2>4. Wrapped'
    BY <1>1, <1>2, <2>1 DEF Wrapped, Unwrapped
  <2>5. Owners' = Owners \ {old} /\ old \in Owners /\ Holds(old) = r.ptr
    BY <1>2, <2>1, HoldsFacts DEF Owners, BoOwners, RawOwners, ExecOwners, WeightOwners
  <2>6. \A o \in Owners' : Holds(o)' = Holds(o)
    BY <1>2, <2>5, OwnerCases, HoldsFacts, HoldsFactsPrime
  <2> HIDE DEF old
  <2>7. Exclusive' /\ OwnersBacked'
    <3>1. Owners' \subseteq Owners BY <2>5
    <3>2. \A o \in Owners' : \/ Holds(o)' = Null
                             \/ Holds(o)' = Holds(o) /\ Holds(o) \notin {r.ptr}
      BY <2>5, <2>6 DEF MemInv, Exclusive
    <3>3. (heap \cup hip) \ {r.ptr} \subseteq heap' \cup hip' BY <2>2
    <3> QED BY <3>1, <3>2, <3>3, Lose DEF MemInv
  <2>8. Orphans' \subseteq Orphans
    BY <2>2, <2>5, <2>6 DEF Orphans
  <2> QED BY <2>3, <2>4, <2>7, <2>8 DEF MemInv
<1> QED BY <1>3, <1>4

\* Preloading a weight keeps MemInv and strands nothing.
LEMMA PreloadWeightStep ==
  ASSUME MemInv, PreloadWeight
  PROVE  MemInv' /\ Orphans' \subseteq Orphans
<1>1. TypeOK /\ KindsOK /\ Wrapped BY DEF MemInv
<1>2. PICK out \in alloc_memory("PIM") :
        heap' = out.heap /\ weight_map_' = weight_map_ \cup {out.ptr}
  BY DEF PreloadWeight
<1>3. pim_initialized /\ UNCHANGED <<pim_initialized, device, hip, bo, raw, exec>>
  BY DEF PreloadWeight
<1>4. /\ heap \subseteq heap' /\ heap' \subseteq PimPtrs
      /\ out.ptr = Null => heap' = heap
      /\ out.ptr # Null => /\ out.ptr \in PimPtrs /\ out.ptr \notin heap \cup hip
                           /\ heap' \cup hip' = heap \cup hip \cup {out.ptr}
  <2>1. "PIM" \in MemType BY DEF MemType
  <2>2. out.hip = hip BY <1>1, <2>1, AllocOutcome
  <2> QED BY <1>1, <1>2, <1>3, <2>1, <2>2, AllocOutcome
<1> DEFINE new == <<"weight", out.ptr>>
<1>5. TypeOK'
  BY <1>1, <1>2, <1>3, <1>4 DEF TypeOK
<1>6. KindsOK' /\ Wrapped'
  BY <1>1, <1>3 DEF KindsOK, Wrapped
<1>7. Owners' = Owners \cup {new}
  BY <1>2, <1>3 DEF Owners, BoOwners, RawOwners, ExecOwners, WeightOwners
<1>8. \A o \in Owners' : Holds(o)' = Holds(o)
  BY <1>3, <1>7, OwnerCases, HoldsFacts, HoldsFactsPrime
<1>9. Holds(new)' = out.ptr
  BY HoldsFactsPrime
<1> HIDE DEF new
<1>10. Exclusive' /\ OwnersBacked'
  <2>1. Owners' \subseteq Owners \cup {new} BY <1>7
  <2>2. \A x \in {new} : Holds(x)' = Null
          \/ (Holds(x)' \notin heap \cup hip /\ Holds(x)' \in heap' \cup hip')
    BY <1>4, <1>9
  <2>3. heap \cup hip \subseteq heap' \cup hip' BY <1>3, <1>4
  <2> QED BY <2>1, <2>2, <2>3, <1>8, Gain DEF MemInv
<1>11. Orphans' \subseteq Orphans
  <2>1. \A o \in Owners : \E n \in Owners' : Holds(n)' = Holds(o)
    BY <1>7, <1>8
  <2>2. \A p \in (heap' \cup hip') \ (heap \cup hip) : \E n \in Owners' : Holds(n)' = p
    BY <1>3, <1>4, <1>7, <1>9
  <2> QED BY <2>1, <2>2, Keeps
<1> QED BY <1>5, <1>6, <1>10, <1>11 DEF MemInv

\* Init establishes MemInv.
LEMMA InitMemInv ==
  ASSUME Init
  PROVE  MemInv
<1>1. TypeOK /\ KindsOK /\ Wrapped
  BY DEF Init, TypeOK, KindsOK, Wrapped, NoExec, ExecBuffer
<1>2. \A o \in Owners : Holds(o) = Null
  BY OwnerCases, HoldsFacts DEF Init, NoExec
<1> QED BY <1>1, <1>2 DEF MemInv, Exclusive, OwnersBacked

\* A step keeps the invariant, and loses memory only as NoOrphan allows.
LEMMA StepMemInv ==
  ASSUME MemInv, Next
  PROVE  /\ MemInv'
         /\ \A p \in Orphans' \ Orphans :
              call'.op = "PimDeinitialize" /\ p \in PimPtrs /\ p[1] # device
<1>1. CASE PimInitialize BY <1>1, InitializeStep
<1>2. CASE PimDeinitialize BY <1>2, DeinitializeStep
<1>3. CASE \E d \in Devices : PimSetDevice(d)
  BY <1>3, Idle DEF PimSetDevice, MemInv, TypeOK
<1>4. CASE \E op \in {"PimCreateBo", "PimDestroyBo", "PimAllocMemory",
                      "PimFreeMemory"} : NotInitialized(op)
  BY <1>4, Idle DEF NotInitialized, MemInv, TypeOK
<1>5. CASE \E b \in Bos, mem \in MemType : PimCreateBo(b, mem)
  BY <1>5, CreateBoStep
<1>6. CASE \E b \in Bos, r \in raw : PimCreateBoUser(b, r)
  BY <1>6, CreateBoUserStep
<1>7. CASE \E b \in Bos : PimDestroyBo(b)
  BY <1>7, DestroyBoStep
<1>8. CASE \E b \in Bos, mem \in MemType : PimAllocMemoryBo(b, mem)
  BY <1>8, AllocMemoryBoStep
<1>9. CASE \E b \in Bos : PimFreeMemoryBo(b)
  BY <1>9, FreeMemoryBoStep
<1>10. CASE \E mem \in MemType : PimAllocMemory(mem)
  BY <1>10, AllocMemoryStep
<1>11. CASE \E r \in {s \in raw : Unwrapped(s)} : PimFreeMemory(r)
  BY <1>11, FreeMemoryStep
<1>12. CASE PreloadWeight BY <1>12, PreloadWeightStep
<1> QED BY <1>1, <1>2, <1>3, <1>4, <1>5, <1>6, <1>7, <1>8, <1>9, <1>10, <1>11, <1>12
       DEF Next

-----------------------------------------------------------------------------
(* Theorems.                                                               *)

\* The inductive invariant of the memory calls holds in every reachable state.
THEOREM MemoryInvariant == Spec => []MemInv
<1>1. Init => MemInv BY InitMemInv
<1>2. MemInv /\ [Next]_vars => MemInv'
  <2>1. CASE Next BY <2>1, StepMemInv
  <2>2. CASE UNCHANGED vars BY <2>2, Idle DEF vars, MemInv, TypeOK
  <2> QED BY <2>1, <2>2
<1> QED BY <1>1, <1>2, PTL DEF Spec

\* The state keeps its types, and without a runtime there is nothing of it left.
THEOREM MemoryTypeCorrect == Spec => []TypeOK
<1>1. MemInv => TypeOK BY DEF MemInv
<1> QED BY <1>1, MemoryInvariant, PTL

\* No two handles ever own the same memory.
THEOREM OwnershipExclusive == Spec => []Exclusive
<1>1. MemInv => Exclusive BY DEF MemInv
<1> QED BY <1>1, MemoryInvariant, PTL

\* Memory a handle refers to, also through a buffer object around user memory,
\* is allocated.
THEOREM HandlesBacked == Spec => []Backed
<1>1. ASSUME MemInv PROVE Backed
  <2>1. ASSUME NEW b \in Bos, bo[b] # NoBo
        PROVE  bo[b].data \in heap \cup hip \cup {Null}
    <3>1. CASE bo[b].use_user_ptr
      <4>1. PICK r \in raw : r.ptr = bo[b].data
        BY <2>1, <3>1, <1>1 DEF MemInv, Wrapped
      <4>2. <<"raw", r>> \in Owners BY DEF Owners, RawOwners
      <4> QED BY <4>1, <4>2, <1>1, HoldsFacts DEF MemInv, OwnersBacked
    <3>2. CASE ~bo[b].use_user_ptr
      <4>1. <<"bo", b>> \in Owners BY <2>1, <3>2 DEF Owners, BoOwners
      <4> QED BY <4>1, <1>1, HoldsFacts DEF MemInv, OwnersBacked
    <3> QED BY <3>1, <3>2
  <2> QED BY <2>1, <1>1 DEF Backed, MemInv, OwnersBacked
<1> QED BY <1>1, MemoryInvariant, PTL

\* No call loses memory but PimDeinitialize, which loses what the runtime had on
\* another device than the current one.
THEOREM OnlyDeinitLoses == Spec => NoOrphan
<1>1. MemInv /\ [Next]_vars =>
        [\A p \in Orphans' \ Orphans :
           call'.op = "PimDeinitialize" /\ p \in PimPtrs /\ p[1] # device]_vars
  BY StepMemInv
<1> QED BY <1>1, MemoryInvariant, PTL DEF Spec, NoOrphan

\* A buffer object can be destroyed whenever its device is current.
THEOREM DestroyAtHome == Spec => HomeDestroySucceeds
<1> DEFINE A == \A b \in Bos :
                  /\ bo[b] # NoBo /\ call'.op = "PimDestroyBo" /\ pim_initialized
                  /\ call'.ptr = bo[b].data
                  /\ bo[b].data \in PimPtrs => bo[b].data[1] = device
                  => call'.ret = 0
<1>1. ASSUME MemInv, Next PROVE A
  <2> SUFFICES ASSUME NEW b \in Bos, bo[b] # NoBo, call'.op = "PimDestroyBo",
                      pim_initialized, call'.ptr = bo[b].data,
                      bo[b].data \in PimPtrs => bo[b].data[1] = device
               PROVE  call'.ret = 0
    OBVIOUS
  <2>1. PICK c \in Bos : PimDestroyBo(c)
    <3>0. \A op, r, p : Returns(op, r, p) => op = "PimDestroyBo" BY DEF Returns
    <3>1. ~PimInitialize BY <3>0 DEF PimInitialize
    <3>2. ~PimDeinitialize BY <3>0 DEF PimDeinitialize, Teardown
    <3>3. \A d : ~PimSetDevice(d) BY <3>0 DEF PimSetDevice
    <3>4. \A op : ~NotInitialized(op) BY <3>0 DEF NotInitialized
    <3>5. \A d, mem : ~PimCreateBo(d, mem) BY <3>0 DEF PimCreateBo
    <3>6. \A d, r : ~PimCreateBoUser(d, r) BY <3>0 DEF PimCreateBoUser
    <3>7. \A d, mem : ~PimAllocMemoryBo(d, mem) BY <3>0 DEF PimAllocMemoryBo
    <3>8. \A d : ~PimFreeMemoryBo(d) BY <3>0 DEF PimFreeMemoryBo
    <3>9. \A mem : ~PimAllocMemory(mem) BY <3>0 DEF PimAllocMemory
    <3>10. \A r : ~PimFreeMemory(r) BY <3>0 DEF PimFreeMemory
    <3>11. ~PreloadWeight BY <3>0 DEF PreloadWeight
    <3> QED BY <1>1, <3>1, <3>2, <3>3, <3>4, <3>5, <3>6, <3>7, <3>8, <3>9, <3>10,
               <3>11 DEF Next
  <2>2. bo[c] # NoBo /\ call'.ret = free_bo_ret(c) /\ call'.ptr = bo[c].data
    BY <2>1 DEF PimDestroyBo, Returns
  <2>3. CASE bo[c].use_user_ptr \/ bo[c].mem_type # "PIM"
    BY <2>2, <2>3 DEF free_bo_ret
  <2>4. CASE ~bo[c].use_user_ptr /\ bo[c].mem_type = "PIM"
    <3>1. <<"bo", c>> \in Owners BY <2>2, <2>4 DEF Owners, BoOwners
    <3>2. bo[c].data \in heap \cup hip \cup {Null}
      BY <1>1, <3>1, HoldsFacts DEF MemInv, OwnersBacked
    <3>3. bo[c].data \in PimPtrs \cup {Null}
      BY <1>1, <2>2, <2>4 DEF MemInv, KindsOK
    <3>4. bo[c].data = Null \/ (bo[c].data \in heap /\ bo[c].data[1] = device)
      BY <1>1, <2>2, <3>2, <3>3, PointerAssumption DEF MemInv, TypeOK, Ptrs
    <3> QED BY <3>4, <2>2 DEF free_bo_ret, HeapFrees
  <2> QED BY <2>3, <2>4
<1>2. MemInv /\ [Next]_vars => [A]_vars
  BY <1>1
<1> QED BY <1>2, MemoryInvariant, PTL DEF Spec, HomeDestroySucceeds
=============================================================================
