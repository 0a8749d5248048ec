------------------------------ MODULE HashUdf ------------------------------
(* Hash objects and user defined fields: src/src/hash and src/src/udf.     *)
(* The handlers run under the hash lock (with the UDF lock inside) or the  *)
(* UDF lock and are one action each, except the creation of a hash object: *)
(* it takes the first free index before the lock and marks it as used      *)
(* after it.                                                               *)
EXTENDS Integers, FiniteSets

CONSTANTS HThread,             \* callers that create hash objects
          NHash,               \* number of indices
          HAttr,               \* switch attributes, in the order they are set in
          HVal,                \* lists of native fields
          UGroup, Udf, UMask,  \* ids and hash masks
          NoHash, NoHCall, NoGroup, NoUdf, NoMask

(* There is an index for each of the two default hash objects.             *)
ASSUME HashAssumption ==
  /\ NHash \in Nat /\ NHash >= 2
  /\ HAttr \subseteq Nat /\ IsFiniteSet(HAttr) /\ IsFiniteSet(Udf)

VARIABLES
  hashes,      \* hash_obj_tree
  fields,      \* the lists of a hash object
  hashRef,     \* ref_count of a hash object
  usedIdx,     \* indices that are not free in hash_index_bitmap
  hashCall,    \* the creation a caller is in
  racedIdx,    \* history: indices a creation met another call on
  attrHash,    \* hash_obj_types: the hash object of a switch attribute
  npuFields,   \* the lists the NPU hashes by
  unsureHash,  \* history: attributes a failure has put out
  groups,      \* udf_group_tree: types of the groups
  udfCount,    \* udf_count of a group
  udfs,        \* udf_obj_tree
  npuMask,     \* the mask the NPU has for a UDF
  maskKept     \* history: UDFs whose new mask the NPU refused

hashVars == <<hashes, fields, hashRef, usedIdx, hashCall, racedIdx,
              attrHash, npuFields, unsureHash>>
udfVars == <<groups, udfCount, udfs, npuMask, maskKept>>
huVars == <<hashVars, udfVars>>

HIndex == 0 .. NHash - 1
Fields == [native : HVal \cup {NoHash}, udf : SUBSET UGroup]
NoFields == [native |-> NoHash, udf |-> {}]
HashCall == [idx : HIndex, phase : {"insert", "mark"}]
UdfInfo == [group : UGroup, mask : UMask \cup {NoMask}]

ASSUME HashNullAssumption ==
  /\ NoHash \notin HIndex /\ NoHCall \notin HashCall
  /\ NoGroup \notin {"generic", "hash"} /\ NoUdf \notin UdfInfo

(* dn_sai_hash_udf_group_list_validate                                     *)
HashGroups == {g \in UGroup : groups[g] = "hash"}
GoodFields == [native : HVal \cup {NoHash}, udf : SUBSET HashGroups]
Users(h) == {a \in HAttr : attrHash[a] = h}

---------------------------------------------------------------------------
(* Hash objects                                                            *)

(* dn_sai_hash_obj_create takes the first free index ...                   *)
PickIndex(t) ==
  /\ hashCall[t] = NoHCall
  /\ \E i \in HIndex \ usedIdx :
       /\ \A j \in HIndex \ usedIdx : i <= j
       /\ hashCall' = [hashCall EXCEPT ![t] = [idx |-> i, phase |-> "insert"]]
       /\ racedIdx' = IF \E u \in HThread : hashCall[u] # NoHCall /\ hashCall[u].idx = i
                        THEN racedIdx \cup {i} ELSE racedIdx
  /\ UNCHANGED <<hashes, fields, hashRef, usedIdx, attrHash, npuFields, unsureHash, udfVars>>

(* ... fails, or inserts the object; an id that is in the tree is returned *)
(* once more ...                                                           *)
InsertHash(t) ==
  LET i == hashCall[t].idx IN
  /\ hashCall[t] # NoHCall /\ hashCall[t].phase = "insert"
  /\ \/ /\ hashCall' = [hashCall EXCEPT ![t] = NoHCall]
        /\ UNCHANGED <<hashes, fields, hashRef>>
     \/ /\ hashCall' = [hashCall EXCEPT ![t].phase = "mark"]
        /\ \E f \in GoodFields :
             IF i \in hashes THEN UNCHANGED <<hashes, fields, hashRef>>
             ELSE /\ hashes' = hashes \cup {i}
                  /\ fields' = [fields EXCEPT ![i] = f]
                  /\ hashRef' = [hashRef EXCEPT ![i] = 0]
  /\ UNCHANGED <<usedIdx, racedIdx, attrHash, npuFields, unsureHash, udfVars>>

(* Mutant: the index is not marked                                         *)
MarkedNever(i) == usedIdx
Marked(i) == usedIdx \cup {i}

(* ... and marks the index after the unlock.                               *)
MarkIndex(t) ==
  /\ hashCall[t] # NoHCall /\ hashCall[t].phase = "mark"
  /\ usedIdx' = Marked(hashCall[t].idx)
  /\ hashCall' = [hashCall EXCEPT ![t] = NoHCall]
  /\ UNCHANGED <<hashes, fields, hashRef, racedIdx, attrHash, npuFields, unsureHash, udfVars>>

(* dn_sai_hash_obj_remove                                                  *)
RemoveHash(h) ==
  /\ h \in hashes /\ hashRef[h] = 0
  /\ hashes' = hashes \ {h}
  /\ fields' = [fields EXCEPT ![h] = NoFields]
  /\ usedIdx' = usedIdx \ {h}
  /\ racedIdx' = IF \E t \in HThread : hashCall[t] # NoHCall /\ hashCall[t].idx = h
                   THEN racedIdx \cup {h} ELSE racedIdx
  /\ UNCHANGED <<hashRef, hashCall, attrHash, npuFields, unsureHash, udfVars>>

(* Mutant: what was set before the refusal stays                           *)
ResetNever(new, before, stuck) == [a \in HAttr |-> IF a \in before THEN new ELSE npuFields[a]]

(* On a refusal the attributes before it are set back; the ones of stuck   *)
(* refuse that as well.                                                    *)
Reset(new, before, stuck) == [a \in HAttr |-> IF a \in stuck THEN new ELSE npuFields[a]]

(* dn_sai_hash_obj_set_in_hw: every attribute that names the object        *)
SetInHw(h, new) ==
  \E r \in Users(h), stuck \in SUBSET Users(h) :
    LET before == {a \in Users(h) : a < r} IN
    /\ stuck \subseteq before
    /\ npuFields' = Reset(new, before, stuck)
    /\ unsureHash' = unsureHash \cup stuck

(* dn_sai_hash_obj_set_attr of one of the lists: the NPU first, then the   *)
(* object, for which there may be no memory                                *)
SetHash(h) ==
  /\ h \in hashes
  /\ \E new \in GoodFields :
       /\ new.native = fields[h].native \/ new.udf = fields[h].udf
       /\ \/ /\ npuFields' = [a \in HAttr |-> IF a \in Users(h) THEN new ELSE npuFields[a]]
             /\ \/ /\ fields' = [fields EXCEPT ![h] = new]
                   /\ unsureHash' = unsureHash \ Users(h)
                \/ unsureHash' = unsureHash \cup Users(h) /\ UNCHANGED fields
          \/ SetInHw(h, new) /\ UNCHANGED fields
  /\ UNCHANGED <<hashes, hashRef, usedIdx, hashCall, racedIdx, attrHash, udfVars>>

(* Mutant: the object that was named before stays counted                  *)
RecountedNew(old, new) == [h \in HIndex |-> hashRef[h] + (IF h = new THEN 1 ELSE 0)]
Recounted(old, new) ==
  [h \in HIndex |-> hashRef[h] + (IF h = new THEN 1 ELSE 0) - (IF h = old THEN 1 ELSE 0)]

(* dn_sai_switch_hash_attr_set; what the NPU refuses changes nothing.      *)
SetSwitchHash(a, h) ==
  /\ h \in hashes \cup {NoHash}
  /\ npuFields' = [npuFields EXCEPT ![a] = IF h = NoHash THEN NoFields ELSE fields[h]]
  /\ unsureHash' = unsureHash \ {a}
  /\ hashRef' = Recounted(attrHash[a], h)
  /\ attrHash' = [attrHash EXCEPT ![a] = h]
  /\ UNCHANGED <<hashes, fields, usedIdx, hashCall, racedIdx, udfVars>>

---------------------------------------------------------------------------
(* User defined fields                                                     *)

(* dn_sai_udf_group_create                                                 *)
CreateUdfGroup(g, k) ==
  /\ groups[g] = NoGroup
  /\ groups' = [groups EXCEPT ![g] = k]
  /\ udfCount' = [udfCount EXCEPT ![g] = 0]
  /\ UNCHANGED <<hashVars, udfs, npuMask, maskKept>>

(* Mutant: a group with one field counts as empty                          *)
GroupEmptyNearly(g) == udfCount[g] <= 1
GroupEmpty(g) == udfCount[g] = 0

(* dn_sai_udf_group_remove: hash objects that list the group do not keep   *)
(* it.                                                                     *)
RemoveUdfGroup(g) ==
  /\ groups[g] # NoGroup
  /\ GroupEmpty(g)
  /\ groups' = [groups EXCEPT ![g] = NoGroup]
  /\ UNCHANGED <<hashVars, udfCount, udfs, npuMask, maskKept>>

(* dn_sai_udf_create: only a field of a hash group has a mask.             *)
CreateUdf(u, g) ==
  /\ udfs[u] = NoUdf /\ groups[g] # NoGroup
  /\ \E m \in IF groups[g] = "hash" THEN UMask ELSE {NoMask} :
       /\ udfs' = [udfs EXCEPT ![u] = [group |-> g, mask |-> m]]
       /\ npuMask' = [npuMask EXCEPT ![u] = m]
  /\ udfCount' = [udfCount EXCEPT ![g] = @ + 1]
  /\ maskKept' = maskKept \ {u}
  /\ UNCHANGED <<hashVars, groups>>

(* dn_sai_udf_remove; what the NPU refuses is put back.                    *)
RemoveUdf(u) ==
  /\ udfs[u] # NoUdf
  /\ udfs' = [udfs EXCEPT ![u] = NoUdf]
  /\ udfCount' = [udfCount EXCEPT ![udfs[u].group] = @ - 1]
  /\ UNCHANGED <<hashVars, groups, npuMask, maskKept>>

(* dn_sai_udf_set_attribute of the mask: the copy that is set shares its   *)
(* list with the field, which keeps a mask the NPU refuses.                *)
SetUdfMask(u, m) ==
  /\ udfs[u] # NoUdf /\ groups[udfs[u].group] = "hash"
  /\ udfs' = [udfs EXCEPT ![u].mask = m]
  /\ \/ npuMask' = [npuMask EXCEPT ![u] = m] /\ maskKept' = maskKept \ {u}
     \/ maskKept' = maskKept \cup {u} /\ UNCHANGED npuMask
  /\ UNCHANGED <<hashVars, groups, udfCount>>

---------------------------------------------------------------------------
(* After sai_udf_init and sai_hash_obj_init, which makes the default hash  *)
(* objects of the first two switch attributes; some groups may have been   *)
(* created.                                                                *)
HashUdfInit ==
  LET first == [a \in HAttr |-> IF a < 2 THEN a ELSE NoHash] IN
  /\ hashes = HIndex \intersect {0, 1} /\ usedIdx = HIndex \intersect {0, 1}
  /\ \E v \in HVal : fields = [h \in HIndex |-> [native |-> v, udf |-> {}]]
  /\ attrHash = first
  /\ npuFields = [a \in HAttr |-> IF first[a] = NoHash THEN NoFields ELSE fields[first[a]]]
  /\ hashRef = [h \in HIndex |-> Cardinality({a \in HAttr : first[a] = h})]
  /\ hashCall = [t \in HThread |-> NoHCall] /\ racedIdx = {} /\ unsureHash = {}
  /\ groups \in [UGroup -> {"generic", "hash", NoGroup}]
  /\ udfCount = [g \in UGroup |-> 0]
  /\ udfs = [u \in Udf |-> NoUdf]
  /\ npuMask = [u \in Udf |-> NoMask] /\ maskKept = {}

HashStep ==
  \/ \E t \in HThread : PickIndex(t) \/ InsertHash(t) \/ MarkIndex(t)
  \/ \E h \in HIndex : RemoveHash(h) \/ SetHash(h)
  \/ \E a \in HAttr, h \in HIndex \cup {NoHash} : SetSwitchHash(a, h)

UdfStep ==
  \/ \E g \in UGroup : RemoveUdfGroup(g) \/ \E k \in {"generic", "hash"} : CreateUdfGroup(g, k)
  \/ \E u \in Udf : \/ RemoveUdf(u) \/ \E g \in UGroup : CreateUdf(u, g)
                    \/ \E m \in UMask : SetUdfMask(u, m)

HashUdfNext == HashStep \/ UdfStep
HashUdfSpec == HashUdfInit /\ [][HashUdfNext]_huVars

---------------------------------------------------------------------------
HashUdfTypeOK ==
  /\ hashes \subseteq HIndex /\ usedIdx \subseteq HIndex /\ racedIdx \subseteq HIndex
  /\ fields \in [HIndex -> Fields]
  /\ hashRef \in [HIndex -> Nat]
  /\ hashCall \in [HThread -> HashCall \cup {NoHCall}]
  /\ attrHash \in [HAttr -> HIndex \cup {NoHash}]
  /\ npuFields \in [HAttr -> Fields]
  /\ unsureHash \subseteq HAttr
  /\ groups \in [UGroup -> {"generic", "hash", NoGroup}]
  /\ udfCount \in [UGroup -> Nat]
  /\ udfs \in [Udf -> UdfInfo \cup {NoUdf}]
  /\ npuMask \in [Udf -> UMask \cup {NoMask}]
  /\ maskKept \subseteq Udf

(* What keeps a hash object or a UDF group from its removal is counted     *)
(* right, and so the object of a switch attribute and the group of a field *)
(* exist; an index is free exactly when no object has it, except where     *)
(* calls met on it between the choice and the mark                         *)
(* (sai_hash_obj.c:369, 428, 466, 488, 1064, sai_udf.c:306, 489).          *)
HashUdfCounts ==
  /\ \A a \in HAttr : attrHash[a] # NoHash => attrHash[a] \in hashes
  /\ \A h \in hashes : hashRef[h] = Cardinality(Users(h))
  /\ \A i \in HIndex \ racedIdx :
       (\A t \in HThread : hashCall[t] = NoHCall \/ hashCall[t].idx # i)
         => (i \in usedIdx <=> i \in hashes)
  /\ \A u \in Udf : udfs[u] # NoUdf => groups[udfs[u].group] # NoGroup
  /\ \A g \in UGroup : groups[g] # NoGroup =>
       udfCount[g] = Cardinality({u \in Udf : udfs[u] # NoUdf /\ udfs[u].group = g})

(* The NPU hashes by the lists of the object a switch attribute names,     *)
(* also after a change it refused for another attribute, unless it then    *)
(* refused the old lists or there was no memory for the new ones; and the  *)
(* mask of a field is the one of the NPU unless that refused the last one  *)
(* (sai_hash_obj.c:537-589, 650-662, sai_udf.c:545-565).                   *)
HashUdfRuns ==
  /\ \A a \in HAttr \ unsureHash :
       npuFields[a] = IF attrHash[a] = NoHash THEN NoFields ELSE fields[attrHash[a]]
  /\ \A u \in Udf \ maskKept : udfs[u] # NoUdf => npuMask[u] = udfs[u].mask
============================================================================
