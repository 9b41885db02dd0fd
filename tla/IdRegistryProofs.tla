-------------------------- MODULE IdRegistryProofs --------------------------
(***************************************************************************)
(* The registry of group ids, for any ids and names: the two copies stay   *)
(* in step, and names stay unique until a group is renamed.                *)
(***************************************************************************)
EXTENDS IdRegistry, TLAPS

IsIds(ids) == ids = [x \in DOMAIN ids |-> ids[x]]

(* The invariant: what a function is, what ids.dat reads as when it does   *)
(* not parse, and RegistryInSync.                                          *)
RegistryInv ==
  /\ IsIds(mapIds) /\ IsIds(lst) /\ IsIds(idsFile.items)
  /\ RegistryInSync

(* Adding a name that no id has keeps names unique. *)
LEMMA WithKeepsInjective ==
  ASSUME NEW ids, NEW id, NEW name, Injective(ids), id \notin DOMAIN ids,
         \A x \in DOMAIN ids : ids[x] # name
  PROVE  Injective(With(ids, id, name))
  BY DEF Injective, With

(* Dropping ids keeps names unique. *)
LEMMA WithoutKeepsInjective ==
  ASSUME NEW ids, NEW S, Injective(ids)
  PROVE  Injective(Without(ids, S))
  BY DEF Injective, Without

LEMMA IdsAreFunctions ==
  /\ IsIds(NoIds)
  /\ \A ids, id, name : IsIds(With(ids, id, name))
  /\ \A ids, S : IsIds(Without(ids, S))
  <1>1. IsIds(NoIds)
    BY DEF IsIds, NoIds
  <1>2. ASSUME NEW ids, NEW id, NEW name
        PROVE  IsIds(With(ids, id, name))
    BY DEF IsIds, With
  <1>3. ASSUME NEW ids, NEW S
        PROVE  IsIds(Without(ids, S))
    BY DEF IsIds, Without
  <1> QED BY <1>1, <1>2, <1>3

LEMMA NoIdsInjective == Injective(NoIds)
  BY DEF Injective, NoIds

LEMMA RegistryInit == Init => RegistryInv
  BY IdsAreFunctions, NoIdsInjective
     DEF Init, RegistryInv, RegistryInSync, Stored

(* What is left of ids.dat is a function, and injective if both the old    *)
(* content and the new one are.                                            *)
LEMMA LeftIsIds ==
  ASSUME NEW file, NEW ids, NEW f \in Left(file, ids),
         IsIds(file.items), IsIds(ids)
  PROVE  /\ IsIds(f.items)
         /\ Injective(file.items) /\ Injective(ids) => Injective(f.items)
         /\ DOMAIN f.items \subseteq DOMAIN file.items \cup DOMAIN ids
  <1>1. CASE f = file
    BY <1>1
  <1>2. CASE f = Stored(ids)
    BY <1>2 DEF Stored
  <1>3. CASE f = Corrupt
    BY <1>3, IdsAreFunctions, NoIdsInjective DEF Corrupt, NoIds
  <1>4. CASE \E S \in SUBSET DOMAIN ids : f = Stored(Without(ids, S))
    <2>1. PICK S \in SUBSET DOMAIN ids : f = Stored(Without(ids, S))
      BY <1>4
    <2>2. f.items = Without(ids, S)
      BY <2>1 DEF Stored
    <2>3. DOMAIN f.items \subseteq DOMAIN ids
      BY <2>2 DEF Without
    <2> QED BY <2>2, <2>3, IdsAreFunctions, WithoutKeepsInjective
  <1> QED BY <1>1, <1>2, <1>3, <1>4 DEF Left

LEMMA RegistryStep == RegistryInv /\ [Next]_vars => RegistryInv'
  <1> SUFFICES ASSUME RegistryInv, [Next]_vars
               PROVE  RegistryInv'
    OBVIOUS
  <1> USE DEF RegistryInv, RegistryInSync
  <1>1. CASE Load
    BY <1>1 DEF Load
  <1>2. CASE LoadFails
    BY <1>2, IdsAreFunctions, NoIdsInjective DEF LoadFails, Forget
  <1>3. CASE GiveUp
    BY <1>3 DEF GiveUp
  <1>4. ASSUME NEW id \in Ids, NEW name \in Names, Register(id, name)
        PROVE  RegistryInv'
    <2>1. IsIds(mapIds)' /\ IsIds(lst)' /\ IsIds(idsFile.items)'
      BY <1>4, IdsAreFunctions DEF Register
    <2>2. (DOMAIN mapIds = DOMAIN lst)'
      BY <1>4 DEF Register, With
    <2>3. (~renamed => mapIds = lst /\ Injective(lst) /\ Injective(idsFile.items))'
      BY <1>4, WithKeepsInjective DEF Register
    <2> QED BY <2>1, <2>2, <2>3
  <1>5. ASSUME NEW S \in SUBSET Ids, Unregister(S)
        PROVE  RegistryInv'
    <2>1. IsIds(mapIds)' /\ IsIds(lst)' /\ IsIds(idsFile.items)'
      BY <1>5, IdsAreFunctions DEF Unregister
    <2>2. (DOMAIN mapIds = DOMAIN lst)'
      BY <1>5 DEF Unregister, Without
    <2>3. (~renamed => mapIds = lst /\ Injective(lst) /\ Injective(idsFile.items))'
      BY <1>5, WithoutKeepsInjective DEF Unregister
    <2> QED BY <2>1, <2>2, <2>3
  <1>6. CASE Rename
    <2>1. IsIds(lst)' /\ DOMAIN lst' = DOMAIN lst
      <3>1. CASE UNCHANGED lst
        BY <3>1
      <3>2. CASE \E id \in DOMAIN lst, name \in Names : lst' = With(lst, id, name)
        <4>1. PICK id \in DOMAIN lst, name \in Names : lst' = With(lst, id, name)
          BY <3>2
        <4>2. DOMAIN With(lst, id, name) = DOMAIN lst
          BY DEF With
        <4> QED BY <4>1, <4>2, IdsAreFunctions
      <3> QED BY <1>6, <3>1, <3>2 DEF Rename
    <2> QED BY <1>6, <2>1 DEF Rename
  <1>7. CASE Save
    BY <1>7, IdsAreFunctions, NoIdsInjective DEF Save, Forget, Stored
  <1>8. CASE Die
    <2>1. /\ IsIds(idsFile.items)'
          /\ Injective(idsFile.items) /\ Injective(lst) => Injective(idsFile.items)'
      BY <1>8, LeftIsIds DEF Die
    <2> QED BY <1>8, <2>1, IdsAreFunctions, NoIdsInjective DEF Die, Forget
  <1>9. CASE UNCHANGED vars
    BY <1>9 DEF vars, Injective
  <1> QED BY <1>1, <1>2, <1>3, <1>4, <1>5, <1>6, <1>7, <1>8, <1>9 DEF Next

(* Whatever sessions, failing deletions, renames, aborts and crashes there *)
(* are, m_mapIds and m_ptrIds name the same ids, and until the first       *)
(* rename the same name for each, no two ids one name: addGroup's check of *)
(* one copy is a check of what ids.dat will hold.                          *)
THEOREM RegistryStaysInSync == Spec => []RegistryInSync
  <1>1. RegistryInv => RegistryInSync
    BY DEF RegistryInv
  <1> QED BY <1>1, RegistryInit, RegistryStep, PTL DEF Spec

(* Over any number of sessions, an id only gets into ids.dat when the      *)
(* session that ends had it: uninit() writes nothing else, and neither     *)
(* does a process that dies while it writes.                               *)
THEOREM SavedIdsWereRegistered == Spec => SavedIdsRegistered
  <1>1. RegistryInv /\ [Next]_vars =>
          [\A id \in DOMAIN idsFile'.items :
             id \in DOMAIN idsFile.items \/ id \in DOMAIN mapIds]_vars
    <2> SUFFICES ASSUME RegistryInv, Next, NEW id \in DOMAIN idsFile'.items
                 PROVE  id \in DOMAIN idsFile.items \/ id \in DOMAIN mapIds
      OBVIOUS
    <2>1. CASE Save
      BY <2>1 DEF Save, Stored, RegistryInv, RegistryInSync
    <2>2. CASE Die
      BY <2>2, LeftIsIds DEF Die, RegistryInv, RegistryInSync
    <2>3. CASE idsFile' = idsFile
      BY <2>3
    <2> QED BY <2>1, <2>2, <2>3
        DEF Next, Load, LoadFails, GiveUp, Register, Unregister, Rename
  <1> QED BY <1>1, RegistryInit, RegistryStep, PTL DEF Spec, SavedIdsRegistered
=============================================================================
