----------------------------- MODULE IdRegistry -----------------------------
(***************************************************************************)
(* What QuestionBank promises of the ids of the groups, whatever happens   *)
(* to the tree, the directories and the question files: m_mapIds, which    *)
(* the operations check, m_ptrIds, which ids.dat is written from, and      *)
(* ids.dat, over failing operations, aborts, crashes and restarts.         *)
(***************************************************************************)
EXTENDS Naturals

CONSTANTS
  Ids,    \* group ids
  Names   \* group names

VARIABLES
  run,        \* "off", "on", or "failed"
  mapIds,     \* m_mapIds: id -> name
  lst,        \* m_ptrIds: id -> name
  idsFile,    \* ids.dat: [ok, items]
  renamed     \* a group was ever asked to change its name

vars == <<run, mapIds, lst, idsFile, renamed>>

NoIds == [id \in {} |-> "none"]
Stored(ids) == [ok |-> TRUE, items |-> ids]
Corrupt == [ok |-> FALSE, items |-> NoIds]

With(ids, id, name) ==
  [x \in DOMAIN ids \cup {id} |-> IF x = id THEN name ELSE ids[x]]
Without(ids, S) == [x \in DOMAIN ids \ S |-> ids[x]]

(* What a process leaves of ids.dat: the old file, the new one, or part of *)
(* the new one.                                                            *)
Left(file, ids) ==
  {file, Stored(ids), Corrupt} \cup {Stored(Without(ids, S)) : S \in SUBSET DOMAIN ids}

Init ==
  /\ run = "off"
  /\ mapIds = NoIds /\ lst = NoIds
  /\ idsFile = Stored(NoIds)
  /\ renamed = FALSE

Forget == mapIds' = NoIds /\ lst' = NoIds

Load ==
  /\ run = "off" /\ idsFile.ok
  /\ run' = "on"
  /\ mapIds' = idsFile.items /\ lst' = idsFile.items
  /\ UNCHANGED <<idsFile, renamed>>

LoadFails ==
  /\ run = "off"
  /\ run' = "failed"
  /\ Forget
  /\ UNCHANGED <<idsFile, renamed>>

GiveUp ==
  /\ run = "failed"
  /\ run' = "off"
  /\ UNCHANGED <<mapIds, lst, idsFile, renamed>>

(* A new group: its id and its name are new to m_mapIds. *)
Register(id, name) ==
  /\ run = "on"
  /\ id \notin DOMAIN mapIds
  /\ \A x \in DOMAIN mapIds : mapIds[x] # name
  /\ mapIds' = With(mapIds, id, name)
  /\ lst' = With(lst, id, name)
  /\ UNCHANGED <<run, idsFile, renamed>>

(* A deletion, also one that fails halfway. *)
Unregister(S) ==
  /\ run = "on"
  /\ mapIds' = Without(mapIds, S)
  /\ lst' = Without(lst, S)
  /\ UNCHANGED <<run, idsFile, renamed>>

(* m_mapIds keeps the old name. *)
Rename ==
  /\ run = "on"
  /\ renamed' = TRUE
  /\ \/ UNCHANGED lst
     \/ \E id \in DOMAIN lst, name \in Names : lst' = With(lst, id, name)
  /\ UNCHANGED <<run, mapIds, idsFile>>

Save ==
  /\ run = "on"
  /\ run' = "off"
  /\ idsFile' = Stored(lst)
  /\ Forget
  /\ UNCHANGED renamed

(* The process dies, in uninit() or anywhere else. *)
Die ==
  /\ run = "on"
  /\ run' = "off"
  /\ idsFile' \in Left(idsFile, lst)
  /\ Forget
  /\ UNCHANGED renamed

Next ==
  \/ Load
  \/ LoadFails
  \/ GiveUp
  \/ \E id \in Ids, name \in Names : Register(id, name)
  \/ \E S \in SUBSET Ids : Unregister(S)
  \/ Rename
  \/ Save
  \/ Die

Spec == Init /\ [][Next]_vars

-----------------------------------------------------------------------------
Injective(ids) == \A x, y \in DOMAIN ids : ids[x] = ids[y] => x = y

(* m_mapIds and m_ptrIds always hold the same ids; and until a group is    *)
(* renamed they agree on the names too, and no name is given to two ids,   *)
(* in memory or in ids.dat, which init() and addGroup() both rely on.      *)
RegistryInSync ==
  /\ DOMAIN mapIds = DOMAIN lst
  /\ ~renamed => mapIds = lst /\ Injective(lst) /\ Injective(idsFile.items)

(* An id is only ever added to ids.dat, over any number of sessions, when  *)
(* the running session had it in m_mapIds: nothing but uninit() writes the *)
(* file, and what a crash leaves of it has no id of its own.               *)
SavedIdsRegistered ==
  [][\A id \in DOMAIN idsFile'.items :
       id \in DOMAIN idsFile.items \/ id \in DOMAIN mapIds]_vars
=============================================================================
