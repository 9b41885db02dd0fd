----------------------------- MODULE ItemStore -----------------------------
(***************************************************************************)
(* What a CQuestionAnswerImpl object promises to the question bank: a set  *)
(* of items, never two with the same id, that is loaded from one file by   *)
(* open() and written back to it by close().  Nothing is written between   *)
(* the two, so a process that dies loses the edits of the session; one     *)
(* that dies inside close() may leave part of the set, or a file that no   *)
(* longer parses.  QuestionStore.tla is shown to implement this.           *)
(***************************************************************************)

CONSTANTS
  Ids,        \* item ids (uuids)
  GroupItem,  \* the items of a group list (ids.dat)
  QuestionItem \* the items of a question list (<group id>.dat)

VARIABLES
  flag,       \* TRUE: the file holds questions; FALSE: it holds groups
  opened,     \* an object is open on the file
  items,      \* its items
  file,       \* the file: [state, items]
  ret         \* the last reply: [of, ok, out]

vars == <<flag, opened, items, file, ret>>

Item == IF flag THEN QuestionItem ELSE GroupItem

(* What was asked for, by id, and the answer. *)
Reply(of, ok, out) == ret' = [of |-> of, ok |-> ok, out |-> out]

WithId(i) == {x \in items : x.id = i}

Absent == [state |-> "absent", items |-> {}]
Corrupt == [state |-> "corrupt", items |-> {}]
Stored(S) == [state |-> "stored", items |-> S]

Init ==
  /\ flag \in BOOLEAN
  /\ opened = FALSE
  /\ items = {}
  /\ file = Absent
  /\ ret = [of |-> {}, ok |-> TRUE, out |-> {}]

(* A file that does not parse leaves the object unopened. *)
Open ==
  /\ ~opened
  /\ opened' = (file.state # "corrupt")
  /\ items' = file.items
  /\ Reply({}, file.state # "corrupt", {})
  /\ UNCHANGED <<flag, file>>

(* Every operation is refused when no object is open. *)
Add(x) ==
  LET ok == opened /\ WithId(x.id) = {}
  IN /\ items' = IF ok THEN items \cup {x} ELSE items
     /\ Reply({x.id}, ok, {})
     /\ UNCHANGED <<flag, opened, file>>

Delete(i) ==
  LET ok == opened /\ WithId(i) # {}
  IN /\ items' = IF ok THEN items \ WithId(i) ELSE items
     /\ Reply({i}, ok, {})
     /\ UNCHANGED <<flag, opened, file>>

Update(i, x) ==
  LET ok == opened /\ i = x.id /\ WithId(i) # {}
  IN /\ items' = IF ok THEN (items \ WithId(i)) \cup {x} ELSE items
     /\ Reply({i}, ok, {})
     /\ UNCHANGED <<flag, opened, file>>

Query(i) ==
  /\ Reply({i}, opened /\ WithId(i) # {}, IF opened THEN WithId(i) ELSE {})
  /\ UNCHANGED <<flag, opened, items, file>>

GetAll ==
  /\ Reply({}, opened, IF opened THEN items ELSE {})
  /\ UNCHANGED <<flag, opened, items, file>>

Gone ==
  /\ opened' = FALSE
  /\ items' = {}
  /\ UNCHANGED flag

Close ==
  /\ opened
  /\ file' = IF items = {} THEN Absent ELSE Stored(items)
  /\ Gone
  /\ UNCHANGED ret

Crash ==
  /\ opened
  /\ Gone
  /\ UNCHANGED <<file, ret>>

CrashInClose ==
  /\ opened
  /\ items # {}
  /\ \/ \E S \in SUBSET items : file' = Stored(S)
     \/ file' = Corrupt
  /\ Gone
  /\ UNCHANGED ret

Next ==
  \/ Open
  \/ \E x \in Item : Add(x)
  \/ \E i \in Ids : Delete(i)
  \/ \E i \in Ids, x \in Item : Update(i, x)
  \/ \E i \in Ids : Query(i)
  \/ GetAll
  \/ Close
  \/ Crash
  \/ CrashInClose

Spec == Init /\ [][Next]_vars
=============================================================================
