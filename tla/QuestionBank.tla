---------------------------- MODULE QuestionBank ----------------------------
(***************************************************************************)
(* CQuestionBankImpl (src/src/notebook_impl.cpp): the question bank, a     *)
(* tree of groups kept as a tree of directories, the file ids.dat that     *)
(* gives each group name its id, and one <group id>.dat file of questions  *)
(* in a group's directory.                                                 *)
(*                                                                         *)
(* In memory a group is a CQuestionGroupParam: a name, an id, the path of  *)
(* its directory, the open question files and its subgroups.  The tree is  *)
(* a function here, from a group's position, the indices that lead to it   *)
(* from the root, to the rest of the record.                               *)
(*                                                                         *)
(* deleteGroup(), updateGroup() and uninit() change the disk more than     *)
(* once; each of these changes is a step, and the process may be killed    *)
(* before or in the middle of any of them.  Nothing else runs in between:  *)
(* the program has one thread.                                             *)
(*                                                                         *)
(* The lists inside CQuestionAnswerImpl objects are functions from id to   *)
(* value here: QuestionStoreProofs.StoreRefinesItemStore is the proof that *)
(* such an object is a set keyed by id.                                    *)
(***************************************************************************)
EXTENDS SequencesExt

CONSTANTS
  Ids,            \* group ids (uuids)
  NoId,           \* the empty id: the root, and groups ids.dat does not name
  NameOrder,      \* the group names, in the order a directory lists them
  BadNames,       \* those among them no directory can have
  RootName,       \* "QuestionBank"
  Qids,           \* question ids (uuids)
  Texts,          \* a question's text and answer
  CheckedIterators, \* the build aborts on an invalidated iterator (Debug)
  MaxRenames, MaxCrashes, MaxFaults \* bounds on what users and disks do

Names == ToSet(NameOrder)

ASSUME NamesAssumption ==
  NameOrder \in Seq(Names) /\ BadNames \subseteq Names /\ NoId \notin Ids
ASSUME BoundsAssumption ==
  {MaxRenames, MaxCrashes, MaxFaults} \subseteq Nat /\ CheckedIterators \in BOOLEAN

VARIABLES
  run,        \* "off", "on", "closing": in uninit(), or "failed": not loaded
  mapIds,     \* m_mapIds: id -> name
  lst,        \* m_ptrIds: id -> name, what ids.dat will hold
  tree,       \* m_clsQuestionBank: position -> [name, id, path, ctx]
  call,       \* the deleteGroup() or updateGroup() that is under way
  dirs,       \* the directories on disk
  files,      \* the question files on disk: <<directory, gid>> -> content
  idsFile,    \* ids.dat on disk
  refused,    \* the operation that returned false, or "none"
  budget      \* what is left of the bounds

memory == <<mapIds, lst, tree, call>>
disk == <<dirs, files, idsFile>>
vars == <<run, memory, disk, refused, budget>>

(* An item more, unless there is one of its key, and a replaced item. *)
With(f, x, y) ==
  [z \in DOMAIN f \cup {x} |-> IF z \in DOMAIN f THEN f[z] ELSE y]
Put(f, x, y) == [z \in DOMAIN f \cup {x} |-> IF z = x THEN y ELSE f[z]]
Without(f, S) == [x \in DOMAIN f \ S |-> f[x]]

(* A file's content; a missing file and an empty one both read as <<>>. *)
Stored(items) == [ok |-> TRUE, items |-> items]
Corrupt == [ok |-> FALSE, items |-> <<>>]

RootPath == <<RootName>>

-----------------------------------------------------------------------------
(* The tree of CQuestionGroupParam. *)

Group(name, id, path) == [name |-> name, id |-> id, path |-> path, ctx |-> <<>>]

NoTree == [p \in {<<>>} |-> Group(RootName, NoId, RootPath)]

(* The order in which the recursive functions visit positions, and in      *)
(* which a directory iterator does: a group, then what is below it.        *)
Before(p, q) ==
  \/ IsStrictPrefix(p, q)
  \/ \E i \in DOMAIN p \cap DOMAIN q :
       p[i] < q[i] /\ \A j \in 1..(i - 1) : p[j] = q[j]

(* The first position of S, as a set of one. *)
Firsts(S) == {p \in S : \A q \in S : ~Before(q, p)}

Subgroups(t, p) == {q \in DOMAIN t : q # <<>> /\ Front(q) = p}

(* emplace_back() on m_vecGroups of the group at p. *)
WithSubgroup(t, p, grp) ==
  With(t, Append(p, Cardinality(Subgroups(t, p)) + 1), grp)

(* erase() of the group at q: its later siblings move up. *)
WithoutGroup(t, q) ==
  LET i == Len(q)
      kept == {r \in DOMAIN t : ~IsPrefix(q, r)}
      Moved(r) == IF Len(r) >= i /\ SubSeq(r, 1, i - 1) = Front(q) /\ r[i] > q[i]
                  THEN [r EXCEPT ![i] = @ - 1]
                  ELSE r
  IN [s \in {Moved(r) : r \in kept} |-> t[CHOOSE r \in kept : Moved(r) = s]]

-----------------------------------------------------------------------------
(* Question files. *)

Content(fs, f) == IF f \in DOMAIN fs THEN fs[f].items ELSE <<>>

OpenCtx(fs, f) == [file |-> f, items |-> Content(fs, f)]

(* Mutant: an emptied list leaves the old file in place. *)
CloseCtxKeepsOld(ds, fs, c) ==
  IF c.items = <<>> \/ c.file[1] \notin ds THEN fs
  ELSE Put(fs, c.file, Stored(c.items))

(* CQuestionAnswerImpl::close(): no item, no file.  When the directory is  *)
(* not there the stream does not open and nothing is said.                 *)
CloseCtx(ds, fs, c) ==
  IF c.items = <<>> THEN Without(fs, {c.file})
  ELSE IF c.file[1] \in ds THEN Put(fs, c.file, Stored(c.items))
  ELSE fs

OpenCtxs(t) == UNION {ToSet(t[p].ctx) : p \in DOMAIN t}

(* What may be left of a file whose writer dies between truncating it and  *)
(* the last byte: some of the items, or bytes that do not parse.           *)
Torn(items) ==
  {Corrupt} \cup {Stored(Without(items, S)) : S \in SUBSET DOMAIN items}

-----------------------------------------------------------------------------
(* init(): the tree is rebuilt from the directories. *)

(* What recursive_directory_iterator yields: the files but ids.dat, and    *)
(* the directories, each with the directory it is in.                      *)
Entries(ds, fs) ==
  {[dir |-> f[1], file |-> f] : f \in DOMAIN fs} \cup
  {[dir |-> Front(d), sub |-> d] : d \in ds \ {RootPath}}

IsFile(e) == "file" \in DOMAIN e

(* A directory's names below the bank's, as numbers.                       *)
Rank(d) ==
  [i \in 1..(Len(d) - 1) |-> CHOOSE k \in DOMAIN NameOrder : NameOrder[k] = d[i + 1]]

(* The iterator's order: an entry, then what is below it.  Whether a       *)
(* directory lists its files before or after its subdirectories depends on *)
(* their names.                                                            *)
Key(e, filesFirst) ==
  IF IsFile(e)
  THEN Append(Rank(e.dir), IF filesFirst THEN 0 ELSE Len(NameOrder) + 1)
  ELSE Rank(e.sub)

NextEntry(entries, filesFirst) ==
  CHOOSE e \in entries :
    \A f \in entries : ~Before(Key(f, filesFirst), Key(e, filesFirst))

(* initQuestionBank(): the entry goes to the first group that has the NAME *)
(* of its parent directory, the root before any other.                     *)
Holders(t, e) == Firsts({p \in DOMAIN t : t[p].name = Last(e.dir)})

IdOf(name, pick) == IF name \in DOMAIN pick THEN pick[name] ELSE NoId

Place(fs, pick, t, e) ==
  LET p == CHOOSE q \in Holders(t, e) : TRUE
  IN IF IsFile(e)
     THEN [t EXCEPT ![p].ctx = Append(@, OpenCtx(fs, e.file))]
     ELSE WithSubgroup(t, p, Group(Last(e.sub), IdOf(Last(e.sub), pick), e.sub))

PlaceNext(fs, pick, filesFirst, s) ==
  LET e == NextEntry(s.left, filesFirst)
  IN [tree |-> Place(fs, pick, s.tree, e), left |-> s.left \ {e}]

Load(ds, fs, pick, filesFirst) ==
  LET all == Entries(ds, fs)
      after[k \in 0..Cardinality(all)] ==
        IF k = 0 THEN [tree |-> NoTree, left |-> all]
        ELSE PlaceNext(fs, pick, filesFirst, after[k - 1])
  IN after[Cardinality(all)].tree

(* The loop over m_mapIds takes any id of a name that has several. *)
Picks(ids) ==
  {pick \in [Range(ids) -> DOMAIN ids] :
     \A n \in DOMAIN pick : ids[pick[n]] = n}

-----------------------------------------------------------------------------
(* A call: its arguments, whether the disk may fail it, the groups that    *)
(* ctrlGroup() has still to try, and the deleteGroup() calls inside each   *)
(* other, each with the group it deletes and the turn of its loop.         *)
NoCall ==
  [op |-> "none", id |-> NoId, name |-> RootName, mayFail |-> FALSE,
   todo |-> {}, frames |-> <<>>]

Idle == run = "on" /\ call = NoCall

(* Starting and ending a session. *)

Forget == mapIds' = <<>> /\ lst' = <<>> /\ tree' = NoTree /\ call' = NoCall

Ended == run' = "off" /\ refused' = "none" /\ Forget

Spend(what) ==
  /\ budget[what] > 0
  /\ budget' = [budget EXCEPT ![what] = @ - 1]

Init ==
  /\ run = "off"
  /\ mapIds = <<>> /\ lst = <<>> /\ tree = NoTree /\ call = NoCall
  /\ dirs = {} /\ files = <<>> /\ idsFile = Stored(<<>>)
  /\ refused = "none"
  /\ budget = [renames |-> MaxRenames, crashes |-> MaxCrashes, faults |-> MaxFaults]

(* Mutants: a file that does not parse is taken for an empty one. *)
ReadableFiles == \A f \in DOMAIN files : files[f].ok
ReadableIds == idsFile.ok

(* open() of ids.dat and of every question file. *)
Readable == idsFile.ok /\ \A f \in DOMAIN files : files[f].ok

(* init(), called by the window's constructor.  A file that does not parse *)
(* makes it fail, and the window goes on without a bank.                   *)
Start ==
  /\ run = "off"
  /\ dirs' = dirs \cup {RootPath}
  /\ IF Readable
     THEN /\ run' = "on"
          /\ mapIds' = idsFile.items /\ lst' = idsFile.items
          /\ \E pick \in Picks(idsFile.items), filesFirst \in BOOLEAN :
               tree' = Load(dirs', files, pick, filesFirst)
          /\ UNCHANGED call
     ELSE run' = "failed" /\ Forget
  /\ refused' = "none"
  /\ UNCHANGED <<files, idsFile, budget>>

(* Mutant: ids.dat is not written. *)
QuitSavesNoIds ==
  /\ Idle
  /\ run' = "closing"
  /\ mapIds' = <<>> /\ lst' = <<>>
  /\ UNCHANGED <<tree, call, disk, refused, budget>>

(* uninit() writes ids.dat; neither copy of the ids is used afterwards.    *)
(* Then it closes the question files.                                      *)
Quit ==
  /\ Idle
  /\ run' = "closing"
  /\ idsFile' = Stored(lst)
  /\ mapIds' = <<>> /\ lst' = <<>>
  /\ UNCHANGED <<tree, call, dirs, files, refused, budget>>

Closed ==
  /\ run = "closing" /\ OpenCtxs(tree) = {}
  /\ Ended
  /\ UNCHANGED <<disk, budget>>

(* The window without a bank is closed; its destructor has nothing to do. *)
QuitFailed ==
  /\ run = "failed"
  /\ run' = "off"
  /\ UNCHANGED <<memory, disk, refused, budget>>

(* The group whose open files are closed next: in uninit(), and in         *)
(* deleteGroup() before it turns to the subgroups.                         *)
Closing(p) ==
  /\ tree[p].ctx # <<>>
  /\ \/ run = "closing" /\ p \in Firsts({q \in DOMAIN tree : tree[q].ctx # <<>>})
     \/ run = "on" /\ call.frames # <<>> /\ p = Last(call.frames).at

CloseFile ==
  /\ \E p \in DOMAIN tree :
       /\ Closing(p)
       /\ files' = CloseCtx(dirs, files, Head(tree[p].ctx))
       /\ tree' = [tree EXCEPT ![p].ctx = Tail(@)]
  /\ UNCHANGED <<run, mapIds, lst, call, dirs, idsFile, refused, budget>>

(* The process is killed. *)
Crash ==
  /\ run \in {"on", "closing"}
  /\ Ended /\ Spend("crashes")
  /\ UNCHANGED disk

(* The process is killed while uninit() writes ids.dat. *)
CrashInSave ==
  /\ Idle /\ lst # <<>>
  /\ idsFile' \in Torn(lst)
  /\ Ended /\ Spend("crashes")
  /\ UNCHANGED <<dirs, files>>

(* The process is killed while it writes a question file. *)
CrashInClose ==
  /\ \E p \in DOMAIN tree :
       LET c == Head(tree[p].ctx)
       IN /\ Closing(p) /\ c.items # <<>> /\ c.file[1] \in dirs
          /\ \E content \in Torn(c.items) : files' = Put(files, c.file, content)
  /\ Ended /\ Spend("crashes")
  /\ UNCHANGED <<dirs, idsFile>>

-----------------------------------------------------------------------------
(* The group operations. *)

(* The groups ctrlGroup() tries for pid, in this order until one does not  *)
(* return false: the root when pid is empty, else every group with that    *)
(* id, but none below another one.                                         *)
Tried(pid) ==
  LET Match(p) == pid = NoId \/ tree[p].id = pid
  IN {p \in DOMAIN tree :
        Match(p) /\ \A q \in DOMAIN tree : IsStrictPrefix(q, p) => ~Match(q)}

(* The first subgroup of the group at p that has the id, as a set of one,  *)
(* or none.                                                                *)
Found(p, id) ==
  Firsts({q \in Subgroups(tree, p) : tree[q].id = id})

(* true is returned, or false by op. *)
ReturnTrue == call' = NoCall /\ refused' = "none"
ReturnFalse == call' = NoCall /\ refused' = call.op

(* Mutant: a repeated name is looked for in m_ptrIds. *)
RepeatedInList(id, name) == id \in DOMAIN lst \/ name \in Range(lst)

Repeated(id, name) == id \in DOMAIN mapIds \/ name \in Range(mapIds)

(* Mutants: the id is put into only one of m_mapIds and m_ptrIds. *)
RegisterUnlisted(id, name) == mapIds' = With(mapIds, id, name) /\ UNCHANGED lst
RegisterUnmapped(id, name) == lst' = With(lst, id, name) /\ UNCHANGED mapIds

Register(id, name) ==
  mapIds' = With(mapIds, id, name) /\ lst' = With(lst, id, name)

Unregister(id) ==
  mapIds' = Without(mapIds, {id}) /\ lst' = Without(lst, {id})

(* exists(), or create_directory(), which throws where nothing catches it. *)
CanCreate(path) ==
  path \in dirs \/ (Last(path) \notin BadNames /\ Front(path) \in dirs)

AddGroupTo(p, name, id) ==
  LET path == Append(tree[p].path, name)
  IN \/ /\ CanCreate(path)
        /\ Register(id, name)
        /\ tree' = WithSubgroup(tree, p, Group(name, id, path))
        /\ dirs' = dirs \cup {path}
        /\ ReturnTrue /\ UNCHANGED run
     \/ /\ ~CanCreate(path)
        /\ Ended /\ UNCHANGED dirs

(* The window asks for a subgroup of the group pid. *)
AddGroup(pid, name, id) ==
  /\ Idle
  /\ IF Repeated(id, name) \/ Tried(pid) = {}
     THEN refused' = "addGroup" /\ UNCHANGED <<run, memory, dirs>>
     ELSE \E p \in Firsts(Tried(pid)) : AddGroupTo(p, name, id)
  /\ UNCHANGED <<files, idsFile, budget>>

(* The window calls deleteGroup(), during which another program may hold a *)
(* directory open.                                                         *)
DeleteGroup(pid, id, mayFail) ==
  /\ Idle
  /\ call' = [NoCall EXCEPT !.op = "deleteGroup", !.id = id,
                            !.mayFail = mayFail, !.todo = Tried(pid)]
  /\ IF mayFail THEN Spend("faults") ELSE UNCHANGED budget
  /\ UNCHANGED <<run, mapIds, lst, tree, disk, refused>>

(* The private deleteGroup() for a subgroup of the group at p, up to where *)
(* it has found that one: a frame remembers it, and the subgroups it has   *)
(* now, over which the loop will run.                                      *)
DeleteFrom(p, id, todo, frames) ==
  LET Frame(q) == [at |-> q, turn |-> 1, turns |-> Cardinality(Subgroups(tree, q))]
  IN /\ Unregister(id)
     /\ \/ /\ Found(p, id) = {}
           /\ call' = [call EXCEPT !.todo = todo, !.frames = frames]
        \/ \E q \in Found(p, id) :
             call' = [call EXCEPT !.todo = todo, !.frames = Append(frames, Frame(q))]
     /\ UNCHANGED <<run, tree, disk, refused, budget>>

DeleteTry ==
  /\ call.op = "deleteGroup" /\ call.frames = <<>>
  /\ \E p \in Firsts(call.todo) : DeleteFrom(p, call.id, call.todo \ {p}, <<>>)

(* The innermost deleteGroup() has closed the group's files. *)
top == Last(call.frames)
InLoop == call.frames # <<>> /\ tree[top.at].ctx = <<>>

(* A turn of the loop over the subgroups, which erases from the vector it  *)
(* runs over: it reads the slot of its number in what is left, and a slot  *)
(* past the end reads as an empty id.                                      *)
DeleteTurn ==
  LET slot == Append(top.at, top.turn)
      id == IF slot \in DOMAIN tree THEN tree[slot].id ELSE NoId
  IN /\ InLoop /\ top.turn <= top.turns
     /\ DeleteFrom(top.at, id, call.todo,
                   Append(Front(call.frames), [top EXCEPT !.turn = @ + 1]))

Removing == InLoop /\ top.turn > top.turns

(* Mutant: remove() of the directory alone. *)
RemoveAllShallow(path) == dirs' = dirs \ {path} /\ UNCHANGED files

(* std::filesystem::remove_all() *)
RemoveAll(path) ==
  /\ dirs' = {d \in dirs : ~IsPrefix(path, d)}
  /\ files' = Without(files, {f \in DOMAIN files : IsPrefix(path, f[1])})

(* It stops at a directory another program holds open, or when the process *)
(* is killed, with the rest already removed or not yet.                    *)
RemovePart(path) ==
  \E stop \in {d \in dirs : IsPrefix(path, d)} :
    \/ UNCHANGED <<dirs, files>>
    \/ /\ dirs' = {d \in dirs : IsPrefix(path, d) => IsPrefix(d, stop)}
       /\ files' = Without(files, {f \in DOMAIN files : IsPrefix(path, f[1])})

(* The group is removed.  The caller is the public operation, or a turn of *)
(* the loop around it, whose iterator checked builds then find invalid.    *)
DeleteEnds ==
  /\ Removing
  /\ RemoveAll(tree[top.at].path)
  /\ \/ /\ Len(call.frames) = 1
        /\ tree' = WithoutGroup(tree, top.at)
        /\ ReturnTrue /\ UNCHANGED <<run, mapIds, lst>>
     \/ /\ Len(call.frames) > 1 /\ ~CheckedIterators
        /\ tree' = WithoutGroup(tree, top.at)
        /\ call' = [call EXCEPT !.frames = Front(@)]
        /\ UNCHANGED <<run, mapIds, lst, refused>>
     \/ Len(call.frames) > 1 /\ CheckedIterators /\ Ended
  /\ UNCHANGED <<idsFile, budget>>

(* remove_all() throws, and false is returned. *)
DeleteFails ==
  /\ Removing /\ call.mayFail
  /\ RemovePart(tree[top.at].path)
  /\ call' = [call EXCEPT !.frames = Front(@)]
  /\ UNCHANGED <<run, mapIds, lst, tree, idsFile, refused, budget>>

CrashInRemove ==
  /\ Removing
  /\ RemovePart(tree[top.at].path)
  /\ Ended /\ Spend("crashes")
  /\ UNCHANGED idsFile

UpdateGroup(pid, id, name, mayFail) ==
  /\ Idle /\ budget.renames > 0
  /\ mayFail => budget.faults > 0
  /\ call' = [NoCall EXCEPT !.op = "updateGroup", !.id = id, !.name = name,
                            !.mayFail = mayFail, !.todo = Tried(pid)]
  /\ budget' = [budget EXCEPT !.renames = @ - 1,
                              !.faults = IF mayFail THEN @ - 1 ELSE @]
  /\ UNCHANGED <<run, mapIds, lst, tree, disk, refused>>

(* std::filesystem::rename() of a directory: the new name must be free. *)
CanRename(src, dst) ==
  /\ src \in dirs
  /\ src = dst \/ (dst \notin dirs /\ ~IsPrefix(src, dst))
  /\ Front(dst) \in dirs
  /\ Last(dst) \notin BadNames

Move(path, src, dst) ==
  IF IsPrefix(src, path) THEN dst \o SubSeq(path, Len(src) + 1, Len(path))
  ELSE path

Rename(src, dst) ==
  LET moved == {<<Move(f[1], src, dst), f[2]>> : f \in DOMAIN files}
      Origin(f) == CHOOSE g \in DOMAIN files : f = <<Move(g[1], src, dst), g[2]>>
  IN /\ dirs' = {Move(d, src, dst) : d \in dirs}
     /\ files' = [f \in moved |-> files[Origin(f)]]

(* The private updateGroup() for a subgroup of the group at p.  m_mapIds   *)
(* and the paths held in memory keep the old name.                         *)
UpdateTry ==
  /\ call.op = "updateGroup"
  /\ \E p \in Firsts(call.todo) :
       LET goOn == /\ call' = [call EXCEPT !.todo = @ \ {p}]
                   /\ UNCHANGED <<dirs, files, refused>>
       IN \/ Found(p, call.id) = {} /\ goOn /\ UNCHANGED <<lst, tree>>
          \/ \E q \in Found(p, call.id) :
               LET src == tree[q].path
                   dst == Append(tree[p].path, call.name)
               IN /\ lst' = [x \in DOMAIN lst |->
                               IF x = call.id THEN call.name ELSE lst[x]]
                  /\ tree' = [tree EXCEPT ![q].name = call.name]
                  /\ \/ CanRename(src, dst) /\ Rename(src, dst) /\ ReturnTrue
                     \/ (~CanRename(src, dst) \/ call.mayFail) /\ goOn
  /\ UNCHANGED <<run, mapIds, idsFile, budget>>

(* No group is left to be tried. *)
CallFails ==
  /\ call # NoCall /\ call.todo = {} /\ call.frames = <<>>
  /\ ReturnFalse
  /\ UNCHANGED <<run, mapIds, lst, tree, disk, budget>>

-----------------------------------------------------------------------------
(* The question operations. *)

(* findQustionAnswerContext(): the groups with the id gid, the first of    *)
(* which is meant, and the files of a group, opened when none is yet.      *)
Owners(gid) == {p \in DOMAIN tree : tree[p].id = gid}
OpenedCtx(n) == IF n.ctx = <<>> THEN <<OpenCtx(files, <<n.path, n.id>>)>> ELSE n.ctx

(* An operation on the questions of the group gid: Do(items) is            *)
(* [ok, items], on the items of its first file.                            *)
OnQuestions(op, gid, Do(_)) ==
  /\ Idle
  /\ \/ /\ gid \notin DOMAIN mapIds \/ Owners(gid) = {}
        /\ refused' = op /\ UNCHANGED tree
     \/ /\ gid \in DOMAIN mapIds
        /\ \E p \in Firsts(Owners(gid)) :
             LET ctx == OpenedCtx(tree[p])
                 res == Do(ctx[1].items)
             IN /\ tree' = [tree EXCEPT ![p].ctx = [ctx EXCEPT ![1].items = res.items]]
                /\ refused' = IF res.ok THEN "none" ELSE op
  /\ UNCHANGED <<run, mapIds, lst, call, disk, budget>>

AddQuestion(gid, q, t) ==
  LET Do(items) == [ok |-> q \notin DOMAIN items, items |-> With(items, q, t)]
  IN OnQuestions("addQuestion", gid, Do)

DeleteQuestion(gid, q) ==
  LET Do(items) == [ok |-> q \in DOMAIN items, items |-> Without(items, {q})]
  IN OnQuestions("deleteQuestion", gid, Do)

UpdateQuestion(gid, q, t) ==
  LET Do(items) == [ok |-> q \in DOMAIN items,
                    items |-> [x \in DOMAIN items |-> IF x = q THEN t ELSE items[x]]]
  IN OnQuestions("updateQuestion", gid, Do)

QueryQuestion(gid, q) ==
  LET Do(items) == [ok |-> q \in DOMAIN items, items |-> items]
  IN OnQuestions("queryQuestion", gid, Do)

-----------------------------------------------------------------------------
(* What the window passes of the group at p: its id, that of its parent    *)
(* (the root has neither) and those of the questions it has.               *)
IdAt(p) == tree[p].id
ParentId(p) == IF p = <<>> THEN NoId ELSE IdAt(Front(p))
ShownQids(p) == UNION {DOMAIN c.items : c \in ToSet(tree[p].ctx)}

(* Ids that left no trace: what a new uuid is. *)
FreshIds ==
  Ids \ UNION {DOMAIN mapIds, DOMAIN lst, DOMAIN idsFile.items,
               {IdAt(p) : p \in DOMAIN tree}, {f[2] : f \in DOMAIN files}}

FreshQids ==
  Qids \ UNION ({DOMAIN c.items : c \in OpenCtxs(tree)} \cup
                {DOMAIN files[f].items : f \in DOMAIN files})

(* The steps of a call and of uninit(), which nobody chooses. *)
GoOn ==
  \/ CloseFile
  \/ Closed
  \/ DeleteTry
  \/ DeleteTurn
  \/ DeleteEnds
  \/ DeleteFails
  \/ UpdateTry
  \/ CallFails

Killed == Crash \/ CrashInSave \/ CrashInClose \/ CrashInRemove

Next ==
  \/ Start
  \/ Quit
  \/ QuitFailed
  \/ GoOn
  \/ Killed
  \/ \E id \in FreshIds, n \in Names, p \in DOMAIN tree : AddGroup(IdAt(p), n, id)
  \/ \E p \in DOMAIN tree \ {<<>>}, mayFail \in BOOLEAN :
       DeleteGroup(ParentId(p), IdAt(p), mayFail)
  \/ \E p \in DOMAIN tree, n \in Names, mayFail \in BOOLEAN :
       UpdateGroup(ParentId(p), IdAt(p), n, mayFail)
  \/ \E q \in FreshQids, t \in Texts, p \in DOMAIN tree :
       AddQuestion(IdAt(p), q, t)
  \/ \E p \in DOMAIN tree : \E q \in ShownQids(p) : DeleteQuestion(IdAt(p), q)
  \/ \E p \in DOMAIN tree : \E q \in ShownQids(p), t \in Texts :
       UpdateQuestion(IdAt(p), q, t)
  \/ \E p \in DOMAIN tree, q \in Qids : QueryQuestion(IdAt(p), q)

Spec == Init /\ [][Next]_vars

-----------------------------------------------------------------------------
(* The shape of the bank, of the call under way and of the disk: what is   *)
(* being deleted is in the tree, a directory's parent exists and a         *)
(* question file lies in a directory that exists.                          *)
TypeOK ==
  /\ run \in {"off", "on", "closing", "failed"}
  /\ \A f \in {mapIds, lst, idsFile.items} :
       DOMAIN f \subseteq Ids /\ Range(f) \subseteq Names
  /\ \A p \in DOMAIN tree : tree[p].id \in Ids \cup {NoId}
  /\ \A i \in DOMAIN call.frames : call.frames[i].at \in DOMAIN tree \ {<<>>}
  /\ \A d \in dirs : d = RootPath \/ Front(d) \in dirs
  /\ \A f \in DOMAIN files : f[1] \in dirs /\ f[2] \in Ids
  /\ run # "on" => lst = <<>> /\ mapIds = <<>> /\ call = NoCall
  /\ run \in {"off", "failed"} => tree = NoTree

Registry == INSTANCE IdRegistry WITH
  run <- IF run = "closing" THEN "off" ELSE run,
  renamed <- budget.renames < MaxRenames

(* The bank implements the registry of ids, with every operation, fault,   *)
(* abort and crash: nothing but a new group adds an id, a name is only     *)
(* given to one id, and ids.dat only changes at the end of a session.      *)
ImplementsRegistry == Registry!Spec

(* The ids in m_mapIds, which the checks read, and in m_ptrIds, which      *)
(* ids.dat is written from, are the same through renames, failed           *)
(* deletions, aborts and crashes; until the first rename they have the     *)
(* same names, no two groups one.                                          *)
IdsInSync == Registry!RegistryInSync

(* Is the group at p one that deleteGroup() is deleting?                   *)
BeingDeleted(p) == \E i \in DOMAIN call.frames : call.frames[i].at = p

(* A group the window shows under an id is registered under that id and    *)
(* its own name, so that addQuestion finds it and addGroup refuses a       *)
(* second group of the name.  Only the groups deleteGroup() is about to    *)
(* remove are not.                                                         *)
GroupsRegistered ==
  run = "on" =>
    \A p \in DOMAIN tree :
      IdAt(p) # NoId /\ ~BeingDeleted(p)
        => IdAt(p) \in DOMAIN mapIds /\ mapIds[IdAt(p)] = tree[p].name

(* ids.dat names the group of every question file on disk. *)
FilesKnown ==
  \A f \in DOMAIN files :
    f[2] \in DOMAIN idsFile.items /\ idsFile.items[f[2]] = Last(f[1])

(* ids.dat names the group of every question file after any number of      *)
(* orderly sessions, and still does when the process is then killed at any *)
(* point but while it writes ids.dat or deletes a group: uninit() writes   *)
(* ids.dat before the question files.  So the groups whose questions were  *)
(* saved get their ids back.                                               *)
FilesKnownThroughCrash ==
  [][(/\ budget.crashes = MaxCrashes
      /\ idsFile' \in {idsFile, Stored(lst)}
      /\ call'.frames = <<>>
      /\ call.frames = <<>> \/ run' = "on")
       => FilesKnown']_vars

(* A file that a crash left unreadable keeps the bank from being loaded,   *)
(* and with it from saving anything over what is left: the failed start,   *)
(* the window without a bank and its destructor leave the whole disk as it *)
(* is, however often the program is started, until the file is repaired.   *)
UnreadableStays ==
  [][~idsFile.ok \/ (\E f \in DOMAIN files : ~files[f].ok)
       => run' \in {"off", "failed"} /\ UNCHANGED disk]_vars

(* A question file with something to save has a directory to be saved in,  *)
(* so that uninit() does not silently drop the session's questions.        *)
OpenFilesSavable ==
  \A c \in OpenCtxs(tree) : c.items # <<>> => c.file[1] \in dirs

(* Every registered id belongs to a group: deleteGroup() gives back the    *)
(* ids, and so the names, of all groups it removes.                        *)
NoIdLeaks ==
  \A id \in DOMAIN mapIds : \E p \in DOMAIN tree : IdAt(p) = id

(* No two groups of the tree have one id, so that an operation on an id    *)
(* reaches the group it is meant for.                                      *)
GroupIdsUnique ==
  \A p, q \in DOMAIN tree : IdAt(p) = IdAt(q) /\ IdAt(p) # NoId => p = q

(* No two groups of the tree have one name, which init() relies on. *)
GroupNamesUnique ==
  \A p, q \in DOMAIN tree : tree[p].name = tree[q].name => p = q

(* The questions of a group's open files; of two with one id that of the   *)
(* first file.                                                             *)
QuestionsIn(ctx) ==
  [q \in UNION {DOMAIN c.items : c \in ToSet(ctx)} |->
     LET i == CHOOSE k \in DOMAIN ctx :
                /\ q \in DOMAIN ctx[k].items
                /\ \A j \in 1..(k - 1) : q \notin DOMAIN ctx[j].items
     IN ctx[i].items[q]]

ItemsAt(t, p) == QuestionsIn(t[p].ctx)

(* What the window shows of a tree. *)
Shown(t) ==
  {[names |-> [k \in DOMAIN p |-> t[SubSeq(p, 1, k)].name],
    id |-> t[p].id,
    questions |-> ItemsAt(t, p)] : p \in DOMAIN t}

(* Closing the program now and starting it again shows what is shown now:  *)
(* uninit() saves everything init() needs to rebuild the tree.             *)
RoundTrip ==
  Idle =>
    LET saved == FoldSet(LAMBDA c, fs : CloseCtx(dirs, fs, c), files, OpenCtxs(tree))
    IN \A pick \in Picks(lst), filesFirst \in BOOLEAN :
         Shown(Load(dirs, saved, pick, filesFirst)) = Shown(tree)
=============================================================================
