------------------------ MODULE BankRefinementProofs ------------------------
(***************************************************************************)
(* Theorems about BankRefinement, for any set of ids, names, questions and *)
(* texts, any order of the names and any bounds: until the first rename,   *)
(* kill or deletion that may fail, QuestionBank implements Bank.           *)
(*                                                                         *)
(* ContentInv is the inductive invariant, with BankTyped and CleanInv of   *)
(* QuestionBankProofs.  It says where the content, what the window was     *)
(* told last, is found while the program does not wait for the user:       *)
(* outside the group that is being deleted; in the question files already  *)
(* closed and in the memory of the others in uninit(); and between the     *)
(* sessions in what init() would load from the disk, in whatever order     *)
(* the directories are listed.                                             *)
(***************************************************************************)
EXTENDS BankRefinement, QuestionBankProofs

-----------------------------------------------------------------------------
(* What content is of a tree. *)

(* The ids of the groups, the root aside. *)
GroupIds(t) == {t[p].id : p \in DOMAIN t \ {<<>>}}

(* A record of two functions on the ids. *)
IsContent(c, ids) ==
  /\ c = [groups |-> c.groups, questions |-> c.questions]
  /\ c.groups = [g \in ids |-> c.groups[g]]
  /\ c.questions = [g \in ids |-> c.questions[g]]

(* In it the group at p is found under its parent, with its name and with *)
(* the questions qs. *)
Holds(c, t, p, qs) ==
  /\ c.groups[t[p].id] = [parent |-> t[Front(p)].id, name |-> t[p].name]
  /\ c.questions[t[p].id] = qs

(* Two contents of the same ids are the same when they agree on every id. *)
LEMMA ContentEqual ==
  ASSUME NEW c, NEW d, NEW ids, IsContent(c, ids), IsContent(d, ids),
         \A g \in ids : c.groups[g] = d.groups[g] /\ c.questions[g] = d.questions[g]
  PROVE  c = d
  <1>1. c.groups = [g \in ids |-> d.groups[g]]
    BY DEF IsContent
  <1>2. c.questions = [g \in ids |-> d.questions[g]]
    BY DEF IsContent
  <1>3. c.groups = d.groups /\ c.questions = d.questions
    BY <1>1, <1>2 DEF IsContent
  <1> QED BY <1>3 DEF IsContent

(* What the window is told of a tree in which every group has an id of its *)
(* own: each of its groups once.                                           *)
LEMMA ContentOfDisk ==
  ASSUME NEW t, DiskTree(t), <<>> \in DOMAIN t
  PROVE  /\ IsContent(ContentOf(t), GroupIds(t))
         /\ \A p \in DOMAIN t \ {<<>>} : Holds(ContentOf(t), t, p, QuestionsIn(t[p].ctx))
  <1> DEFINE ids == {t[p].id : p \in DOMAIN t} \ {NoId}
             At(id) == CHOOSE p \in DOMAIN t : t[p].id = id
             G == [id \in ids |-> [parent |-> t[Front(At(id))].id, name |-> t[At(id)].name]]
             Q == [id \in ids |-> ItemsAt(t, At(id))]
  <1>1. ContentOf(t) = [groups |-> G, questions |-> Q]
    BY DEF ContentOf
  <1>2. ids = GroupIds(t)
    BY NamesAssumption DEF DiskTree, GroupIds
  <1>3. ASSUME NEW p \in DOMAIN t \ {<<>>}
        PROVE  t[p].id \in ids /\ At(t[p].id) = p
    <2>1. t[p].id \in ids
      BY NamesAssumption DEF DiskTree
    <2>2. \A q \in DOMAIN t : t[q].id = t[p].id => q = p
      BY DEF DiskTree
    <2> QED BY <2>1, <2>2
  <1> HIDE DEF At
  <1>4. ASSUME NEW p \in DOMAIN t \ {<<>>}
        PROVE  Holds(ContentOf(t), t, p, QuestionsIn(t[p].ctx))
    <2>1. /\ G[t[p].id] = [parent |-> t[Front(p)].id, name |-> t[p].name]
          /\ Q[t[p].id] = QuestionsIn(t[p].ctx)
      BY <1>3 DEF ItemsAt
    <2> QED BY <1>1, <2>1 DEF Holds
  <1>5. IsContent(ContentOf(t), ids)
    BY <1>1 DEF IsContent
  <1> QED BY <1>2, <1>4, <1>5

(* So whatever holds its groups is the content of a tree.                  *)
LEMMA ContentIsOf ==
  ASSUME NEW t, DiskTree(t), <<>> \in DOMAIN t,
         NEW c, IsContent(c, GroupIds(t)),
         \A p \in DOMAIN t \ {<<>>} : Holds(c, t, p, QuestionsIn(t[p].ctx))
  PROVE  c = ContentOf(t)
  <1>1. IsContent(ContentOf(t), GroupIds(t))
    BY ContentOfDisk
  <1>2. \A p \in DOMAIN t \ {<<>>} : Holds(ContentOf(t), t, p, QuestionsIn(t[p].ctx))
    BY ContentOfDisk
  <1> DEFINE d == ContentOf(t)
  <1> HIDE DEF d
  <1>3. ASSUME NEW g \in GroupIds(t)
        PROVE  c.groups[g] = d.groups[g] /\ c.questions[g] = d.questions[g]
    <2>1. PICK p \in DOMAIN t \ {<<>>} : g = t[p].id
      BY DEF GroupIds
    <2> QED BY <1>2, <2>1 DEF Holds, d
  <1> QED BY <1>1, <1>3, ContentEqual DEF d

-----------------------------------------------------------------------------
(* The inductive invariant. *)

(* During a deletion the groups that will remain are those outside the one *)
(* the user named: what goes is that group and what Bank finds below it.   *)
DeletingContent ==
  LET m == call.frames[1].at
      ids == DOMAIN content.groups
      kept == Kept(tree, m) \ {<<>>}
  IN /\ IsContent(content, ids)
     /\ tree[m].id \in ids
     /\ \A r \in kept :
          tree[r].id \in ids /\ Holds(content, tree, r, QuestionsIn(tree[r].ctx))
     /\ Abs!Subtree(tree[m].id) = ids \ {tree[r].id : r \in kept}

(* In uninit() a group's questions are in memory or already in its file. *)
SavedQuestions(n) ==
  IF n.ctx = <<>> THEN Content(files, <<n.path, n.id>>) ELSE QuestionsIn(n.ctx)

ClosingContent ==
  /\ IsContent(content, GroupIds(tree))
  /\ \A p \in DOMAIN tree \ {<<>>} :
       Len(tree[p].ctx) <= 1 /\ Holds(content, tree, p, SavedQuestions(tree[p]))

(* Between the sessions every start would bring the content back. *)
SavedContent ==
  \A pick \in Picks(idsFile.items), filesFirst \in BOOLEAN :
    content = ContentOf(Load(dirs \cup {RootPath}, files, pick, filesFirst))

(* What is kept until something disturbs the bank. *)
ContentKept ==
  /\ run # "failed" /\ Readable
  /\ FilesOpen
  /\ run = "on" /\ call.frames = <<>> => content = ContentOf(tree)
  /\ run = "on" /\ call.frames # <<>> => DeletingContent
  /\ run = "closing" => ClosingContent
  /\ run = "off" => SavedContent

(* The inductive invariant, with BankTyped and CleanInv. *)
ContentInv == Undisturbed => ContentKept

-----------------------------------------------------------------------------
(* From one session to the next. *)

(* init() opens a group's file, if it has one, and nothing else. *)
LEMMA LoadedOpen ==
  ASSUME NEW t, TreeTyped(t), DiskTree(t), NEW fs, FilesLoaded(fs, {}, t),
         NEW p \in DOMAIN t
  PROVE  QuestionsIn(t[p].ctx) = Content(fs, <<t[p].path, t[p].id>>)
  <1> DEFINE c == t[p].ctx
             f == <<t[p].path, t[p].id>>
  <1>1. c \in Seq(Ctx) /\ Len(c) \in Nat /\ \A i \in 1..Len(c) : c[i].file = f
    BY LenProperties DEF TreeTyped, Node, DiskTree
  <1>2. CASE c = <<>>
    <2>1. ASSUME f \in DOMAIN fs PROVE FALSE
      <3>1. PICK q, i : CtxAt(t, q, i) /\ t[q].ctx[i].file = f
        BY <2>1 DEF FilesLoaded
      <3>2. /\ q \in DOMAIN t /\ t[q].ctx[i].file = <<t[q].path, t[q].id>>
            /\ i \in 1..Len(t[q].ctx)
        BY <3>1 DEF CtxAt, DiskTree
      <3>3. q = p
        BY <3>1, <3>2 DEF DiskTree
      <3>4. i \in 1..Len(<<>>)
        BY <1>2, <3>2, <3>3
      <3> QED BY <3>4, NoFrames
    <2> QED BY <1>2, <2>1, QuestionsOfOneFile DEF Content
  <1>3. CASE c # <<>>
    <2>1. Len(c) # 0
      BY <1>1, <1>3, EmptySeq
    <2>2. CtxAt(t, p, 1) /\ 1 \in 1..Len(c)
      BY <1>1, <2>1 DEF CtxAt
    <2>3. Len(c) <= 1
      <3> SUFFICES ASSUME Len(c) >= 2 PROVE FALSE
        BY <1>1
      <3>1. 2 \in 1..Len(c)
        BY <1>1
      <3>2. CtxAt(t, p, 2)
        BY <3>1 DEF CtxAt
      <3>3. c[1].file = c[2].file
        BY <1>1, <2>2, <3>1
      <3> QED BY <2>2, <3>2, <3>3 DEF FilesLoaded
    <2>4. Len(c) = 1
      <3> DEFINE n == Len(c)
      <3>1. n \in Nat /\ n # 0 /\ n <= 1
        BY <1>1, <2>1, <2>3
      <3> HIDE DEF n
      <3>2. n = 1
        BY <3>1
      <3> QED BY <3>2 DEF n
    <2>5. c[1].file = f
      BY <1>1, <2>2
    <2>6. f \in DOMAIN fs /\ c[1] = OpenCtx(fs, f)
      BY <2>2, <2>5 DEF FilesLoaded
    <2>7. QuestionsIn(c) = c[1].items
      BY <1>1, <2>4, QuestionsOfOneFile
    <2> QED BY <2>6, <2>7 DEF OpenCtx
  <1> QED BY <1>2, <1>3

(* What init() reads from the disk, whatever the order. *)
LEMMA LoadTidy ==
  ASSUME RootName \notin Names,
         NEW ds, NEW fs, DirsTyped(ds), FilesTyped(ds, fs), RootPath \in ds,
         NEW ids, Tidy(ds, fs, ids), NEW pick \in Picks(ids), NEW filesFirst,
         NEW t, t = Load(ds, fs, pick, filesFirst)
  PROVE  /\ TreeTyped(t) /\ FilesLoaded(fs, {}, t)
         /\ DiskTree(t) /\ Paths(t) = ds
         /\ \A p \in DOMAIN t \ {<<>>} :
              t[p].id \in DOMAIN ids /\ ids[t[p].id] = t[p].name
  <1>1. pick \in [Range(ids) -> Ids]
    BY DEF Picks, Tidy, IdTable
  <1>2. Loaded(ds, fs, pick, t)
    BY <1>1, LoadIsComplete
  <1>3. /\ DiskTree(t) /\ Paths(t) = ds
        /\ \A p \in DOMAIN t \ {<<>>} : t[p].id \in DOMAIN ids /\ ids[t[p].id] = t[p].name
    BY <1>2, LoadDisk
  <1> QED BY <1>2, <1>3 DEF Loaded

(* Two trees of the same directories with the same ids have groups of the  *)
(* same ids, names and parents.                                            *)
LEMMA SameDisk ==
  ASSUME NEW t, TreeTyped(t), DiskTree(t), NEW u, TreeTyped(u), DiskTree(u),
         Paths(t) = Paths(u), NEW ids, Injective(ids),
         \A p \in DOMAIN t \ {<<>>} : t[p].id \in DOMAIN ids /\ ids[t[p].id] = t[p].name,
         \A p \in DOMAIN u \ {<<>>} : u[p].id \in DOMAIN ids /\ ids[u[p].id] = u[p].name
  PROVE  \A p \in DOMAIN t \ {<<>>} : \E q \in DOMAIN u \ {<<>>} :
           /\ u[q].path = t[p].path /\ u[q].id = t[p].id /\ u[q].name = t[p].name
           /\ u[Front(q)].id = t[Front(p)].id
  <1>1. ASSUME NEW p \in DOMAIN t, NEW q \in DOMAIN u, t[p].path = u[q].path
        PROVE  /\ p = <<>> <=> q = <<>>
               /\ t[p].id = u[q].id /\ t[p].name = u[q].name
    <2>1. p # <<>> => t[p].path # RootPath /\ Last(t[p].path) = t[p].name
      BY DiskPaths
    <2>2. q # <<>> => u[q].path # RootPath /\ Last(u[q].path) = u[q].name
      BY DiskPaths
    <2>3. t[<<>>].path = RootPath /\ u[<<>>].path = RootPath
          /\ t[<<>>].id = u[<<>>].id /\ t[<<>>].name = u[<<>>].name
      BY DEF DiskTree
    <2>4. p = <<>> <=> q = <<>>
      BY <1>1, <2>1, <2>2, <2>3
    <2>5. CASE p # <<>>
      <3>1. t[p].name = u[q].name
        BY <1>1, <2>1, <2>2, <2>4, <2>5
      <3>2. t[p].id \in DOMAIN ids /\ u[q].id \in DOMAIN ids /\ ids[t[p].id] = ids[u[q].id]
        BY <2>4, <2>5, <3>1
      <3> QED BY <2>4, <3>1, <3>2 DEF Injective
    <2> QED BY <2>3, <2>4, <2>5
  <1>2. ASSUME NEW p \in DOMAIN t \ {<<>>}
        PROVE  \E q \in DOMAIN u \ {<<>>} :
                 /\ u[q].path = t[p].path /\ u[q].id = t[p].id /\ u[q].name = t[p].name
                 /\ u[Front(q)].id = t[Front(p)].id
    <2>1. PICK q \in DOMAIN u : t[p].path = u[q].path
      BY DEF Paths
    <2>2. q # <<>> /\ t[p].id = u[q].id /\ t[p].name = u[q].name
      BY <1>1, <2>1
    <2>3. Front(p) \in DOMAIN t /\ Front(t[p].path) = t[Front(p)].path
      BY DiskPaths
    <2>4. Front(q) \in DOMAIN u /\ Front(u[q].path) = u[Front(q)].path
      BY <2>2, DiskPaths
    <2>5. t[Front(p)].path = u[Front(q)].path
      BY <2>1, <2>3, <2>4
    <2>6. t[Front(p)].id = u[Front(q)].id
      BY <1>1, <2>3, <2>4, <2>5
    <2> QED BY <2>1, <2>2, <2>6
  <1> QED BY <1>2

(* The bank that was never started holds nothing, and a start loads        *)
(* nothing.                                                                *)
LEMMA ContentAtFirst ==
  ASSUME Ordinary, ContentInit
  PROVE  ContentInv
  <1>1. /\ run = "off" /\ dirs = {} /\ files = <<>> /\ idsFile = Stored(<<>>)
        /\ content = [groups |-> <<>>, questions |-> <<>>]
    BY DEF ContentInit, Init
  <1>2. BankTyped /\ CleanInv
    BY IdsInit, BankInit, CleanInit DEF BankTyped, ContentInit
  <1> SUFFICES ASSUME Undisturbed PROVE ContentKept
    BY DEF ContentInv
  <1>3. Readable
    BY <1>1 DEF Readable, Stored
  <1>4. ASSUME NEW pick \in Picks(idsFile.items), NEW filesFirst \in BOOLEAN
        PROVE  content = ContentOf(Load(dirs \cup {RootPath}, files, pick, filesFirst))
    <2> DEFINE t == Load(dirs \cup {RootPath}, files, pick, filesFirst)
    <2>1. dirs \cup {RootPath} = {RootPath}
      BY <1>1
    <2>2. DirsTyped({RootPath}) /\ FilesTyped({RootPath}, files)
      <3>1. IsFiniteSet({RootPath})
        BY FS_Singleton
      <3> QED BY <1>1, <1>2, <3>1, RootIsPath DEF DirsTyped, FilesTyped, BankTyped, BankInv
    <2>3. Tidy({RootPath}, files, idsFile.items)
      BY <1>1, <1>2 DEF Tidy, OneName, Injective, BankTyped, IdsInv, Stored
    <2>10. t = Load({RootPath}, files, pick, filesFirst) /\ RootName \notin Names
      BY <2>1 DEF Ordinary
    <2> HIDE DEF t
    <2>4. /\ TreeTyped(t) /\ DiskTree(t) /\ Paths(t) = {RootPath}
      <3> DEFINE ds == {RootPath}
      <3>1. DirsTyped(ds) /\ FilesTyped(ds, files) /\ RootPath \in ds
            /\ Tidy(ds, files, idsFile.items) /\ t = Load(ds, files, pick, filesFirst)
        BY <2>2, <2>3, <2>10
      <3> HIDE DEF ds
      <3>2. TreeTyped(t) /\ DiskTree(t) /\ Paths(t) = ds
        BY <2>10, <3>1, LoadTidy
      <3> QED BY <3>2 DEF ds
    <2>5. <<>> \in DOMAIN t
      BY <2>4 DEF TreeTyped
    <2>6. DOMAIN t \ {<<>>} = {}
      BY <2>4, <2>5 DEF DiskTree, Paths
    <2>7. GroupIds(t) = {}
      BY <2>6 DEF GroupIds
    <2>8. IsContent(content, {})
      BY <1>1 DEF IsContent
    <2>9. content = ContentOf(t)
      BY <2>4, <2>5, <2>6, <2>7, <2>8, ContentIsOf
    <2> QED BY <2>9 DEF t
  <1> QED BY <1>1, <1>3, <1>4 DEF ContentKept, FilesOpen, SavedContent

(* init() brings the content back. *)
LEMMA StartKeeps ==
  ASSUME BankTyped, Clean', ContentKept, Start, Remember
  PROVE  ContentKept' /\ run' = "on" /\ content' = content
  <1>1. run = "off" /\ Readable /\ SavedContent /\ call = NoCall
    BY DEF Start, ContentKept, BankTyped, IdsInv
  <1>2. /\ run' = "on" /\ call' = NoCall /\ UNCHANGED <<files, idsFile>>
        /\ dirs' = dirs \cup {RootPath}
    BY <1>1 DEF Start
  <1>3. content = ContentOf(tree')
    <2>1. PICK pick \in Picks(idsFile.items), filesFirst \in BOOLEAN :
            tree' = Load(dirs', files, pick, filesFirst)
      BY <1>1 DEF Start
    <2> QED BY <1>1, <1>2, <2>1 DEF SavedContent
  <1>4. content' = ContentOf(tree')
    BY <1>2 DEF Remember
  <1>5. FilesOpen'
    BY OpenStart
  <1>6. Readable'
    BY <1>1, <1>2 DEF Readable
  <1>7. call'.frames = <<>>
    BY <1>2 DEF NoCall
  <1> QED BY <1>2, <1>3, <1>4, <1>5, <1>6, <1>7 DEF ContentKept

(* When uninit() begins, what is in no open file is in no file either. *)
LEMMA QuitKeeps ==
  ASSUME BankTyped, Clean, ContentKept, Quit, Remember
  PROVE  ContentKept' /\ run = "on" /\ content' = content
  <1>1. /\ run = "on" /\ call = NoCall /\ run' = "closing" /\ idsFile' = Stored(lst)
        /\ UNCHANGED <<tree, call, dirs, files>>
    BY DEF Quit, Idle
  <1>2. content' = content
    BY <1>1 DEF Remember
  <1>3. /\ DiskTree(tree) /\ <<>> \in DOMAIN tree /\ FilesOpen /\ content = ContentOf(tree)
    BY <1>1 DEF ContentKept, Clean, OnInv, NoCall, BankTyped, BankInv, TreeTyped
  <1>4. ASSUME NEW p \in DOMAIN tree \ {<<>>}
        PROVE  Len(tree[p].ctx) <= 1 /\ SavedQuestions(tree[p]) = QuestionsIn(tree[p].ctx)
    <2>1. Len(tree[p].ctx) <= 1
      BY <1>1, <1>3 DEF FilesOpen
    <2>2. CASE tree[p].ctx = <<>>
      <3>1. <<tree[p].path, tree[p].id>> \notin DOMAIN files
        BY <1>1, <1>3, <2>2, NoCallClean DEF FilesOpen
      <3> QED BY <2>1, <2>2, <3>1, QuestionsOfOneFile DEF SavedQuestions, Content
    <2>3. CASE tree[p].ctx # <<>>
      BY <2>1, <2>3 DEF SavedQuestions
    <2> QED BY <2>2, <2>3
  <1>5. /\ IsContent(content, GroupIds(tree))
        /\ \A p \in DOMAIN tree \ {<<>>} : Holds(content, tree, p, QuestionsIn(tree[p].ctx))
    BY <1>3, ContentOfDisk
  <1>6. ClosingContent
    BY <1>4, <1>5 DEF ClosingContent
  <1>7. ClosingContent'
    BY <1>1, <1>2, <1>6 DEF ClosingContent, SavedQuestions
  <1>8. Readable'
    BY <1>1 DEF Readable, Stored, ContentKept
  <1> QED BY <1>1, <1>2, <1>7, <1>8 DEF ContentKept, FilesOpen

(* When uninit() has closed every file, a start would read them all. *)
LEMMA ClosedKeeps ==
  ASSUME Ordinary, BankTyped, Clean, ContentKept, Closed, Remember
  PROVE  ContentKept' /\ run = "closing" /\ run' = "off" /\ content' = content
  <1>1. /\ run = "closing" /\ run' = "off" /\ UNCHANGED <<dirs, files, idsFile>>
        /\ OpenCtxs(tree) = {}
    BY DEF Closed, Ended, disk
  <1>2. content' = content
    BY <1>1 DEF Remember
  <1>3. /\ DiskTree(tree) /\ Paths(tree) = dirs /\ TreeTyped(tree) /\ OneName(dirs)
        /\ SavedInv /\ DirsTyped(dirs) /\ FilesTyped(dirs, files) /\ RootPath \in dirs
        /\ \A p \in DOMAIN tree \ {<<>>} : tree[p].id \in DOMAIN idsFile.items
                                           /\ idsFile.items[tree[p].id] = tree[p].name
    BY <1>1 DEF Clean, ClosingInv, BankTyped, BankInv
  <1>4. ClosingContent /\ Readable
    BY <1>1 DEF ContentKept
  <1>5. \A p \in DOMAIN tree : tree[p].ctx = <<>>
    <2> SUFFICES ASSUME NEW p \in DOMAIN tree, tree[p].ctx # <<>> PROVE FALSE
      OBVIOUS
    <2>1. tree[p].ctx \in Seq(Ctx)
      BY <1>3 DEF TreeTyped, Node
    <2>2. Len(tree[p].ctx) \in Nat \ {0} /\ DOMAIN tree[p].ctx = 1..Len(tree[p].ctx)
      BY <2>1, EmptySeq, LenProperties
    <2>3. tree[p].ctx[1] \in ToSet(tree[p].ctx)
      BY <2>2 DEF ToSet
    <2> QED BY <1>1, <2>3 DEF OpenCtxs
  <1>6. Tidy(dirs, files, idsFile.items)
    BY <1>3 DEF Tidy, SavedInv, BankTyped, IdsInv
  <1>7. ASSUME NEW pick \in Picks(idsFile.items), NEW filesFirst \in BOOLEAN
        PROVE  content = ContentOf(Load(dirs \cup {RootPath}, files, pick, filesFirst))
    <2> DEFINE t == Load(dirs \cup {RootPath}, files, pick, filesFirst)
               ids == idsFile.items
    <2>1. dirs \cup {RootPath} = dirs
      BY <1>3
    <2>9. t = Load(dirs, files, pick, filesFirst) /\ RootName \notin Names
      BY <2>1 DEF Ordinary
    <2> HIDE DEF t
    <2>2. /\ TreeTyped(t) /\ FilesLoaded(files, {}, t)
          /\ DiskTree(t) /\ Paths(t) = dirs
          /\ \A p \in DOMAIN t \ {<<>>} : t[p].id \in DOMAIN ids /\ ids[t[p].id] = t[p].name
      BY <1>3, <1>6, <2>9, LoadTidy
    <2>3. \A p \in DOMAIN t \ {<<>>} : \E q \in DOMAIN tree \ {<<>>} :
            /\ tree[q].path = t[p].path /\ tree[q].id = t[p].id /\ tree[q].name = t[p].name
            /\ tree[Front(q)].id = t[Front(p)].id
      BY <1>3, <2>2, SameDisk DEF SavedInv
    <2>4. \A p \in DOMAIN tree \ {<<>>} : \E q \in DOMAIN t \ {<<>>} : t[q].id = tree[p].id
      <3>1. \A p \in DOMAIN tree \ {<<>>} : \E q \in DOMAIN t \ {<<>>} :
            /\ t[q].path = tree[p].path /\ t[q].id = tree[p].id /\ t[q].name = tree[p].name
            /\ t[Front(q)].id = tree[Front(p)].id
        BY <1>3, <2>2, SameDisk DEF SavedInv
      <3> QED BY <3>1
    <2>5. GroupIds(t) = GroupIds(tree)
      BY <2>3, <2>4 DEF GroupIds
    <2>6. ASSUME NEW p \in DOMAIN t \ {<<>>}
          PROVE  Holds(content, t, p, QuestionsIn(t[p].ctx))
      <3>1. PICK q \in DOMAIN tree \ {<<>>} :
            /\ tree[q].path = t[p].path /\ tree[q].id = t[p].id /\ tree[q].name = t[p].name
            /\ tree[Front(q)].id = t[Front(p)].id
        BY <2>3
      <3>2. Holds(content, tree, q, Content(files, <<tree[q].path, tree[q].id>>))
        BY <1>4, <1>5 DEF ClosingContent, SavedQuestions
      <3>3. QuestionsIn(t[p].ctx) = Content(files, <<t[p].path, t[p].id>>)
        BY <2>2, LoadedOpen
      <3> QED BY <3>1, <3>2, <3>3 DEF Holds
    <2>7. <<>> \in DOMAIN t
      BY <2>2 DEF TreeTyped
    <2>8. content = ContentOf(t)
      BY <1>4, <2>2, <2>5, <2>6, <2>7, ContentIsOf DEF ClosingContent
    <2> QED BY <2>8 DEF t
  <1>8. SavedContent'
    BY <1>1, <1>2, <1>7 DEF SavedContent
  <1>9. Readable'
    BY <1>1, <1>4 DEF Readable
  <1> QED BY <1>1, <1>2, <1>8, <1>9 DEF ContentKept, FilesOpen

-----------------------------------------------------------------------------
(* Closing files and deleting. *)

(* The parent of a group outside the one that is deleted is outside too. *)
LEMMA FrontKept ==
  ASSUME NEW t, TreeTyped(t), Rows(t), NEW m \in Positions, m # <<>>,
         NEW r \in Kept(t, m) \ {<<>>}
  PROVE  Front(r) \in Kept(t, m) /\ <<>> \in Kept(t, m)
  <1>1. r \in Seq(Nat) /\ r \in DOMAIN t /\ Front(r) \in DOMAIN t /\ <<>> \in DOMAIN t
    BY DEF Kept, TreeTyped, Positions, Rows
  <1>2. ~IsPrefix(m, Front(r))
    BY <1>1, PrefixOfFront DEF Kept, Positions
  <1>3. ~IsPrefix(m, <<>>)
    <2>1. Len(m) \in Nat \ {0} /\ <<>> \in Positions /\ Len(<<>>) = 0
      BY EmptySeq DEF Positions
    <2> QED BY <2>1, PrefixOfPosition
  <1> QED BY <1>1, <1>2, <1>3 DEF Kept

(* A step of a deletion that leaves all groups outside it alone. *)
LEMMA DeletingKept ==
  ASSUME TreeTyped(tree), Rows(tree), DeletingContent, content' = content,
         NEW m \in Positions, m # <<>>,
         call.frames[1].at = m, call'.frames[1].at = m,
         Kept(tree', m) = Kept(tree, m),
         \A r \in Kept(tree, m) : tree'[r] = tree[r],
         tree'[m].id = tree[m].id
  PROVE  DeletingContent'
  <1> DEFINE ids == DOMAIN content.groups
             kept == Kept(tree, m) \ {<<>>}
             u == tree'
  <1>1. /\ IsContent(content, ids) /\ tree[m].id \in ids
        /\ \A r \in kept : tree[r].id \in ids /\ Holds(content, tree, r, QuestionsIn(tree[r].ctx))
        /\ Abs!Subtree(tree[m].id) = ids \ {tree[r].id : r \in kept}
    BY DEF DeletingContent
  <1>2. \A r \in kept : u[r] = tree[r] /\ u[Front(r)].id = tree[Front(r)].id
    BY FrontKept
  <1>3. \A r \in kept : Holds(content, u, r, QuestionsIn(u[r].ctx)) /\ u[r].id \in ids
    BY <1>1, <1>2 DEF Holds
  <1>4. {u[r].id : r \in kept} = {tree[r].id : r \in kept}
    BY <1>2
  <1>5. Abs!Subtree(tree[m].id)' = Abs!Subtree(tree[m].id)
    BY DEF Abs!Subtree
  <1>6. Kept(u, m) \ {<<>>} = kept
    OBVIOUS
  <1> QED BY <1>1, <1>3, <1>4, <1>5, <1>6 DEF DeletingContent

(* The group that deleteGroup() was called for, and the innermost one. *)
LEMMA FirstAndTop ==
  ASSUME BankTyped, Clean, run = "on", call.frames # <<>>
  PROVE  LET m == call.frames[1].at
         IN /\ m \in Positions /\ m # <<>> /\ m \in DOMAIN tree
            /\ top.at \in DOMAIN tree /\ IsPrefix(m, top.at)
            /\ TreeTyped(tree) /\ DiskTree(tree) /\ Rows(tree)
  <1> DEFINE m == call.frames[1].at
  <1>1. /\ 1 \in 1..Len(call.frames) /\ Len(call.frames) \in 1..Len(call.frames)
        /\ top = call.frames[Len(call.frames)]
    BY FramesFirst
  <1>2. /\ m \in DOMAIN tree \ {<<>>} /\ top.at \in DOMAIN tree /\ TreeTyped(tree)
    BY <1>1 DEF BankTyped, BankInv, CallTyped
  <1>3. DiskTree(tree) /\ IsPrefix(tree[m].path, tree[top.at].path)
    BY <1>1 DEF Clean, OnInv, CallInv
  <1>4. IsPrefix(m, top.at)
    BY <1>2, <1>3, BelowInDisk
  <1>5. m \in Positions
    BY <1>2 DEF TreeTyped
  <1> QED BY <1>2, <1>3, <1>4, <1>5 DEF DiskTree

(* In deleteGroup() only files of the deleted groups are closed. *)
LEMMA CloseDeletingKeeps ==
  ASSUME BankTyped, Clean, ContentKept, CloseFile, Remember, run = "on"
  PROVE  ContentKept' /\ UNCHANGED <<run, call, content>>
  <1>1. PICK p \in DOMAIN tree :
          /\ Closing(p) /\ tree' = [tree EXCEPT ![p].ctx = Tail(tree[p].ctx)]
          /\ files' = CloseCtx(dirs, files, Head(tree[p].ctx))
    BY DEF CloseFile
  <1>2. run' = "on" /\ call' = call /\ call.frames # <<>> /\ p = top.at
        /\ UNCHANGED <<dirs, idsFile>>
    BY <1>1 DEF CloseFile, Closing, top
  <1>3. call # NoCall /\ content' = content
    BY <1>2 DEF NoCall, Remember
  <1> DEFINE m == call.frames[1].at
  <1>4. /\ m \in Positions /\ m # <<>> /\ m \in DOMAIN tree
        /\ IsPrefix(m, p) /\ TreeTyped(tree) /\ DiskTree(tree) /\ Rows(tree)
    BY <1>2, FirstAndTop
  <1>5. call.frames[1].at = m /\ call'.frames[1].at = m
    BY <1>2
  <1> HIDE DEF m
  <1>6. tree' = [tree EXCEPT ![p] = [tree[p] EXCEPT !.ctx = Tail(tree[p].ctx)]]
    BY <1>1
  <1>7. /\ DOMAIN tree' = DOMAIN tree /\ \A r \in DOMAIN tree \ {p} : tree'[r] = tree[r]
        /\ \A r \in DOMAIN tree : tree'[r].id = tree[r].id
    <2>1. tree[p] \in Node
      BY <1>4 DEF TreeTyped
    <2> QED BY <1>6, <2>1 DEF Node
  <1>8. Kept(tree', m) = Kept(tree, m) /\ \A r \in Kept(tree, m) : tree'[r] = tree[r]
    BY <1>4, <1>7 DEF Kept
  <1>9. DeletingContent
    BY <1>2 DEF ContentKept
  <1>10. DeletingContent'
    BY <1>3, <1>4, <1>5, <1>7, <1>8, <1>9, DeletingKept
  <1>11. FilesOpen'
    BY OpenCloseFile DEF ContentKept
  <1>12. Readable'
    <2>1. BankInv'
      BY CloseFileTyped
    <2> QED BY <1>2, <2>1 DEF BankInv
  <1> QED BY <1>2, <1>3, <1>10, <1>11, <1>12 DEF ContentKept

(* In uninit() the questions of a closed file are in the file, or gone     *)
(* with it when there are none.                                            *)
LEMMA CloseClosingKeeps ==
  ASSUME BankTyped, Clean, ContentKept, CloseFile, Remember, run = "closing"
  PROVE  ContentKept' /\ UNCHANGED <<run, call, content>>
  <1>1. PICK p \in DOMAIN tree :
          /\ tree[p].ctx # <<>> /\ tree' = [tree EXCEPT ![p].ctx = Tail(tree[p].ctx)]
          /\ files' = CloseCtx(dirs, files, Head(tree[p].ctx))
    BY DEF CloseFile, Closing
  <1>2. run' = "closing" /\ call' = call /\ UNCHANGED <<dirs, idsFile>>
    BY DEF CloseFile
  <1>3. content' = content
    BY <1>2 DEF Remember
  <1>4. TreeTyped(tree) /\ DiskTree(tree) /\ Paths(tree) = dirs /\ ClosingContent
    BY DEF BankTyped, BankInv, Clean, ClosingInv, ContentKept
  <1> DEFINE o == tree[p].ctx
             f == <<tree[p].path, tree[p].id>>
             c == Head(o)
  <1>5. p # <<>> /\ c.file = f /\ tree[p] \in Node
    BY <1>1, <1>4, OpenFile DEF TreeTyped
  <1>6. o \in Seq(Ctx) /\ o # <<>> /\ Len(o) <= 1
    BY <1>1, <1>4, <1>5 DEF ClosingContent, Node
  <1>7. Len(o) = 1 /\ o[1] = c /\ Tail(o) = <<>> /\ c \in Ctx
    <2> HIDE DEF o
    <2>1. Len(o) \in Nat \ {0}
      BY <1>6, EmptySeq
    <2> DEFINE n == Len(o)
    <2>2. n \in Nat /\ n # 0 /\ n <= 1
      BY <1>6, <2>1
    <2> HIDE DEF n
    <2>3. n = 1
      BY <2>2
    <2>4. Len(o) = 1
      BY <2>3 DEF n
    <2>5. o[1] = Head(o) /\ Len(Tail(o)) = 0 /\ Tail(o) \in Seq(Ctx)
      BY <1>6, <2>4, HeadTailProperties
    <2>6. Tail(o) = <<>>
      BY <2>5, EmptySeq
    <2>7. o[1] \in Ctx
      BY <1>6, <2>4, ElementOfSeq
    <2> QED BY <2>4, <2>5, <2>6, <2>7
  <1>8. QuestionsIn(o) = c.items
    BY <1>6, <1>7, QuestionsOfOneFile
  <1>9. f[1] \in dirs
    BY <1>4 DEF Paths
  <1> HIDE DEF o, c
  <1>10. Content(files', f) = c.items
    <2>1. CASE c.items = <<>>
      <3>1. files' = Without(files, {f})
        BY <1>1, <1>5, <2>1 DEF CloseCtx, c, o
      <3> QED BY <2>1, <3>1 DEF Content, Without
    <2>2. CASE c.items # <<>>
      <3>1. files' = Put(files, f, Stored(c.items))
        BY <1>1, <1>5, <1>9, <2>2 DEF CloseCtx, c, o
      <3> HIDE DEF f
      <3>2. f \in DOMAIN files' /\ files'[f] = Stored(c.items)
        BY <3>1 DEF Put
      <3> QED BY <3>2 DEF Content, Stored
    <2> QED BY <2>1, <2>2
  <1>11. \A g : g # f => Content(files', g) = Content(files, g)
    <2>1. files' = Without(files, {f}) \/ files' = Put(files, f, Stored(c.items))
      BY <1>1, <1>5, <1>9 DEF CloseCtx, c, o
    <2> HIDE DEF f
    <2> QED BY <2>1 DEF Content, Without, Put
  <1>12. tree' = [tree EXCEPT ![p] = [tree[p] EXCEPT !.ctx = <<>>]]
    BY <1>1, <1>7 DEF o
  <1>13. /\ DOMAIN tree' = DOMAIN tree
         /\ \A r \in DOMAIN tree \ {p} : tree'[r] = tree[r]
         /\ \A r \in DOMAIN tree : /\ tree'[r].id = tree[r].id /\ tree'[r].path = tree[r].path
                                   /\ tree'[r].name = tree[r].name
         /\ tree'[p].ctx = <<>>
    BY <1>5, <1>12 DEF Node
  <1>14. GroupIds(tree') = GroupIds(tree)
    BY <1>13 DEF GroupIds
  <1>15. ASSUME NEW r \in DOMAIN tree \ {<<>>}
         PROVE  Len(tree'[r].ctx) <= 1 /\ SavedQuestions(tree[r])' = SavedQuestions(tree[r])
    <2>1. CASE r = p
      <3>1. SavedQuestions(tree[p])' = Content(files', f)
        BY <1>13 DEF SavedQuestions
      <3>2. SavedQuestions(tree[p]) = c.items
        BY <1>1, <1>8 DEF SavedQuestions, o
      <3>3. Len(<<>>) <= 1
        OBVIOUS
      <3> QED BY <1>10, <1>13, <2>1, <3>1, <3>2, <3>3
    <2>2. CASE r # p
      <3>1. tree'[r] = tree[r] /\ Len(tree[r].ctx) <= 1
        BY <1>4, <1>13, <2>2 DEF ClosingContent
      <3>2. <<tree[r].path, tree[r].id>> # f
        BY <1>4, <2>2 DEF DiskTree
      <3> HIDE DEF f
      <3>3. Content(files', <<tree[r].path, tree[r].id>>) = Content(files, <<tree[r].path, tree[r].id>>)
        BY <1>11, <3>2
      <3> QED BY <3>1, <3>3 DEF SavedQuestions
    <2> QED BY <2>1, <2>2
  <1>16. \A r \in DOMAIN tree \ {<<>>} : Front(r) \in DOMAIN tree
    BY <1>4 DEF DiskTree, Rows
  <1>17. ASSUME NEW r \in DOMAIN tree \ {<<>>}
         PROVE  Holds(content, tree', r, SavedQuestions(tree[r])')
    <2>1. Holds(content, tree, r, SavedQuestions(tree[r]))
      BY <1>4 DEF ClosingContent
    <2> QED BY <1>13, <1>15, <1>16, <2>1 DEF Holds
  <1>18. ClosingContent'
    BY <1>3, <1>4, <1>13, <1>14, <1>15, <1>17 DEF ClosingContent
  <1>19. Readable'
    <2>1. BankInv'
      BY CloseFileTyped
    <2> QED BY <1>2, <2>1 DEF BankInv
  <1> QED BY <1>2, <1>3, <1>18, <1>19 DEF ContentKept, FilesOpen

(* Bank's subtree of a group is what the bank has below its position. *)
LEMMA SubtreeFound ==
  ASSUME TreeTyped(tree), DiskTree(tree), content = ContentOf(tree),
         NEW m \in DOMAIN tree \ {<<>>}
  PROVE  Abs!Subtree(tree[m].id)
           = DOMAIN content.groups \ {tree[r].id : r \in Kept(tree, m) \ {<<>>}}
  <1> DEFINE G == content.groups
             D == GroupIds(tree)
             g == tree[m].id
             K == {tree[r].id : r \in Kept(tree, m) \ {<<>>}}
             B == D \ K
             Closed0(S) == g \in S /\ \A h \in D : G[h].parent \in S => h \in S
  <1>1. /\ <<>> \in DOMAIN tree /\ m \in Seq(Nat) /\ m # <<>>
        /\ \A r \in DOMAIN tree : r \in Seq(Nat)
        /\ \A r \in DOMAIN tree \ {<<>>} : Front(r) \in DOMAIN tree
    BY DEF TreeTyped, Positions, DiskTree, Rows
  <1>2. /\ DOMAIN G = D
        /\ \A r \in DOMAIN tree \ {<<>>} : G[tree[r].id].parent = tree[Front(r)].id
    <2>1. IsContent(content, D)
          /\ \A r \in DOMAIN tree \ {<<>>} : Holds(content, tree, r, QuestionsIn(tree[r].ctx))
      BY <1>1, ContentOfDisk
    <2>2. DOMAIN G = D
      <3> HIDE DEF D
      <3> QED BY <2>1 DEF IsContent
    <2>3. ASSUME NEW r \in DOMAIN tree \ {<<>>}
          PROVE  G[tree[r].id].parent = tree[Front(r)].id
      <3>1. Holds(content, tree, r, QuestionsIn(tree[r].ctx))
        BY <2>1
      <3> QED BY <3>1 DEF Holds
    <2> QED BY <2>2, <2>3
  <1>3. Abs!Subtree(g) = {h \in D : \A S \in SUBSET D : Closed0(S) => h \in S}
    BY <1>2 DEF Abs!Subtree
  <1>4. ASSUME NEW r \in DOMAIN tree PROVE tree[r].id \in B <=> IsPrefix(m, r)
    <2>1. CASE r = <<>>
      <3>1. tree[r].id \notin D
        BY <1>1, <2>1 DEF GroupIds, DiskTree
      <3>2. ~IsPrefix(m, <<>>)
        <4>1. Len(m) \in Nat \ {0} /\ <<>> \in Positions /\ m \in Positions /\ Len(<<>>) = 0
          BY <1>1, EmptySeq DEF Positions
        <4> QED BY <4>1, PrefixOfPosition
      <3> QED BY <2>1, <3>1, <3>2
    <2>2. CASE r # <<>>
      <3>1. tree[r].id \in D
        BY <2>2 DEF GroupIds
      <3>2. tree[r].id \in K <=> r \in Kept(tree, m)
        BY <2>2 DEF DiskTree, Kept
      <3> QED BY <3>1, <3>2 DEF Kept
    <2> QED BY <2>1, <2>2
  <1>5. Closed0(B)
    <2>1. g \in B
      <3>1. IsPrefix(m, m)
        <4>1. m \in Positions /\ Len(m) \in Nat
          BY <1>1 DEF Positions
        <4> QED BY <4>1, PrefixOfPosition
      <3> QED BY <1>4, <3>1
    <2>2. ASSUME NEW h \in D, G[h].parent \in B PROVE h \in B
      <3>1. PICK r \in DOMAIN tree \ {<<>>} : h = tree[r].id
        BY DEF GroupIds
      <3>2. tree[Front(r)].id \in B /\ Front(r) \in DOMAIN tree
        BY <1>1, <1>2, <2>2, <3>1
      <3>3. IsPrefix(m, Front(r))
        BY <1>4, <3>2
      <3>4. IsPrefix(m, r)
        BY <1>1, <3>3, PrefixOfFront
      <3> QED BY <1>4, <3>1, <3>4
    <2> QED BY <2>1, <2>2
  <1>6. ASSUME NEW S \in SUBSET D, Closed0(S), NEW h \in B PROVE h \in S
    <2> DEFINE P == {n \in Nat : \A r \in DOMAIN tree :
                                   IsPrefix(m, r) /\ Len(r) <= n => tree[r].id \in S}
    <2>1. 0 \in P
      <3> SUFFICES ASSUME NEW r \in DOMAIN tree, IsPrefix(m, r), Len(r) <= 0 PROVE FALSE
        OBVIOUS
      <3>1. Len(m) \in Nat \ {0} /\ r \in Positions /\ m \in Positions /\ Len(r) \in Nat
        BY <1>1, EmptySeq DEF Positions
      <3> QED BY <3>1, PrefixOfPosition
    <2>2. ASSUME NEW n \in Nat, n \in P PROVE n + 1 \in P
      <3> SUFFICES ASSUME NEW r \in DOMAIN tree, IsPrefix(m, r), Len(r) <= n + 1
                   PROVE  tree[r].id \in S
        OBVIOUS
      <3>1. CASE r = m
        BY <1>6, <3>1
      <3>2. CASE r # m
        <4>1. r # <<>>
          <5>1. Len(m) \in Nat \ {0} /\ <<>> \in Positions /\ m \in Positions /\ Len(<<>>) = 0
            BY <1>1, EmptySeq DEF Positions
          <5> QED BY <5>1, PrefixOfPosition
        <4>2. IsPrefix(m, Front(r)) /\ Front(r) \in DOMAIN tree
          BY <1>1, <3>2, <4>1, PrefixOfFront
        <4>3. Len(Front(r)) = Len(r) - 1 /\ Len(r) \in Nat
          BY <1>1, <4>1, FrontProperties
        <4>4. Len(Front(r)) <= n
          BY <4>3
        <4>5. tree[Front(r)].id \in S
          BY <2>2, <4>2, <4>4
        <4>6. tree[r].id \in D
          BY <4>1 DEF GroupIds
        <4> QED BY <1>2, <1>6, <4>1, <4>5, <4>6
      <3> QED BY <3>1, <3>2
    <2> HIDE DEF P
    <2>3. Nat \subseteq P
      BY <2>1, <2>2, NatSets
    <2>4. PICK r \in DOMAIN tree : h = tree[r].id
      BY DEF GroupIds
    <2>5. IsPrefix(m, r) /\ Len(r) \in Nat
      BY <1>1, <1>4, <2>4
    <2>6. Len(r) \in P
      BY <2>3, <2>5
    <2> QED BY <2>4, <2>5, <2>6 DEF P
  <1>7. B \in SUBSET D
    OBVIOUS
  <1> HIDE DEF Closed0, B, D, G
  <1>8. Abs!Subtree(g) = B
    BY <1>3, <1>5, <1>6, <1>7
  <1> QED BY <1>2, <1>8 DEF B, D, G

(* On its way down deleteGroup() leaves the content alone. *)
LEMMA DeleteDownKeeps ==
  ASSUME BankTyped, BankTyped', Clean, ContentKept, DeleteTry \/ DeleteTurn, Remember
  PROVE  ContentKept' /\ UNCHANGED <<run, content>>
  <1>1. FilesOpen'
    BY OpenDelete DEF ContentKept
  <1>2. CASE DeleteTry
    <2>1. /\ run = "on" /\ run' = "on" /\ tree' = tree /\ call.frames = <<>> /\ OnInv
      BY <1>2, TryFinds
    <2>2. PICK m \in DOMAIN tree \ {<<>>} : call'.frames # <<>> /\ call'.frames[1].at = m
      BY <1>2, TryFinds
    <2>3. content' = content
      BY <2>2 DEF Remember, NoCall
    <2>4. /\ content = ContentOf(tree) /\ TreeTyped(tree) /\ DiskTree(tree)
          /\ <<>> \in DOMAIN tree
      BY <2>1 DEF ContentKept, OnInv, BankTyped, BankInv, TreeTyped
    <2>5. Abs!Subtree(tree[m].id)
            = DOMAIN content.groups \ {tree[r].id : r \in Kept(tree, m) \ {<<>>}}
      BY <2>4, SubtreeFound
    <2>6. /\ IsContent(content, GroupIds(tree))
          /\ \A p \in DOMAIN tree \ {<<>>} : Holds(content, tree, p, QuestionsIn(tree[p].ctx))
      BY <2>4, ContentOfDisk
    <2>7. DOMAIN content.groups = GroupIds(tree)
      BY <2>6 DEF IsContent
    <2>8. /\ tree[m].id \in GroupIds(tree)
          /\ \A r \in Kept(tree, m) \ {<<>>} :
               /\ tree[r].id \in GroupIds(tree)
               /\ Holds(content, tree, r, QuestionsIn(tree[r].ctx))
      BY <2>6 DEF GroupIds, Kept
    <2>9. Abs!Subtree(tree[m].id)' = Abs!Subtree(tree[m].id)
      BY <2>1, <2>3 DEF Abs!Subtree
    <2>10. DeletingContent'
      BY <2>1, <2>2, <2>3, <2>5, <2>6, <2>7, <2>8, <2>9 DEF DeletingContent
    <2>11. Readable'
      BY <2>1 DEF BankTyped, BankInv
    <2> QED BY <1>1, <2>1, <2>2, <2>3, <2>10, <2>11 DEF ContentKept
  <1>3. CASE DeleteTurn
    <2>1. /\ run = "on" /\ call.frames # <<>>
          /\ call'.frames # <<>> /\ call'.frames[1].at = call.frames[1].at
          /\ UNCHANGED <<run, tree, dirs, files>>
      BY <1>3, TurnKeepsFirst
    <2>2. content' = content
      BY <2>1 DEF Remember, NoCall
    <2>3. DeletingContent
      BY <2>1 DEF ContentKept
    <2> DEFINE m == call.frames[1].at
    <2>4. m \in Positions /\ m # <<>> /\ TreeTyped(tree) /\ Rows(tree)
      BY <2>1, FirstAndTop
    <2>5. call.frames[1].at = m /\ call'.frames[1].at = m
      BY <2>1
    <2> HIDE DEF m
    <2>6. DeletingContent'
      BY <2>1, <2>2, <2>3, <2>4, <2>5, DeletingKept
    <2>7. Readable'
      BY <2>1 DEF BankTyped, BankInv
    <2> QED BY <1>1, <2>1, <2>2, <2>6, <2>7 DEF ContentKept
  <1> QED BY <1>2, <1>3

(* erase() of the group the user named takes out of the content what Bank  *)
(* finds below it.                                                         *)
LEMMA DeletedContent ==
  ASSUME TreeTyped(tree), DiskTree(tree), NEW m \in DOMAIN tree \ {<<>>},
         call.frames[1].at = m, DeletingContent
  PROVE  ContentOf(WithoutGroup(tree, m))
           = [groups |-> Without(content.groups, Abs!Subtree(tree[m].id)),
              questions |-> Without(content.questions, Abs!Subtree(tree[m].id))]
  <1> DEFINE ids == DOMAIN content.groups
             kept == Kept(tree, m) \ {<<>>}
             K == {tree[r].id : r \in kept}
             sub == Abs!Subtree(tree[m].id)
             u == WithoutGroup(tree, m)
             c == [groups |-> Without(content.groups, sub),
                   questions |-> Without(content.questions, sub)]
  <1>1. /\ IsContent(content, ids)
        /\ \A r \in kept : tree[r].id \in ids /\ Holds(content, tree, r, QuestionsIn(tree[r].ctx))
        /\ sub = ids \ K
    BY DEF DeletingContent
  <1>2. u = WithoutGroup(tree, m) /\ Rows(tree)
    BY DEF DiskTree
  <1> HIDE DEF u
  <1>3. /\ \A s : s \in DOMAIN u <=> \E r \in Kept(tree, m) : s = MovedUp(m, r)
        /\ \A r \in Kept(tree, m) : u[MovedUp(m, r)] = tree[r]
        /\ \A r \in kept : /\ Front(r) \in Kept(tree, m) /\ MovedUp(m, r) # <<>>
                           /\ Front(MovedUp(m, r)) = MovedUp(m, Front(r))
        /\ <<>> \in Kept(tree, m) /\ MovedUp(m, <<>>) = <<>>
    BY <1>2, WithoutGroupNodes
  <1>4. <<>> \in DOMAIN u
    BY <1>3
  <1>5. \A s \in DOMAIN u \ {<<>>} : \E r \in kept :
          s = MovedUp(m, r) /\ u[s] = tree[r] /\ u[Front(s)] = tree[Front(r)]
    BY <1>3
  <1>6. GroupIds(u) = K
    <2>1. GroupIds(u) \subseteq K
      BY <1>5 DEF GroupIds
    <2>2. ASSUME NEW r \in kept PROVE tree[r].id \in GroupIds(u)
      <3>1. MovedUp(m, r) \in DOMAIN u \ {<<>>} /\ u[MovedUp(m, r)] = tree[r]
        BY <1>3
      <3> QED BY <3>1 DEF GroupIds
    <2> QED BY <2>1, <2>2
  <1>7. DiskTree(u)
    BY <1>2, WithoutGroupDisk
  <1>8. ids \ sub = K /\ K \subseteq ids /\ \A x \in K : x \notin sub
    BY <1>1
  <1>9. DOMAIN content.groups = ids /\ DOMAIN content.questions = ids
    BY <1>1 DEF IsContent
  <1> HIDE DEF ids, K, sub
  <1>10. /\ c.groups = [x \in K |-> content.groups[x]]
         /\ c.questions = [x \in K |-> content.questions[x]]
    BY <1>8, <1>9 DEF Without
  <1>11. IsContent(c, K)
    BY <1>10 DEF IsContent
  <1>12. ASSUME NEW s \in DOMAIN u \ {<<>>}
         PROVE  Holds(c, u, s, QuestionsIn(u[s].ctx))
    <2>1. PICK r \in kept : u[s] = tree[r] /\ u[Front(s)] = tree[Front(r)]
      BY <1>5
    <2>2. Holds(content, tree, r, QuestionsIn(tree[r].ctx)) /\ tree[r].id \in K
      BY <1>1 DEF K
    <2> HIDE DEF c
    <2>3. /\ c.groups[tree[r].id] = content.groups[tree[r].id]
          /\ c.questions[tree[r].id] = content.questions[tree[r].id]
      BY <1>10, <2>2
    <2> QED BY <2>1, <2>2, <2>3 DEF Holds
  <1> HIDE DEF c
  <1>13. c = ContentOf(u)
    BY <1>4, <1>6, <1>7, <1>11, <1>12, ContentIsOf
  <1> QED BY <1>13 DEF c, u, sub

(* When deleteGroup() returns to the window the content is without the     *)
(* group and those below it; until then it is what it was.                 *)
LEMMA DeleteEndsKeeps ==
  ASSUME Ordinary, BankTyped, BankTyped', Clean, ContentKept, DeleteEnds, Remember
  PROVE  /\ ContentKept' /\ run = "on" /\ run' = "on"
         /\ \/ content' = content /\ refused' = refused
            \/ \E g \in Ids : Abs!DeleteGroup(g)
  <1>1. /\ run = "on" /\ run' = "on" /\ call.frames # <<>>
        /\ top.at \in DOMAIN tree \ {<<>>} /\ tree' = WithoutGroup(tree, top.at)
    BY DeleteEndsShape
  <1>2. FilesOpen' /\ Readable'
    BY <1>1, OpenDeleteEnds DEF ContentKept, BankTyped, BankInv
  <1>3. DeletingContent
    BY <1>1 DEF ContentKept
  <1> DEFINE m == call.frames[1].at
  <1>4. /\ m \in Positions /\ m # <<>> /\ m \in DOMAIN tree
        /\ IsPrefix(m, top.at) /\ TreeTyped(tree) /\ DiskTree(tree) /\ Rows(tree)
    BY <1>1, FirstAndTop
  <1>5. call.frames[1].at = m
    OBVIOUS
  <1> HIDE DEF m
  <1>6. CASE /\ Len(call.frames) = 1 /\ top = call.frames[1]
             /\ call' = NoCall /\ refused' = "none"
    <2>1. tree' = WithoutGroup(tree, m) /\ content' = ContentOf(tree')
      BY <1>1, <1>5, <1>6 DEF Remember
    <2> DEFINE g == tree[m].id
               sub == Abs!Subtree(g)
    <2>2. content' = [groups |-> Without(content.groups, sub),
                      questions |-> Without(content.questions, sub)]
      BY <1>3, <1>4, <1>5, <2>1, DeletedContent
    <2>3. g \in Ids /\ g \in DOMAIN content.groups
      BY <1>3, <1>4, <1>5 DEF DiskTree, DeletingContent
    <2> HIDE DEF g
    <2>4. /\ content'.groups = Abs!Without(content.groups, Abs!Subtree(g))
          /\ content'.questions = Abs!Without(content.questions, Abs!Subtree(g))
      BY <2>2 DEF Abs!Without, Without
    <2>5. Abs!DeleteGroup(g)
      BY <1>1, <1>6, <2>3, <2>4 DEF Abs!DeleteGroup, Abs!Done
    <2>6. call'.frames = <<>>
      BY <1>6 DEF NoCall
    <2> QED BY <1>1, <1>2, <2>1, <2>3, <2>5, <2>6 DEF ContentKept
  <1>7. CASE /\ call'.op = call.op /\ call.op = "deleteGroup" /\ call'.frames # <<>>
             /\ call'.frames[1] = call.frames[1]
             /\ call.frames[1].at \in DOMAIN tree
             /\ Len(call.frames[1].at) < Len(top.at)
    <2>1. call' # NoCall
      BY <1>7 DEF NoCall
    <2>2. content' = content
      BY <2>1 DEF Remember
    <2>3. refused' = refused
      BY <2>1 DEF DeleteEnds, ReturnTrue, Ordinary
    <2> DEFINE q == top.at
               u == tree'
    <2>4. /\ q \in DOMAIN tree \ {<<>>} /\ Len(m) < Len(q) /\ u = WithoutGroup(tree, q)
          /\ IsPrefix(m, q) /\ call'.frames[1].at = m
      BY <1>1, <1>4, <1>5, <1>7
    <2> HIDE DEF q, u
    <2>5. Kept(u, m) = Kept(tree, m) /\ \A r \in Kept(tree, m) : u[r] = tree[r]
      BY <1>4, <2>4, KeptOutside
    <2>6. u[m] = tree[m]
      BY <1>4, <2>4, WithoutGroupDisk
    <2>7. DeletingContent'
      BY <1>3, <1>4, <1>5, <2>2, <2>4, <2>5, <2>6, DeletingKept DEF u
    <2> QED BY <1>1, <1>2, <1>7, <2>2, <2>3, <2>7 DEF ContentKept
  <1> QED BY <1>6, <1>7, DeleteEndsShape

-----------------------------------------------------------------------------
(* The operations that return at once. *)

(* Between operations the content is that of the tree. *)
LEMMA IdleContent ==
  ASSUME BankTyped, Clean, ContentKept, Idle
  PROVE  /\ run = "on" /\ call = NoCall /\ content = ContentOf(tree) /\ FilesOpen /\ Readable
         /\ OnInv /\ TreeTyped(tree) /\ DiskTree(tree) /\ Rows(tree) /\ <<>> \in DOMAIN tree
         /\ IsContent(content, GroupIds(tree)) /\ DOMAIN content.groups = GroupIds(tree)
         /\ DOMAIN content.questions = GroupIds(tree)
         /\ \A p \in DOMAIN tree \ {<<>>} : Holds(content, tree, p, QuestionsIn(tree[p].ctx))
         /\ Readable
  <1>1. /\ run = "on" /\ call = NoCall /\ FilesOpen /\ Readable
        /\ OnInv /\ TreeTyped(tree) /\ DiskTree(tree) /\ Rows(tree) /\ <<>> \in DOMAIN tree
    BY DEF Idle, ContentKept, Clean, OnInv, BankTyped, BankInv, TreeTyped, DiskTree
  <1>2. content = ContentOf(tree)
    BY <1>1 DEF ContentKept, NoCall
  <1>3. /\ IsContent(content, GroupIds(tree))
        /\ \A p \in DOMAIN tree \ {<<>>} : Holds(content, tree, p, QuestionsIn(tree[p].ctx))
    BY <1>1, <1>2, ContentOfDisk
  <1>4. DOMAIN content.groups = GroupIds(tree) /\ DOMAIN content.questions = GroupIds(tree)
    BY <1>3 DEF IsContent
  <1> QED BY <1>1, <1>2, <1>3, <1>4

(* After an operation that returned, the content is remembered anew. *)
LEMMA ReturnedContent ==
  ASSUME run' = "on", call' = NoCall, FilesOpen', BankTyped', Remember
  PROVE  ContentKept' /\ content' = ContentOf(tree')
  <1>1. content' = ContentOf(tree') /\ call'.frames = <<>>
    BY DEF Remember, NoCall
  <1>2. Readable'
    BY DEF BankTyped, BankInv
  <1> QED BY <1>1, <1>2 DEF ContentKept

(* In u the group grp is at q below p, and the rest is as in t. *)
AddedAt(t, p, grp, u, q) ==
  /\ q \notin DOMAIN t /\ q # <<>> /\ Front(q) = p
  /\ DOMAIN u = DOMAIN t \cup {q}
  /\ u[q] = grp /\ \A r \in DOMAIN t : u[r] = t[r]

(* emplace_back() of a group makes a position that was free. *)
LEMMA NewSubgroup ==
  ASSUME NEW t, TreeTyped(t), Rows(t), NEW p \in DOMAIN t, NEW grp,
         NEW u, u = WithSubgroup(t, p, grp)
  PROVE  \E q : AddedAt(t, p, grp, u, q)
  <1> DEFINE q == Append(p, Cardinality(Subgroups(t, p)) + 1)
             v == WithSubgroup(t, p, grp)
  <1>1. /\ q \notin DOMAIN t /\ q # <<>> /\ Front(q) = p
        /\ DOMAIN v = DOMAIN t \cup {q}
        /\ v[q] = grp /\ \A r \in DOMAIN t : v[r] = t[r]
        /\ Rows(v)
    BY RowsGrow
  <1> HIDE DEF q
  <1> QED BY <1>1 DEF AddedAt

(* addGroup() puts a group of a new name into the content, or refuses. *)
LEMMA AddKeeps ==
  ASSUME Ordinary, BankTyped, BankTyped', Clean, Clean', ContentKept, Remember,
         NEW p \in DOMAIN tree, NEW id \in FreshIds, NEW n \in Names,
         AddGroup(tree[p].id, n, id)
  PROVE  /\ ContentKept' /\ run = "on" /\ run' = "on"
         /\ \/ content' = content /\ refused' = "addGroup"
            \/ Abs!AddGroup(tree[p].id, id, n)
  <1>1. /\ run = "on" /\ call = NoCall /\ run' = "on" /\ call' = NoCall
        /\ \/ refused' = "addGroup" /\ tree' = tree
           \/ /\ refused' = "none"
              /\ \A r \in DOMAIN tree : tree[r].id # id /\ tree[r].name # n
              /\ tree' = WithSubgroup(tree, p, Group(n, id, Append(tree[p].path, n)))
    BY AddEffect
  <1>2. FilesOpen'
    BY OpenAdd DEF ContentKept
  <1>3. ContentKept' /\ content' = ContentOf(tree')
    BY <1>1, <1>2, ReturnedContent
  <1>4. /\ content = ContentOf(tree) /\ TreeTyped(tree) /\ DiskTree(tree) /\ Rows(tree)
        /\ <<>> \in DOMAIN tree
        /\ IsContent(content, GroupIds(tree)) /\ DOMAIN content.groups = GroupIds(tree)
        /\ DOMAIN content.questions = GroupIds(tree)
        /\ \A r \in DOMAIN tree \ {<<>>} : Holds(content, tree, r, QuestionsIn(tree[r].ctx))
    BY <1>1, IdleContent DEF Idle
  <1>5. CASE refused' = "addGroup" /\ tree' = tree
    BY <1>1, <1>3, <1>4, <1>5
  <1>6. CASE /\ refused' = "none"
             /\ \A r \in DOMAIN tree : tree[r].id # id /\ tree[r].name # n
             /\ tree' = WithSubgroup(tree, p, Group(n, id, Append(tree[p].path, n)))
    <2> DEFINE u == tree'
               grp == Group(n, id, Append(tree[p].path, n))
               entry == [parent |-> tree[p].id, name |-> n]
               ids == GroupIds(tree)
               c == [groups |-> Abs!With(content.groups, id, entry),
                     questions |-> Abs!With(content.questions, id, <<>>)]
    <2>1. u = WithSubgroup(tree, p, grp)
      BY <1>6
    <2>2. grp.id = id /\ grp.name = n /\ grp.ctx = <<>>
      BY DEF Group
    <2> HIDE DEF grp
    <2>16. PICK q : AddedAt(tree, p, grp, u, q)
      <3> HIDE DEF u
      <3>1. \E q : AddedAt(tree, p, grp, u, q)
        BY <1>4, <2>1, NewSubgroup
      <3> QED BY <3>1
    <2>3. /\ q \notin DOMAIN tree /\ q # <<>> /\ Front(q) = p
          /\ DOMAIN u = DOMAIN tree \cup {q}
          /\ u[q] = grp /\ \A r \in DOMAIN tree : u[r] = tree[r]
      BY <2>16 DEF AddedAt
    <2>4. id \in Ids /\ id \notin ids
      BY <1>6 DEF FreshIds, GroupIds
    <2>5. DiskTree(u) /\ <<>> \in DOMAIN u
      <3>1. OnInv'
        BY <1>1 DEF Clean
      <3> QED BY <1>4, <2>3, <3>1 DEF OnInv
    <2>6. GroupIds(u) = ids \cup {id}
      BY <2>2, <2>3 DEF GroupIds
    <2>7. /\ c.groups = [x \in ids \cup {id} |-> IF x = id THEN entry ELSE content.groups[x]]
          /\ c.questions = [x \in ids \cup {id} |-> IF x = id THEN <<>> ELSE content.questions[x]]
      BY <1>4 DEF Abs!With
    <2>8. IsContent(c, ids \cup {id})
      BY <2>7 DEF IsContent
    <2> HIDE DEF c, ids
    <2>9. ASSUME NEW s \in DOMAIN u \ {<<>>}
          PROVE  Holds(c, u, s, QuestionsIn(u[s].ctx))
      <3>1. CASE s = q
        <4>1. u[s].id = id /\ u[s].name = n /\ u[s].ctx = <<>> /\ u[Front(s)] = tree[p]
          BY <2>2, <2>3, <3>1
        <4>2. c.groups[id] = entry /\ c.questions[id] = <<>>
          BY <2>7
        <4> QED BY <4>1, <4>2, QuestionsOfOneFile DEF Holds
      <3>2. CASE s # q
        <4>1. s \in DOMAIN tree \ {<<>>} /\ u[s] = tree[s]
          BY <2>3, <3>2
        <4>2. Front(s) \in DOMAIN tree /\ u[Front(s)] = tree[Front(s)]
          BY <1>4, <2>3, <4>1 DEF Rows
        <4>3. tree[s].id \in ids /\ tree[s].id # id
          BY <1>6, <4>1 DEF ids, GroupIds
        <4>4. /\ c.groups[tree[s].id] = content.groups[tree[s].id]
              /\ c.questions[tree[s].id] = content.questions[tree[s].id]
          BY <2>7, <4>3
        <4>5. Holds(content, tree, s, QuestionsIn(tree[s].ctx))
          BY <1>4, <4>1
        <4> QED BY <4>1, <4>2, <4>4, <4>5 DEF Holds
      <3> QED BY <3>1, <3>2
    <2>10. content' = c
      <3> HIDE DEF u
      <3>1. c = ContentOf(u)
        BY <2>5, <2>6, <2>8, <2>9, ContentIsOf
      <3> QED BY <1>3, <3>1 DEF u
    <2>11. \A h \in DOMAIN content.groups : content.groups[h].name # n
      <3> SUFFICES ASSUME NEW h \in GroupIds(tree) PROVE content.groups[h].name # n
        BY <1>4
      <3>1. PICK r \in DOMAIN tree \ {<<>>} : h = tree[r].id
        BY DEF GroupIds
      <3>2. Holds(content, tree, r, QuestionsIn(tree[r].ctx))
        BY <1>4
      <3>3. content.groups[h].name = tree[r].name
        BY <3>1, <3>2 DEF Holds
      <3> QED BY <1>6, <3>3
    <2>12. tree[p].id \in DOMAIN content.groups \cup {NoId}
      BY <1>4 DEF DiskTree, GroupIds
    <2>13. id \notin DOMAIN content.groups
      BY <1>4, <2>4 DEF ids
    <2>14. /\ content'.groups = Abs!With(content.groups, id, entry)
           /\ content'.questions = Abs!With(content.questions, id, <<>>)
      BY <2>10 DEF c
    <2>15. Abs!AddGroup(tree[p].id, id, n)
      BY <1>1, <1>6, <2>11, <2>12, <2>13, <2>14 DEF Abs!AddGroup, Abs!Done
    <2> QED BY <1>1, <1>3, <2>15
  <1> QED BY <1>1, <1>5, <1>6

-----------------------------------------------------------------------------
(* The question operations. *)

(* findQustionAnswerContext() finds the group meant, and never the root. *)
LEMMA GroupMeant ==
  ASSUME BankTyped, Clean, Idle, NEW p \in DOMAIN tree
  PROVE  /\ p = <<>> => tree[p].id \notin DOMAIN mapIds
         /\ p # <<>> => /\ tree[p].id \in DOMAIN mapIds
                        /\ Owners(tree[p].id) # {} /\ Firsts(Owners(tree[p].id)) = {p}
  <1>1. run = "on" /\ call = NoCall /\ OnInv
    BY DEF Idle, Clean
  <1>2. p = <<>> => tree[p].id \notin DOMAIN mapIds
    BY <1>1, NamesAssumption DEF OnInv, DiskTree, BankTyped, IdsInv, IdTable
  <1>3. p # <<>> => tree[p].id \in DOMAIN mapIds
    BY <1>1, NoCallClean DEF OnInv
  <1>4. Owners(tree[p].id) = {p} /\ Firsts(Owners(tree[p].id)) = {p}
    BY <1>1, OwnersAlone DEF OnInv, BankTyped, BankInv
  <1>5. {p} # {}
    OBVIOUS
  <1> QED BY <1>2, <1>3, <1>4, <1>5

(* The group at p is given the questions y, and op says no unless ok. *)
Answers(p, y, ok, op) ==
  /\ tree' = [tree EXCEPT ![p].ctx = [OpenedCtx(tree[p]) EXCEPT ![1].items = y]]
  /\ refused' = IF ok THEN "none" ELSE op

(* The four operations ask the group they are called for, and are refused  *)
(* for the root.  addQuestion():                                           *)
LEMMA AddAsked ==
  ASSUME BankTyped, Clean, NEW p \in DOMAIN tree, NEW q, NEW t, AddQuestion(tree[p].id, q, t)
  PROVE  LET f == OpenedCtx(tree[p])[1].items
         IN \/ p = <<>> /\ refused' = "addQuestion" /\ tree' = tree
            \/ p # <<>> /\ Answers(p, With(f, q, t), q \notin DOMAIN f, "addQuestion")
  <1> DEFINE g == tree[p].id
  <1>1. AddQuestion(g, q, t) /\ Idle
    BY DEF AddQuestion, OnQuestions
  <1>2. /\ p = <<>> => g \notin DOMAIN mapIds
        /\ p # <<>> => g \in DOMAIN mapIds /\ Owners(g) # {} /\ Firsts(Owners(g)) = {p}
    BY <1>1, GroupMeant
  <1> HIDE DEF g
  <1>3. CASE p = <<>>
    BY <1>1, <1>2, <1>3 DEF AddQuestion, OnQuestions
  <1>4. CASE p # <<>>
    <2>1. \E x \in Firsts(Owners(g)) :
            LET f == OpenedCtx(tree[x])[1].items
            IN Answers(x, With(f, q, t), q \notin DOMAIN f, "addQuestion")
      BY <1>1, <1>2, <1>4 DEF AddQuestion, OnQuestions, Answers
    <2> QED BY <1>2, <1>4, <2>1
  <1> QED BY <1>3, <1>4

(* deleteQuestion() *)
LEMMA DeleteAsked ==
  ASSUME BankTyped, Clean, NEW p \in DOMAIN tree, NEW q, DeleteQuestion(tree[p].id, q)
  PROVE  LET f == OpenedCtx(tree[p])[1].items
         IN \/ p = <<>> /\ refused' = "deleteQuestion" /\ tree' = tree
            \/ p # <<>> /\ Answers(p, Without(f, {q}), q \in DOMAIN f, "deleteQuestion")
  <1> DEFINE g == tree[p].id
  <1>1. DeleteQuestion(g, q) /\ Idle
    BY DEF DeleteQuestion, OnQuestions
  <1>2. /\ p = <<>> => g \notin DOMAIN mapIds
        /\ p # <<>> => g \in DOMAIN mapIds /\ Owners(g) # {} /\ Firsts(Owners(g)) = {p}
    BY <1>1, GroupMeant
  <1> HIDE DEF g
  <1>3. CASE p = <<>>
    BY <1>1, <1>2, <1>3 DEF DeleteQuestion, OnQuestions
  <1>4. CASE p # <<>>
    <2>1. \E x \in Firsts(Owners(g)) :
            LET f == OpenedCtx(tree[x])[1].items
            IN Answers(x, Without(f, {q}), q \in DOMAIN f, "deleteQuestion")
      BY <1>1, <1>2, <1>4 DEF DeleteQuestion, OnQuestions, Answers
    <2> QED BY <1>2, <1>4, <2>1
  <1> QED BY <1>3, <1>4

(* updateQuestion() *)
LEMMA UpdateAsked ==
  ASSUME BankTyped, Clean, NEW p \in DOMAIN tree, NEW q, NEW t,
         UpdateQuestion(tree[p].id, q, t)
  PROVE  LET f == OpenedCtx(tree[p])[1].items
         IN \/ p = <<>> /\ refused' = "updateQuestion" /\ tree' = tree
            \/ p # <<>> /\ Answers(p, [x \in DOMAIN f |-> IF x = q THEN t ELSE f[x]],
                                   q \in DOMAIN f, "updateQuestion")
  <1> DEFINE g == tree[p].id
  <1>1. UpdateQuestion(g, q, t) /\ Idle
    BY DEF UpdateQuestion, OnQuestions
  <1>2. /\ p = <<>> => g \notin DOMAIN mapIds
        /\ p # <<>> => g \in DOMAIN mapIds /\ Owners(g) # {} /\ Firsts(Owners(g)) = {p}
    BY <1>1, GroupMeant
  <1> HIDE DEF g
  <1>3. CASE p = <<>>
    BY <1>1, <1>2, <1>3 DEF UpdateQuestion, OnQuestions
  <1>4. CASE p # <<>>
    <2>1. \E x \in Firsts(Owners(g)) :
            LET f == OpenedCtx(tree[x])[1].items
            IN Answers(x, [z \in DOMAIN f |-> IF z = q THEN t ELSE f[z]],
                       q \in DOMAIN f, "updateQuestion")
      BY <1>1, <1>2, <1>4 DEF UpdateQuestion, OnQuestions, Answers
    <2> QED BY <1>2, <1>4, <2>1
  <1> QED BY <1>3, <1>4

(* queryQuestion(), which may open the group's file *)
LEMMA QueryAsked ==
  ASSUME BankTyped, Clean, NEW p \in DOMAIN tree, NEW q, QueryQuestion(tree[p].id, q)
  PROVE  LET f == OpenedCtx(tree[p])[1].items
         IN \/ p = <<>> /\ refused' = "queryQuestion" /\ tree' = tree
            \/ p # <<>> /\ Answers(p, f, q \in DOMAIN f, "queryQuestion")
  <1> DEFINE g == tree[p].id
  <1>1. QueryQuestion(g, q) /\ Idle
    BY DEF QueryQuestion, OnQuestions
  <1>2. /\ p = <<>> => g \notin DOMAIN mapIds
        /\ p # <<>> => g \in DOMAIN mapIds /\ Owners(g) # {} /\ Firsts(Owners(g)) = {p}
    BY <1>1, GroupMeant
  <1> HIDE DEF g
  <1>3. CASE p = <<>>
    BY <1>1, <1>2, <1>3 DEF QueryQuestion, OnQuestions
  <1>4. CASE p # <<>>
    <2>1. \E x \in Firsts(Owners(g)) :
            LET f == OpenedCtx(tree[x])[1].items
            IN Answers(x, f, q \in DOMAIN f, "queryQuestion")
      BY <1>1, <1>2, <1>4 DEF QueryQuestion, OnQuestions, Answers
    <2> QED BY <1>2, <1>4, <2>1
  <1> QED BY <1>3, <1>4

(* The content after that: the questions of one group are others. *)
LEMMA QuestionsContent ==
  ASSUME BankTyped, BankTyped', Clean, Clean', ContentKept, Idle, UNCHANGED <<run, call>>, FilesOpen',
         Remember, NEW p \in DOMAIN tree \ {<<>>}, NEW y \in Items, NEW ok, NEW op,
         Answers(p, y, ok, op)
  PROVE  /\ ContentKept' /\ content'.groups = content.groups
         /\ content'.questions = [content.questions EXCEPT ![tree[p].id] = y]
  <1>1. /\ run = "on" /\ call = NoCall /\ OnInv /\ FilesOpen
        /\ DiskTree(tree) /\ Rows(tree) /\ <<>> \in DOMAIN tree
        /\ IsContent(content, GroupIds(tree))
        /\ \A r \in DOMAIN tree \ {<<>>} : Holds(content, tree, r, QuestionsIn(tree[r].ctx))
    BY IdleContent
  <1>2. /\ DOMAIN tree' = DOMAIN tree
        /\ \A s \in DOMAIN tree \ {p} : tree'[s] = tree[s]
        /\ ItemOf(tree'[p]) = [ItemOf(tree[p]) EXCEPT !.questions = y]
    BY <1>1, QuestionsReplaced DEF Answers
  <1>3. ContentKept' /\ content' = ContentOf(tree')
    BY <1>1, ReturnedContent
  <1>4. DiskTree(tree')
    BY <1>1 DEF Clean, OnInv
  <1> DEFINE u == tree'
             g == tree[p].id
             ids == GroupIds(tree)
             c == [groups |-> content.groups, questions |-> [content.questions EXCEPT ![g] = y]]
  <1>5. /\ DOMAIN u = DOMAIN tree /\ DiskTree(u)
        /\ \A s \in DOMAIN tree \ {p} : u[s] = tree[s]
        /\ u[p].name = tree[p].name /\ u[p].id = g /\ QuestionsIn(u[p].ctx) = y
    BY <1>2, <1>4 DEF ItemOf
  <1>6. content' = ContentOf(u)
    BY <1>3
  <1> HIDE DEF u
  <1>7. \A s \in DOMAIN tree : u[s].id = tree[s].id /\ u[s].name = tree[s].name
    BY <1>5
  <1>8. GroupIds(u) = ids
    BY <1>5, <1>7 DEF GroupIds
  <1>9. /\ content.questions = [x \in ids |-> content.questions[x]]
        /\ content.groups = [x \in ids |-> content.groups[x]]
    BY <1>1 DEF IsContent
  <1>10. c.groups = content.groups /\ c.questions = [content.questions EXCEPT ![g] = y]
         /\ c = [groups |-> c.groups, questions |-> c.questions]
    OBVIOUS
  <1> HIDE DEF c, ids
  <1>11. \A x \in ids : c.questions[x] = IF x = g THEN y ELSE content.questions[x]
    BY <1>9, <1>10
  <1>12. IsContent(c, ids)
    <2>1. DOMAIN c.questions = ids
      BY <1>9, <1>10
    <2>2. c.questions = [x \in ids |-> c.questions[x]]
      BY <1>9, <1>10, <2>1
    <2> QED BY <1>9, <1>10, <2>2 DEF IsContent
  <1>13. ASSUME NEW s \in DOMAIN u \ {<<>>} PROVE Holds(c, u, s, QuestionsIn(u[s].ctx))
    <2>1. Front(s) \in DOMAIN tree /\ s \in DOMAIN tree \ {<<>>}
      BY <1>1, <1>5 DEF Rows
    <2>2. Holds(content, tree, s, QuestionsIn(tree[s].ctx)) /\ tree[s].id \in ids
      BY <1>1, <2>1 DEF ids, GroupIds
    <2>3. c.groups[u[s].id] = [parent |-> u[Front(s)].id, name |-> u[s].name]
      BY <1>7, <1>10, <2>1, <2>2 DEF Holds
    <2>4. c.questions[u[s].id] = QuestionsIn(u[s].ctx)
      <3>1. CASE s = p
        BY <1>5, <1>11, <2>2, <3>1
      <3>2. CASE s # p
        <4>1. tree[s].id # g
          BY <1>1, <2>1, <3>2 DEF DiskTree
        <4>2. u[s] = tree[s]
          BY <1>5, <2>1, <3>2
        <4> QED BY <1>11, <2>2, <4>1, <4>2 DEF Holds
      <3> QED BY <3>1, <3>2
    <2> QED BY <2>3, <2>4 DEF Holds
  <1>14. c = ContentOf(u)
    BY <1>1, <1>5, <1>8, <1>12, <1>13, ContentIsOf
  <1> QED BY <1>3, <1>6, <1>10, <1>14

(* What the window shows of a group's questions are those of the content;  *)
(* the root has none.                                                      *)
LEMMA ShownContent ==
  ASSUME BankTyped, Clean, ContentKept, Idle, NEW p \in DOMAIN tree
  PROVE  /\ ShownQids(p) = DOMAIN QuestionsIn(tree[p].ctx)
         /\ p = <<>> => ShownQids(p) = {}
         /\ p # <<>> => /\ tree[p].id \in Ids /\ tree[p].id \in DOMAIN content.groups
                        /\ tree[p].id \in DOMAIN content.questions
                        /\ content.questions[tree[p].id] = OpenedCtx(tree[p])[1].items
                        /\ content.questions[tree[p].id] = QuestionsIn(tree[p].ctx)
                        /\ OpenedCtx(tree[p])[1].items \in Items
  <1>1. /\ run = "on" /\ call = NoCall /\ OnInv /\ FilesOpen
        /\ TreeTyped(tree) /\ DiskTree(tree) /\ DOMAIN content.groups = GroupIds(tree)
        /\ DOMAIN content.questions = GroupIds(tree)
        /\ \A r \in DOMAIN tree \ {<<>>} : Holds(content, tree, r, QuestionsIn(tree[r].ctx))
    BY IdleContent
  <1>2. ShownQids(p) = DOMAIN QuestionsIn(tree[p].ctx)
    BY DEF ShownQids, QuestionsIn
  <1>3. CASE p = <<>>
    <2>1. tree[p].ctx \in Seq(Ctx) /\ Len(tree[p].ctx) \in Nat
      BY <1>1, LenProperties DEF TreeTyped, Node
    <2>2. Len(tree[p].ctx) = 0
      <3> SUFFICES ASSUME Len(tree[p].ctx) # 0 PROVE FALSE
        OBVIOUS
      <3>1. 1 \in 1..Len(tree[p].ctx)
        BY <2>1
      <3>2. tree[p].ctx[1] \in Ctx /\ tree[p].ctx[1].file = <<tree[p].path, NoId>>
        BY <1>1, <1>3, <2>1, <3>1 DEF DiskTree
      <3>3. NoId \in Ids
        BY <3>2 DEF Ctx
      <3> QED BY <3>3, NamesAssumption
    <2>3. tree[p].ctx = <<>>
      BY <2>1, <2>2, EmptySeq
    <2>4. ShownQids(p) = {}
      BY <1>2, <2>3, QuestionsOfOneFile
    <2> QED BY <1>2, <1>3, <2>4
  <1>4. CASE p # <<>>
    <2>1. tree[p].id \in Ids /\ tree[p].id \in GroupIds(tree)
      BY <1>1, <1>4 DEF DiskTree, GroupIds
    <2>2. content.questions[tree[p].id] = QuestionsIn(tree[p].ctx)
      BY <1>1, <1>4 DEF Holds
    <2>3. /\ OpenedCtx(tree[p])[1].items \in Items
          /\ OpenedCtx(tree[p])[1].items = QuestionsIn(tree[p].ctx)
      BY <1>1, <1>4, OpenedQuestions
    <2> QED BY <1>1, <1>2, <1>4, <2>1, <2>2, <2>3
  <1> QED BY <1>3, <1>4

(* The question operations the window asks for. *)
AsksQuestion ==
  \/ \E q \in FreshQids, t \in Texts, p \in DOMAIN tree : AddQuestion(IdAt(p), q, t)
  \/ \E p \in DOMAIN tree : \E q \in ShownQids(p) : DeleteQuestion(IdAt(p), q)
  \/ \E p \in DOMAIN tree : \E q \in ShownQids(p), t \in Texts : UpdateQuestion(IdAt(p), q, t)
  \/ \E p \in DOMAIN tree, q \in Qids : QueryQuestion(IdAt(p), q)

(* Each of them does to the content what it says, or is refused.  The      *)
(* window only deletes and changes questions that are there, which is      *)
(* never refused.                                                          *)
LEMMA QuestionKeeps ==
  ASSUME BankTyped, BankTyped', Clean, Clean', ContentKept, Remember, AsksQuestion
  PROVE  /\ ContentKept' /\ run = "on" /\ run' = "on"
         /\ \/ content' = content /\ refused' \in {"addQuestion", "queryQuestion"}
            \/ \E g \in Ids, q \in Qids, t \in Texts :
                 Abs!AddQuestion(g, q, t) \/ Abs!UpdateQuestion(g, q, t)
            \/ \E g \in Ids, q \in Qids : Abs!DeleteQuestion(g, q) \/ Abs!QueryQuestion(g, q)
  <1>1. Idle /\ UNCHANGED <<run, call>> /\ run = "on" /\ run' = "on" /\ call' = NoCall
    BY DEF AsksQuestion, AddQuestion, DeleteQuestion, UpdateQuestion, QueryQuestion,
           OnQuestions, Idle
  <1>2. FilesOpen'
    <2>1. QuestionCall
      BY DEF AsksQuestion, QuestionCall, FreshQids
    <2> QED BY <2>1, OpenQuestion DEF ContentKept
  <1>3. ContentKept' /\ content' = ContentOf(tree')
    BY <1>1, <1>2, ReturnedContent
  <1>4. content = ContentOf(tree)
    BY <1>1, IdleContent
  <1>5. ASSUME tree' = tree PROVE content' = content
    BY <1>3, <1>4, <1>5
  <1>6. ASSUME NEW p \in DOMAIN tree \ {<<>>}, NEW y \in Items, NEW ok, NEW op,
               Answers(p, y, ok, op)
        PROVE  /\ content'.groups = content.groups
               /\ content'.questions = [content.questions EXCEPT ![tree[p].id] = y]
    BY <1>1, <1>2, <1>6, QuestionsContent
  <1>7. CASE \E q \in FreshQids, t \in Texts, p \in DOMAIN tree : AddQuestion(IdAt(p), q, t)
    <2>1. PICK q \in FreshQids, t \in Texts, p \in DOMAIN tree : AddQuestion(tree[p].id, q, t)
      BY <1>7 DEF IdAt
    <2> DEFINE f == OpenedCtx(tree[p])[1].items
               g == tree[p].id
    <2>2. \/ p = <<>> /\ refused' = "addQuestion" /\ tree' = tree
          \/ p # <<>> /\ Answers(p, With(f, q, t), q \notin DOMAIN f, "addQuestion")
      BY <2>1, AddAsked
    <2>3. CASE p # <<>> /\ Answers(p, With(f, q, t), q \notin DOMAIN f, "addQuestion")
      <3>1. /\ g \in Ids /\ g \in DOMAIN content.groups /\ g \in DOMAIN content.questions
            /\ content.questions[g] = f /\ f \in Items /\ f = QuestionsIn(tree[p].ctx)
        BY <1>1, <2>3, ShownContent
      <3> HIDE DEF f
      <3>2. q \in Qids /\ With(f, q, t) \in Items
        BY <3>1, ItemsProperties DEF FreshQids
      <3>3. \A h \in DOMAIN content.groups : q \notin DOMAIN content.questions[h]
        <4> SUFFICES ASSUME NEW h \in GroupIds(tree) PROVE q \notin DOMAIN content.questions[h]
          BY <1>1, IdleContent
        <4>1. PICK r \in DOMAIN tree \ {<<>>} : h = tree[r].id
          BY DEF GroupIds
        <4>2. DOMAIN content.questions[h] = ShownQids(r)
          BY <1>1, <4>1, ShownContent
        <4>3. \A c \in ToSet(tree[r].ctx) : c \in OpenCtxs(tree)
          BY DEF OpenCtxs
        <4>4. q \notin ShownQids(r)
          BY <4>3 DEF ShownQids, FreshQids
        <4> QED BY <4>2, <4>4
      <3>4. q \notin DOMAIN f
        BY <3>1, <3>3
      <3>5. refused' = "none" /\ With(f, q, t) = Abs!With(f, q, t)
        BY <2>3, <3>4 DEF Answers, With, Abs!With
      <3>6. /\ content'.groups = content.groups
            /\ content'.questions = [content.questions EXCEPT ![g] = Abs!With(f, q, t)]
        <4> DEFINE y == With(f, q, t)
                   ok == q \notin DOMAIN f
        <4>1. Answers(p, y, ok, "addQuestion") /\ y \in Items /\ p \in DOMAIN tree \ {<<>>}
          BY <2>3, <3>2
        <4> HIDE DEF y, ok
        <4>2. content'.groups = content.groups
              /\ content'.questions = [content.questions EXCEPT ![tree[p].id] = y]
          BY <1>6, <4>1
        <4> QED BY <3>5, <4>2 DEF y
      <3>7. content'.questions = [content.questions EXCEPT ![g] = Abs!With(content.questions[g], q, t)]
        BY <3>1, <3>6
      <3>8. Abs!AddQuestion(g, q, t)
        BY <1>1, <3>1, <3>3, <3>5, <3>6, <3>7 DEF Abs!AddQuestion, Abs!Done
      <3> QED BY <1>1, <1>3, <3>1, <3>2, <3>8
    <2> QED BY <1>1, <1>3, <1>5, <2>2, <2>3
  <1>8. CASE \E p \in DOMAIN tree : \E q \in ShownQids(p) : DeleteQuestion(IdAt(p), q)
    <2>1. PICK p \in DOMAIN tree : \E q \in ShownQids(p) : DeleteQuestion(tree[p].id, q)
      BY <1>8 DEF IdAt
    <2>2. PICK q \in ShownQids(p) : DeleteQuestion(tree[p].id, q)
      BY <2>1
    <2> DEFINE f == OpenedCtx(tree[p])[1].items
               g == tree[p].id
    <2>3. /\ p # <<>> /\ g \in Ids /\ g \in DOMAIN content.groups /\ g \in DOMAIN content.questions
          /\ content.questions[g] = f /\ f \in Items /\ q \in DOMAIN f
      BY <1>1, ShownContent
    <2>4. Answers(p, Without(f, {q}), q \in DOMAIN f, "deleteQuestion")
      BY <2>2, <2>3, DeleteAsked
    <2> HIDE DEF f
    <2>5. q \in Qids /\ Without(f, {q}) \in Items
      BY <2>3, ItemsProperties DEF Items
    <2>6. refused' = "none" /\ Without(f, {q}) = Abs!Without(f, {q})
      BY <2>3, <2>4 DEF Answers, Without, Abs!Without
    <2>7. /\ content'.groups = content.groups
          /\ content'.questions = [content.questions EXCEPT ![g] = Abs!Without(f, {q})]
      <3> DEFINE y == Without(f, {q})
                 ok == q \in DOMAIN f
      <3>1. Answers(p, y, ok, "deleteQuestion") /\ y \in Items /\ p \in DOMAIN tree \ {<<>>}
        BY <2>3, <2>4, <2>5
      <3> HIDE DEF y, ok
      <3>2. content'.groups = content.groups
            /\ content'.questions = [content.questions EXCEPT ![tree[p].id] = y]
        BY <1>6, <3>1
      <3> QED BY <2>6, <3>2 DEF y
    <2>8. content'.questions = [content.questions EXCEPT ![g] = Abs!Without(content.questions[g], {q})]
      BY <2>3, <2>7
    <2>9. Abs!DeleteQuestion(g, q)
      BY <1>1, <2>3, <2>6, <2>7, <2>8 DEF Abs!DeleteQuestion, Abs!Done
    <2> QED BY <1>1, <1>3, <2>3, <2>5, <2>9
  <1>9. CASE \E p \in DOMAIN tree : \E q \in ShownQids(p), t \in Texts : UpdateQuestion(IdAt(p), q, t)
    <2>1. PICK p \in DOMAIN tree : \E q \in ShownQids(p), t \in Texts : UpdateQuestion(tree[p].id, q, t)
      BY <1>9 DEF IdAt
    <2>2. PICK q \in ShownQids(p), t \in Texts : UpdateQuestion(tree[p].id, q, t)
      BY <2>1
    <2> DEFINE f == OpenedCtx(tree[p])[1].items
               g == tree[p].id
               Upd(x) == [z \in DOMAIN x |-> IF z = q THEN t ELSE x[z]]
    <2>3. /\ p # <<>> /\ g \in Ids /\ g \in DOMAIN content.groups /\ g \in DOMAIN content.questions
          /\ content.questions[g] = f /\ f \in Items /\ q \in DOMAIN f
      BY <1>1, ShownContent
    <2>4. Answers(p, Upd(f), q \in DOMAIN f, "updateQuestion")
      BY <2>2, <2>3, UpdateAsked
    <2> HIDE DEF f
    <2>5. q \in Qids /\ Upd(f) \in Items
      BY <2>3, ItemsProperties DEF Items
    <2>6. refused' = "none" /\ Upd(f) = [f EXCEPT ![q] = t]
      BY <2>3, <2>4 DEF Answers, Items
    <2>7. /\ content'.groups = content.groups
          /\ content'.questions = [content.questions EXCEPT ![g] = [f EXCEPT ![q] = t]]
      <3> DEFINE y == Upd(f)
                 ok == q \in DOMAIN f
      <3>1. Answers(p, y, ok, "updateQuestion") /\ y \in Items /\ p \in DOMAIN tree \ {<<>>}
        BY <2>3, <2>4, <2>5
      <3> HIDE DEF y, ok
      <3>2. content'.groups = content.groups
            /\ content'.questions = [content.questions EXCEPT ![tree[p].id] = y]
        BY <1>6, <3>1
      <3> QED BY <2>6, <3>2 DEF y
    <2>8. content'.questions = [content.questions EXCEPT ![g] = [content.questions[g] EXCEPT ![q] = t]]
      BY <2>3, <2>7
    <2>9. Abs!UpdateQuestion(g, q, t)
      BY <1>1, <2>3, <2>6, <2>7, <2>8 DEF Abs!UpdateQuestion, Abs!Done
    <2> QED BY <1>1, <1>3, <2>2, <2>3, <2>5, <2>9
  <1>10. CASE \E p \in DOMAIN tree, q \in Qids : QueryQuestion(IdAt(p), q)
    <2>1. PICK p \in DOMAIN tree, q \in Qids : QueryQuestion(tree[p].id, q)
      BY <1>10 DEF IdAt
    <2> DEFINE f == OpenedCtx(tree[p])[1].items
               g == tree[p].id
    <2>2. \/ p = <<>> /\ refused' = "queryQuestion" /\ tree' = tree
          \/ p # <<>> /\ Answers(p, f, q \in DOMAIN f, "queryQuestion")
      BY <2>1, QueryAsked
    <2>3. CASE p # <<>> /\ Answers(p, f, q \in DOMAIN f, "queryQuestion")
      <3>1. /\ g \in Ids /\ g \in DOMAIN content.groups /\ g \in DOMAIN content.questions
            /\ content.questions[g] = f /\ f \in Items
        BY <1>1, <2>3, ShownContent
      <3> HIDE DEF f
      <3>2. /\ content'.groups = content.groups
            /\ content'.questions = [content.questions EXCEPT ![g] = f]
        <4> DEFINE ok == q \in DOMAIN f
        <4>1. Answers(p, f, ok, "queryQuestion") /\ f \in Items /\ p \in DOMAIN tree \ {<<>>}
          BY <2>3, <3>1
        <4> HIDE DEF ok
        <4> QED BY <1>6, <4>1
      <3>3. /\ content = [groups |-> content.groups, questions |-> content.questions]
            /\ content.questions = [h \in GroupIds(tree) |-> content.questions[h]]
        <4>1. IsContent(content, GroupIds(tree))
          BY <1>1, IdleContent
        <4> QED BY <4>1 DEF IsContent
      <3>4. content'.questions = content.questions
        BY <3>1, <3>2, <3>3
      <3>5. content' = [groups |-> content'.groups, questions |-> content'.questions]
        BY <1>3 DEF ContentOf
      <3>6. content' = content
        BY <3>2, <3>3, <3>4, <3>5
      <3>7. CASE q \in DOMAIN f
        <4>1. refused' = "none"
          BY <2>3, <3>7 DEF Answers
        <4>2. Abs!QueryQuestion(g, q)
          BY <1>1, <3>1, <3>6, <3>7, <4>1 DEF Abs!QueryQuestion, Abs!Done
        <4> QED BY <1>1, <1>3, <2>1, <3>1, <4>2
      <3>8. CASE q \notin DOMAIN f
        <4>1. refused' = "queryQuestion"
          BY <2>3, <3>8 DEF Answers
        <4> QED BY <1>1, <1>3, <3>6, <4>1
      <3> QED BY <3>7, <3>8
    <2> QED BY <1>1, <1>3, <1>5, <2>2, <2>3
  <1> QED BY <1>7, <1>8, <1>9, <1>10 DEF AsksQuestion

-----------------------------------------------------------------------------
(* Every step of undisturbed sessions is one of Bank, or changes nothing   *)
(* Bank knows of.                                                          *)

(* The call of deleteGroup() by itself changes nothing of it. *)
LEMMA CallKeeps ==
  ASSUME BankTyped, ContentKept, Remember, NEW pid, NEW id, NEW mayFail,
         DeleteGroup(pid, id, mayFail)
  PROVE  ContentKept' /\ UNCHANGED <<run, refused, content>>
  <1>1. /\ run = "on" /\ run' = "on" /\ call.frames = <<>> /\ call'.frames = <<>>
        /\ call'.op = "deleteGroup" /\ UNCHANGED <<tree, files, idsFile, refused>>
    BY DEF DeleteGroup, Idle, NoCall, disk
  <1>2. content' = content
    BY <1>1 DEF Remember, NoCall
  <1>3. FilesOpen'
    BY OpenDelete DEF ContentKept
  <1>4. Readable'
    BY <1>1 DEF ContentKept, Readable
  <1>5. content' = ContentOf(tree')
    BY <1>1, <1>2 DEF ContentKept
  <1> QED BY <1>1, <1>2, <1>3, <1>4, <1>5 DEF ContentKept

(* Nor does a step that changes nothing of the bank. *)
LEMMA NothingHappens ==
  ASSUME ContentKept, UNCHANGED <<vars, content>>
  PROVE  ContentKept'
  <1>1. UNCHANGED <<run, call, tree, dirs, files, idsFile, content>>
    BY DEF vars, memory, disk
  <1>2. FilesOpen' = FilesOpen /\ Readable' = Readable
    BY <1>1 DEF FilesOpen, Readable, Deleting
  <1>3. DeletingContent' = DeletingContent
    BY <1>1 DEF DeletingContent, Abs!Subtree
  <1>4. ClosingContent' = ClosingContent
    BY <1>1 DEF ClosingContent, SavedQuestions
  <1>5. SavedContent' = SavedContent
    BY <1>1 DEF SavedContent
  <1> QED BY <1>1, <1>2, <1>3, <1>4, <1>5 DEF ContentKept

(* One step, as long as nothing disturbs it. *)
LEMMA UndisturbedStep ==
  ASSUME Ordinary, BankTyped, BankTyped', Clean, Clean', ContentKept,
         UNCHANGED budget, ContentNext
  PROVE  ContentKept' /\ [Abs!Next]_(Abs!vars)
  <1>1. Next /\ Remember
    BY DEF ContentNext
  <1>2. ASSUME UNCHANGED <<run, refused, content>> PROVE UNCHANGED Abs!vars
    BY <1>2 DEF Abs!vars
  <1>3. CASE Start
    <2>1. ContentKept' /\ run' = "on" /\ content' = content
      BY <1>1, <1>3, StartKeeps
    <2>2. run = "off" /\ refused' = "none"
      BY <1>3 DEF Start
    <2>3. Abs!Start
      BY <2>1, <2>2 DEF Abs!Start
    <2> QED BY <2>1, <2>3 DEF Abs!Next
  <1>4. CASE Quit
    <2>1. ContentKept' /\ run = "on" /\ content' = content
      BY <1>1, <1>4, QuitKeeps
    <2>2. run' = "closing" /\ refused' = refused
      BY <1>4 DEF Quit
    <2>3. UNCHANGED Abs!vars
      BY <2>1, <2>2 DEF Abs!vars
    <2> QED BY <2>1, <2>3
  <1>5. CASE Closed
    <2>1. ContentKept' /\ run = "closing" /\ run' = "off" /\ content' = content
      BY <1>1, <1>5, ClosedKeeps
    <2>2. refused' = "none"
      BY <1>5 DEF Closed, Ended
    <2>3. Abs!Quit
      BY <2>1, <2>2 DEF Abs!Quit
    <2> QED BY <2>1, <2>3 DEF Abs!Next
  <1>6. CASE CloseFile
    <2>1. run \in {"on", "closing"} /\ refused' = refused
      BY <1>6 DEF CloseFile, Closing
    <2>2. ContentKept' /\ UNCHANGED <<run, call, content>>
      BY <1>1, <1>6, <2>1, CloseDeletingKeeps, CloseClosingKeeps
    <2> QED BY <1>2, <2>1, <2>2
  <1>7. CASE DeleteTry \/ DeleteTurn
    <2>1. refused' = refused
      BY <1>7 DEF DeleteTry, DeleteTurn, DeleteFrom
    <2>2. ContentKept' /\ UNCHANGED <<run, content>>
      BY <1>1, <1>7, DeleteDownKeeps
    <2> QED BY <1>2, <2>1, <2>2
  <1>8. CASE DeleteEnds
    <2>1. /\ ContentKept' /\ run = "on" /\ run' = "on"
          /\ \/ content' = content /\ refused' = refused
             \/ \E g \in Ids : Abs!DeleteGroup(g)
      BY <1>1, <1>8, DeleteEndsKeeps
    <2> QED BY <1>2, <2>1 DEF Abs!Next
  <1>9. ~DeleteFails /\ ~UpdateTry /\ ~CallFails
    BY CleanImpossible
  <1>10. ~QuitFailed
    BY DEF QuitFailed, ContentKept
  <1>11. ~Killed
    <2>1. ASSUME NEW what \in {"renames", "crashes", "faults"}, Spend(what) PROVE FALSE
      BY <2>1 DEF Spend, BankTyped, IdsInv
    <2> QED BY <2>1 DEF Killed, Crash, CrashInSave, CrashInClose, CrashInRemove
  <1>12. ASSUME NEW pid, NEW id, NEW n, NEW mayFail, UpdateGroup(pid, id, n, mayFail)
         PROVE  FALSE
    <2>1. budget \in [renames : 0..MaxRenames, crashes : 0..MaxCrashes, faults : 0..MaxFaults]
      BY DEF BankTyped, IdsInv
    <2>2. budget.renames \in Nat
      BY <2>1, BankConstants
    <2>3. budget'.renames = budget.renames - 1
      BY <1>12, <2>1 DEF UpdateGroup
    <2> QED BY <2>2, <2>3
  <1>13. CASE \E id \in FreshIds, n \in Names, p \in DOMAIN tree : AddGroup(IdAt(p), n, id)
    <2>1. PICK id \in FreshIds, n \in Names, p \in DOMAIN tree : AddGroup(tree[p].id, n, id)
      BY <1>13 DEF IdAt
    <2>2. /\ ContentKept' /\ run = "on" /\ run' = "on"
          /\ \/ content' = content /\ refused' = "addGroup"
             \/ Abs!AddGroup(tree[p].id, id, n)
      BY <1>1, <2>1, AddKeeps
    <2>3. id \in Ids
      BY DEF FreshIds
    <2>4. tree[p].id \in Ids \cup {NoId}
      BY DEF BankTyped, BankInv, TreeTyped, Node
    <2>5. CASE content' = content /\ refused' = "addGroup"
      <3>1. Abs!Refuse
        BY <2>2, <2>5 DEF Abs!Refuse
      <3> QED BY <2>2, <3>1 DEF Abs!Next
    <2>6. CASE Abs!AddGroup(tree[p].id, id, n)
      BY <2>2, <2>3, <2>4, <2>6 DEF Abs!Next
    <2> QED BY <2>2, <2>5, <2>6
  <1>14. CASE \E p \in DOMAIN tree \ {<<>>}, mayFail \in BOOLEAN :
                DeleteGroup(ParentId(p), IdAt(p), mayFail)
    BY <1>1, <1>2, <1>14, CallKeeps
  <1>15. CASE AsksQuestion
    <2>1. /\ ContentKept' /\ run = "on" /\ run' = "on"
          /\ \/ content' = content /\ refused' \in {"addQuestion", "queryQuestion"}
             \/ \E g \in Ids, q \in Qids, t \in Texts :
                  Abs!AddQuestion(g, q, t) \/ Abs!UpdateQuestion(g, q, t)
             \/ \E g \in Ids, q \in Qids : Abs!DeleteQuestion(g, q) \/ Abs!QueryQuestion(g, q)
      BY <1>1, <1>15, QuestionKeeps
    <2>2. CASE content' = content /\ refused' \in {"addQuestion", "queryQuestion"}
      <3>1. Abs!Refuse
        BY <2>1, <2>2 DEF Abs!Refuse
      <3> QED BY <2>1, <3>1 DEF Abs!Next
    <2> QED BY <2>1, <2>2 DEF Abs!Next
  <1> QED BY <1>1, <1>3, <1>4, <1>5, <1>6, <1>7, <1>8, <1>9, <1>10, <1>11, <1>12, <1>13,
             <1>14, <1>15 DEF Next, GoOn, AsksQuestion

(* The invariant is inductive, and any step that leaves the sessions       *)
(* undisturbed is one of Bank.                                             *)
LEMMA ContentStep ==
  ASSUME Ordinary, BankTyped, CleanInv, ContentInv, [ContentNext]_<<vars, content>>
  PROVE  /\ (BankTyped /\ CleanInv /\ ContentInv)'
         /\ Undisturbed' => [Abs!Next]_(Abs!vars)
  <1>1. [Next]_vars
    BY DEF ContentNext
  <1>2. BankTyped'
    BY <1>1, NextIsStep, BankStep
  <1>3. CleanInv'
    BY <1>1, <1>2, CleanStep
  <1>4. CASE ~Undisturbed'
    BY <1>2, <1>3, <1>4 DEF ContentInv
  <1>5. CASE Undisturbed'
    <2>1. Undisturbed /\ UNCHANGED budget
      BY <1>1, <1>5, NextIsStep, BudgetStep DEF BankTyped
    <2>2. Clean /\ Clean' /\ ContentKept
      BY <1>3, <1>5, <2>1 DEF CleanInv, ContentInv
    <2>3. ContentKept' /\ [Abs!Next]_(Abs!vars)
      <3>1. CASE ContentNext
        BY <1>2, <2>1, <2>2, <3>1, UndisturbedStep
      <3>2. CASE UNCHANGED <<vars, content>>
        <4>1. UNCHANGED Abs!vars
          BY <3>2 DEF vars, Abs!vars
        <4> QED BY <2>2, <3>2, <4>1, NothingHappens
      <3> QED BY <3>1, <3>2
    <2> QED BY <1>2, <1>3, <2>3 DEF ContentInv
  <1> QED BY <1>4, <1>5

(* The program that was never started is a bank without groups. *)
LEMMA ContentBegins == ContentInit => Abs!Init
  BY DEF ContentInit, Init, Abs!Init

(* Until the first rename, kill or deletion that may fail, the bank does   *)
(* what Bank says.                                                         *)
THEOREM BankUntilDisturbed ==
  ASSUME Ordinary
  PROVE  ContentSpec => Abs!Init /\ [][Undisturbed' => [Abs!Next]_(Abs!vars)]_<<vars, content>>
  <1>1. ContentInit => BankTyped /\ CleanInv /\ ContentInv
    BY IdsInit, BankInit, CleanInit, ContentAtFirst DEF ContentInit, BankTyped
  <1>2. BankTyped /\ CleanInv /\ ContentInv /\ [ContentNext]_<<vars, content>>
          => /\ (BankTyped /\ CleanInv /\ ContentInv)'
             /\ Undisturbed' => [Abs!Next]_(Abs!vars)
    BY ContentStep
  <1> QED BY <1>1, <1>2, ContentBegins, PTL DEF ContentSpec

(* A bank of which no group is renamed, and to which nothing happens,      *)
(* implements Bank.                                                        *)
THEOREM BankImplementsBank ==
  ASSUME Ordinary, MaxRenames = 0, MaxCrashes = 0, MaxFaults = 0
  PROVE  ContentSpec => ImplementsBank
  <1>1. ContentInit => BankTyped /\ CleanInv /\ ContentInv
    BY IdsInit, BankInit, CleanInit, ContentAtFirst DEF ContentInit, BankTyped
  <1>2. BankTyped => Undisturbed
    <2>1. BankTyped => budget \in [renames : {0}, crashes : {0}, faults : {0}]
      BY DEF BankTyped, IdsInv
    <2> QED BY <2>1 DEF Undisturbed
  <1>3. BankTyped /\ CleanInv /\ ContentInv /\ [ContentNext]_<<vars, content>>
          => /\ (BankTyped /\ CleanInv /\ ContentInv)'
             /\ Undisturbed' => [Abs!Next]_(Abs!vars)
    BY ContentStep
  <1>4. BankTyped' => Undisturbed'
    BY <1>2, PTL
  <1> QED BY <1>1, <1>3, <1>4, ContentBegins, PTL
          DEF ContentSpec, ImplementsBank, Abs!Spec

(* Bank keeps itself sound (BankProofs), so whatever implements it does. *)
AbsProofs == INSTANCE BankProofs WITH
  RootId <- NoId,
  GroupNames <- Names,
  on <- run \in {"on", "closing"},
  groups <- content.groups,
  questions <- content.questions

(* Bank's inductive invariant, read through the refinement: at first, ... *)
LEMMA SoundFirst == Abs!Init => AbsProofs!BankInv
  <1>1. Abs!Init => AbsProofs!Init
    BY DEF Abs!Init, AbsProofs!Init
  <1> QED BY <1>1, AbsProofs!BankInit

(* ... and after every step of Bank. *)
LEMMA SoundStep ==
  ASSUME AbsProofs!BankInv, [Abs!Next]_(Abs!vars)
  PROVE  AbsProofs!BankInv'
  <1>1. [AbsProofs!Next]_(AbsProofs!vars)
    BY DEF Abs!Next, AbsProofs!Next, Abs!vars, AbsProofs!vars,
           Abs!Start, AbsProofs!Start, Abs!Quit, AbsProofs!Quit, Abs!Done, AbsProofs!Done,
           Abs!AddGroup, AbsProofs!AddGroup, Abs!DeleteGroup, AbsProofs!DeleteGroup,
           Abs!UpdateGroup, AbsProofs!UpdateGroup, Abs!AddQuestion, AbsProofs!AddQuestion,
           Abs!UpdateQuestion, AbsProofs!UpdateQuestion,
           Abs!DeleteQuestion, AbsProofs!DeleteQuestion,
           Abs!QueryQuestion, AbsProofs!QueryQuestion, Abs!Refuse, AbsProofs!Refuse,
           Abs!With, AbsProofs!With, Abs!Without, AbsProofs!Without,
           Abs!Subtree, AbsProofs!Subtree
  <1> QED BY <1>1, AbsProofs!BankStep

(* Until the first disturbance the groups of the program are a tree with   *)
(* one name for each, and no question is in two of them or in one that is  *)
(* gone, in any number of sessions.                                        *)
THEOREM SoundUntilDisturbed ==
  ASSUME Ordinary
  PROVE  ContentSpec => [](Undisturbed => Abs!BankSound)
  <1>1. ContentInit => BankTyped /\ CleanInv /\ ContentInv
    BY IdsInit, BankInit, CleanInit, ContentAtFirst DEF ContentInit, BankTyped
  <1>2. BankTyped /\ CleanInv /\ ContentInv /\ [ContentNext]_<<vars, content>>
          => /\ (BankTyped /\ CleanInv /\ ContentInv)'
             /\ Undisturbed' => Undisturbed /\ [Abs!Next]_(Abs!vars)
    <2> SUFFICES ASSUME BankTyped, CleanInv, ContentInv, [ContentNext]_<<vars, content>>
                 PROVE  /\ (BankTyped /\ CleanInv /\ ContentInv)'
                        /\ Undisturbed' => Undisturbed /\ [Abs!Next]_(Abs!vars)
      OBVIOUS
    <2>1. [Step]_vars
      BY NextIsStep DEF ContentNext
    <2>2. Undisturbed' => Undisturbed
      BY <2>1, BudgetStep DEF BankTyped
    <2> QED BY <2>2, ContentStep
  <1>3. AbsProofs!BankInv /\ [Abs!Next]_(Abs!vars) => AbsProofs!BankInv'
    BY SoundStep
  <1>4. AbsProofs!BankInv => Abs!BankSound
    BY DEF AbsProofs!BankInv, AbsProofs!BankSound, Abs!BankSound,
           AbsProofs!ParentsExist, Abs!ParentsExist, AbsProofs!NamesUnique, Abs!NamesUnique,
           AbsProofs!QuestionsPlaced, Abs!QuestionsPlaced
  <1> QED BY <1>1, <1>2, <1>3, <1>4, ContentBegins, SoundFirst, PTL DEF ContentSpec
=============================================================================
