# A TLA+ model of notebook

notebook is a Qt desktop program (Windows, C++17) that keeps a bank of
questions and answers in a tree of groups. It is a single-threaded, event-driven
program. What makes it hard is not threads but storage: part of what it knows is
written at once (directories), part only at exit (`ids.dat` and the question
files), and the whole is put together again at the next start by matching names.

## 1. Inventory

| Part | State | Operations | What makes it correct |
|---|---|---|---|
| `CQuestionAnswerImpl` (`src/src/question_answer_impl.*`), a store: one file of groups or of questions | `m_strPath`, one repeated field of items (`m_lstGroups` or `m_lstQuestions`), the file | `open`, `close`, add / delete / update of groups and questions, `queryQuestion`, `getGroups`, `getQuestions` | a set keyed by id; `close` then `open` gives it back |
| `CQuestionBankImpl` (`src/src/notebook_impl.*`), the bank | `m_clsQuestionBank` (tree of names, ids, directory paths, open stores), `m_mapIds`, `m_ptrIds` (the store behind `ids.dat`), directories and files | `init`, `uninit`, `addGroup`, `deleteGroup`, `updateGroup`, `addQuestion`, `deleteQuestion`, `updateQuestion`, `queryQuestion` | the tree survives a restart; every operation reaches the group it names and no other; the id tables agree |
| `notebook` (`src/ui/notebook.*`), the main window | the tree of items, the current item, the question and answer boxes, the bank pointer | menu actions, previous / next question, show answer | shows what the bank holds; navigation visits every question and ends |
| `question_dashboard` (`src/ui/question_dashboard.*`) | question and answer text, the ask button | confirm, cancel, ask, the reply and error slots | stores what the user or the model wrote; one request at a time |
| `QwenClient` (`src/ui/qwenclient.*`) | the outstanding reply | `askQuestion`, `onReplyFinished` | one signal for each finished request |
| `group_dashboard` (`src/ui/group_dashboard.*`) | a name | confirm, cancel | no empty name (an input of the bank: any of `Names`) |
| `notebook_format_string` (`src/src/notebook_utils.*`) | none | pure function of the format, its arguments and of whether memory is left | the formatted text, whole; what it gives is that up to 255 characters, and the text without its last character beyond |
| `xn.proto`, `xn.pb.*` | none that outlives a call | parse, serialise | what was written is read back; what was cut off is read back as the first items or refused |
| `main.cpp` | none | starts the event loop | none |

Interactions. The window calls the bank synchronously from its menu slots, with
the ids stored in the selected item and its parent; ids are new uuids (`uid()`).
The bank owns one store for `ids.dat` and, lazily, one for every group that is
asked for questions. The window's constructor calls `init`, its destructor
`uninit`, and nothing is saved in between except that `addGroup`, `deleteGroup`
and `updateGroup` create, remove and rename directories at once. The question
dialog owns a `QwenClient` and is told of the reply by signals.

Hard behaviours: a crash between the immediate and the deferred writes, or inside
one; operations that change memory and then fail on the disk; exceptions nothing
catches; the loop over subgroups that erases from its own vector; cached paths
that a rename makes stale; identification by name at start. `PROJECT.json` lists
them as hazards, each at its line.

## 2. Modules

| Module | Models | Notes |
|---|---|---|
| `ItemStore` | what a store promises | abstract: a set keyed by id, with the file it is saved to |
| `QuestionStore` | `CQuestionAnswerImpl` | the list, `find_if`, swap-with-last removal, `open`, `close`, a crash between calls and one inside `close` |
| `QuestionStoreProofs` | theorems about `QuestionStore` | checked by TLAPS |
| `WireFormat` | the generated messages and the runtime that reads them | bytes of the files; no state |
| `QuestionFile` | `QuestionStore` with its texts | what `open` makes of the file's bytes, whole or cut off; what `err` shows |
| `FormatString` | `notebook_format_string` | a pure function |
| `QuestionFileProofs` | theorems about `QuestionFile`, `WireFormat` and `FormatString` | checked by TLAPS |
| `MCQuestionFile` | | texts, lengths and the buffer for TLC |
| `Bank` | what the window relies on | abstract: uniquely named groups with parents, their questions; a restart changes nothing |
| `BankProofs` | theorems about `Bank` | checked by TLAPS |
| `IdRegistry` | what the bank promises of ids | abstract: `m_mapIds`, `m_ptrIds` and `ids.dat` without the tree and the directories |
| `IdRegistryProofs` | theorems about `IdRegistry` | checked by TLAPS |
| `QuestionBank` | `CQuestionBankImpl` and the directory tree under it | parameters for the build, the names and the bounds; every change of the disk is a step |
| `QuestionBankProofs` | theorems about `QuestionBank` and `Window` | checked by TLAPS |
| `MCQuestionBank` | | name orders and the symmetry of ids for TLC |
| `BankRefinement` | how `QuestionBank` implements `Bank` | EXTENDS `QuestionBank`: a history variable with the groups and questions the window was last told of |
| `BankRefinementProofs` | theorems about `BankRefinement` | checked by TLAPS |
| `MCBankRefinement` | | the constants of `MCQuestionBank` for it |
| `Window` | the editing slots of `notebook` | EXTENDS `QuestionBank`: the window's items next to the bank's tree |
| `MCWindow` | | name order and symmetry for TLC |
| `TreeNavigation` | the reading slots of `notebook` | previous, next, show answer; one turn of the search loop is a step |
| `TreeEditing` | reading and editing slots together | EXTENDS `TreeNavigation`: the tree changes between walks, under the boxes |
| `TreeEditingProofs` | theorems about `TreeNavigation` and `TreeEditing` | checked by TLAPS |
| `QuestionDialog` | `question_dashboard`, `QwenClient` and the slots that open the dialog | requests answered while the user goes on |
| `QuestionDialogProofs` | theorems about `QuestionDialog` | checked by TLAPS |

### QuestionStore

`lst` is the repeated field the object's `flag` selects; the other one stays
empty. `AddItem`, `DeleteItem` and `UpdateItem` are the code `addGroup` /
`addQuestion` and their like share; the named actions choose the kind of item.
An object lives from `open` to `close` because the bank drops its pointer right
after `close`. `CrashInClose` is the death of the process between the truncation
of the file by `std::ofstream` and the last byte: the file then parses to a
prefix of the list, or does not parse. A failed `open` leaves no object.

### WireFormat and QuestionFile

`WireFormat` has the bytes of a file as the generated `_InternalSerialize` functions write
them: for each item a tag, a length and the item's fields, each a tag, a length and the
text, in the order of the field numbers, an empty string left out. The path of a group
(field 2) is never set by the program. Since every tag is one byte that holds the field's
number and the type LEN, the number stands for it. A length is a varint in base
`VarintBase`, 128 in the program and a parameter here so that lengths of two bytes occur
with short texts. The reading side is what the generated tables make the runtime do: fields one after the
other, the last occurrence of a field counts, a length that goes past the end fails
the parse, a string that is not UTF-8 fails it (`ReadStrings`: the tables ask for the strict verification), and so does
an item that fails. What passes for UTF-8 is the runtime's business and a parameter, `IsUtf8`. The writer
verifies as well but writes the string whatever the result: a text that is not UTF-8 would be saved and make its whole
file unreadable. No text of the program is one: those of the window come from `QString::toUtf8`, directory names from
`u8string`, ids from `QUuid` (`Utf8TextsAssumption`). An unknown field cannot occur in what
the program wrote.

`QuestionFile` puts them under the store: `ReadBack` is what `open` finds in given
bytes and `Written` the beginnings of what `close` writes. `QuestionStore` and
`QuestionBank` say that a file cut off in the middle is a prefix of the items or
`Corrupt`; `TornFilesRead` is the reason why they may.

### FormatString

`FormatString` is the function, with both calls of `vsnprintf`, the size each of them is
given and the failed allocation. The text is what the format expands to. What the user
gets to see of it, through `err()` and a C string, is `Shows`. `ErrorTextShown` says exactly what
comes out: the text with less than 256 characters, its last character
missing from there on, 255 characters of it without memory. `ErrorTextsShown` in `QuestionFile`
is about the text of a call that the store refused for its id.

### IdRegistry

The three places ids are kept in, and nothing else. `Register` requires an id and a name that
`m_mapIds` does not have and adds both to both tables; `Unregister` takes any
set of ids out of both, which is a deletion, however far it got; `Rename` changes a name in the
list only; `Save` writes `ids.dat` from the list and `Die` leaves the old file, the new
one or a part of the new one. `QuestionBank` implements it
(`ImplementsRegistry`), with `renamed` true once its budget of renames is touched.

### QuestionBank

* `tree` is `m_clsQuestionBank`: records of name, id, path and open files. A group
  is addressed by its position, the sequence of indices that leads to it from the
  root; `Before` is the order in which the recursive functions of the code visit
  positions, and `Firsts` what a loop that stops at its first hit finds.
* `mapIds` is `m_mapIds`. `lst` is `m_ptrIds` and every open file is
  `[file, items]`: the stores are functions from id to value here, which
  `StoreRefinesItemStore` justifies.
* `dirs`, `files` and `idsFile` are the disk. A path is a sequence of names that
  starts with the bank's directory; a question file is named by its directory
  and its group's id, as `findQustionAnswerContext` does.
* `call` is the `deleteGroup` or `updateGroup` that is under way: its arguments,
  the groups `ctrlGroup` has still to try (`todo`), and the private `deleteGroup`
  calls inside each other (`frames`), each with the group it deletes and the turn
  of its loop. These two operations change the disk several times, and each change
  is a step, between which the process may be killed; nothing else runs, as the program has
  one thread. The other operations change the disk once or not at all and are
  single steps.
* A deletion is `DeleteGroup`, then `DeleteTry` (a group of `Tried` looks for the
  id among its subgroups, and the id is taken out of both tables whether it is
  found there or not), `CloseFile` for each open file of the group found, one
  `DeleteTurn` for each subgroup counted at the start, which goes down into the
  subgroup in its slot, and `DeleteEnds`, where `remove_all` and `erase` take the
  group away and the caller goes on. The loop runs over a vector that is erased from: a turn reads
  the slot of its number in what is left. In a Release build a slot past the end
  holds a moved-from string, which is empty; in a Debug build (`CheckedIterators`)
  the increment after an erase aborts the process. `DeleteFails` is `remove_all`
  throwing because another program holds a directory (`RemovePart`: early or
  late), `CallFails` the false that is returned when no group is left to be tried.
* A rename is `UpdateGroup` and `UpdateTry`: the list and the name in the tree
  change before `rename()` of the directory, which may fail.
* `create_directory` on a bad name or a missing parent throws outside any try, so
  `AddGroupTo` ends with the process.
* `Start` is `init`: `Entries` is what `recursive_directory_iterator` yields,
  `NextEntry` its order, and `Place` is `initQuestionBank`, which finds a parent by name. If several ids have
  one name the loop over the unordered map may take any (`Picks`). A file that does not
  parse makes the start fail; the disk is left as it is.
* `Quit` is the first half of `uninit`, which writes `ids.dat`; `CloseFile` then
  writes or removes the question files one by one, in the order of the tree, and
  `Closed` ends the session. `CrashInSave` and `CrashInClose` tear the file that is being
  written, `CrashInRemove` stops a `remove_all`, `Crash` is a kill between two changes.
* The ids in calls come from the tree: for the group at a position the window
  passes its id and its parent's, the empty id for the root. New ids are taken
  from those that left no trace, as a new uuid would be.

### BankRefinement

The groups and questions of `Bank` are those of `tree` whenever the window may call the bank. While a
deletion or `uninit` takes its steps, and between the sessions, they are what they were last, which `content` remembers: a
deletion that takes ten steps is one of `Bank`, at its end, and a start has to bring back what the last session had.
`content` is set anew after each step that leaves a session on and no call under way, the start among them, and changes nothing else.

### Window

`items` is the tree under `m_ptrQuestion`: names, ids, texts. `Show` is the
constructor, which builds it from the bank once (`ItemsOf`; `QuestionsIn` are the
questions of a group's files). A click is the bank's action with the ids of the
selected item and of its parent, followed by `Mirror`: the same change to the
items if the bank returned true. A deletion or a rename takes several steps of
the bank (`Work`), during which `picked` is the item that was selected; the last
of them is followed by `Mirror`. So after a failure, or a
call that reached another group, `items` and `tree` differ and the calls that
follow are made with what the items say, ids the bank has dropped included.
`Way` names a place by the ids on the way to it, so that the two
trees can be compared whatever the order in them. `Leave` stands for every end of a
session; an editing click in a window without a bank dereferences a null
pointer and is one of them.

### TreeNavigation

Items are numbered in the order the tree shows them; `up` and `isGroup` are any tree with
that numbering (`WellFormed`), so the nearest question before or after an item is
the one with the nearest number. `walk` holds the locals of
`findTreeWidgetItem`: the item, `val` ("last", "same", "next" for -1, 0, 1)
and the direction. `Climb` is the turn that goes to the parent,
`Enter` the one that goes to a sibling and does with it what `Visit` says,
`NotFound` the return of `nullptr`. Nothing else happens while a walk is on.

The loop looks at siblings, and at children only of a group it comes to, not of the one it starts from. So the two
buttons do not do the same for every item. From a question, and going back from a group, they lead to the nearest question in the order
shown (`FindsNeighbour`). The next button on a group passes the questions in it (`PassesGroup`), and on the top-level item it
says that the last one is reached, which `NavigationGroup.cfg` shows. `KeepsTarget` is about the turns
in between and relative to what the walk heads for when it starts (`Beyond`).

### TreeEditing

The menu slots that add, remove and change items, as the boxes and the walk see them. Since an item is its
number, an edit renumbers what follows it, in the boxes too; `Gone` stands for a text that was in
a box and is no item's any more. An added item is the current group's last child.
Removal takes the item with all below it, and Qt makes a sibling or the parent
current, whichever it likes. Edits happen between walks, as a walk is one call on the only thread.
`strayed` is a history variable: since the boxes were last filled together the current
item was moved without a click, removed or modified. It is what
`AnswerFollows` needs to say when the answer shown is that of the question shown, and `NavigationAnswer.cfg` shows
that it is not when the current item strayed.

### QuestionDialog

`phase`, the two texts, the ask button, the requests that are outstanding and the
stack of message boxes. A box is modal, but replies arrive while it is open, so
`OnReplyFinished` needs no closed box, while `Ask`, `Confirm`, `Cancel` and typing do. A
text in the answer box is told apart by its source: nobody, the user, the waiting
text, a reply (and to which question), an error. `Destroy` is the end of the dialog
on the window's stack, which takes the client and its requests with it; when the
bank refuses to store what was confirmed, that happens only after the window's
message box is closed (phase "refused"). `item` is what the bank has
of the question edited last; opening it again gives its texts back. `edited` is a
history variable: the question in the box was changed after it was asked.

## 3. Runs

| Run | Shows | Bounds |
|---|---|---|
| `question_store` | one store implements `ItemStore`; `UniqueIds`; `TornFilesRead`: each list it ever holds, written and cut off after any byte, reads back as `CrashInClose` says; `ErrorTextsShown`: the error text of a refused call is shown | 3 ids, 2 group names, 1 question, 1 answer, as byte sequences; lengths in base 8; a buffer of 4 characters and error texts of 2 to 7 |
| `bank_clean` | `QuestionBank` implements `Bank` (`ImplementsBank`), every group shown is registered under its own name | 3 ids, 3 names, 1 question, 2 texts; no rename, crash or fault |
| `bank_crash` | `FilesKnownThroughCrash`: until the first crash, and through it, `ids.dat` names the group of every question file, unless the kill comes during a deletion or while `ids.dat` is written; `UnreadableStays`: a file that does not parse is never written over by a start or by the window's end; `ImplementsRegistry` | 2 ids, 2 names, 1 question, 1 crash at any point, in the middle of a file or a removal included |
| `bank_faults` | `IdsInSync`: `m_mapIds` and `m_ptrIds` hold the same ids and, until a rename, the same names, each once; `ImplementsRegistry`: they and `ids.dat` change only as `IdRegistry` does | Debug build, 2 ids, 3 names (one that no directory can have), 1 rename, 1 locked directory, any number of aborts |
| `navigation` | `FindsNeighbour`: from a question, and going back from a group, the nearest question in the order shown is found; `PassesGroup`: the next button on a group finds the nearest one after the whole group; `KeepsTarget`: no turn on the way passes one; `WalkEnds`: the loop ends unless a group begins (ends, going back) with an empty group; `AnswerFollows`: the answer shown stays with its question | all trees of up to 6 items, edited between the walks without bound |
| `question_dialog` | `OneRequest`, `ReplyReachesAsker`, `AsksAgain`; `AnswersQuestion`: a reply in the answer box is to what was asked last, and to the question in the box unless that was edited; `WaitingTextEnds`: no end of a request leaves the waiting text behind | 2 questions, a blank and an empty text |
| `window_faults` | `ShowsBank`: items and bank are the same until a failure; `NothingHidden`: no click hides a part of the bank | 2 ids, 2 names, 1 question, 1 locked directory |
| `window_mishaps` | `NothingHidden` with stale paths, ids that are lost, refused calls, aborts, torn files and failed starts | 1 id, 3 names, 2 questions, 2 texts; 1 rename, 1 locked directory and 1 crash in any order |

Sessions are not bounded in any of those about the bank. Three ids allow a group with two
subgroups, the smallest tree on which the deletion loop skips one, and a chain
of three; three names let every group have its own. Two ids are enough for a
group below another and for two siblings. One question is enough to lose one:
stores with several are the business of `question_store`. Two texts distinguish
an update from none. A list of three is the shortest in which the swapped item is
neither the removed one nor its neighbour. In its bytes there are lengths of one and of two bytes, and
texts with bytes that are also tags, lengths and continuation bytes, of characters of one byte and of two (`MCIsUtf8` is UTF-8 scaled down
like the lengths); every beginning is tried. The error
texts are shorter than the buffer, as long as it, and longer. `SYMMETRY` permutes group ids, which the
bank only ever compares; the runs with fairness use no symmetry. The
constants `MaxRenames`, `MaxCrashes`, `MaxFaults` and, for the size of a tree, `MaxItems`
are the only bounds inside the models.

Six items hold an item to start from, a question to find and groups in between that are
nested three deep, empty, or both, on either side: five items already show the
loop that does not end. The edits of `TreeEditing` lead from any of these trees to any
other. Two questions are what it takes for a reply to one to come
when the other has been typed. With the
window a rename, a half deletion and a crash together are too many states for two
ids: `window_faults` has two ids and the half deletion, `window_mishaps` all three and one id, besides
which there are only groups that lost theirs. As `NothingHidden` speaks of windows in which every group has an id of its own,
what `window_mishaps` checks is one group and what is left of it. `WindowCrashes.cfg` and `WindowRenames.cfg`, to be run by hand, have two ids
with one crash and with one rename; `NothingHidden` holds there too.

`NothingHidden` asks two things of the state before the click. Every group the window shows has an id of its own:
without that a click can go elsewhere, which
`window_adds_elsewhere` and `BankCrashIds.cfg` show. And no group has two files with one question (`NoCopies`). Such a
copy takes three renames and four ids, more than the runs have: a session renames a group's directory away, gives its name
and that of the subgroup to others, and saves a question file of the subgroup under the old path; the next start opens it and the one
that went with the rename in the first group of that name. Then the window lists the question twice under one id, and `items`, which
has one text for an id, would seem to lose the other when the first file is closed.

What the passing runs say about orders nobody writes a test for: the swap-remove
never deletes the wrong question or brings back an old one; a session that only
adds and deletes groups and edits questions is saved whole, through any number of
restarts; the order `ids.dat` first, questions second is what keeps saved questions
editable when a shutdown is interrupted.

Runs that show a disagreement between the code and what it says of itself:

| Run | Trace |
|---|---|
| `rename_loses_questions` | add a group, rename it, add a question: the file's directory no longer exists, `close` does not notice |
| `delete_leaks_id` | delete a group with two subgroups: the second one's id and name stay registered |
| `navigation_hangs` | next, before a group whose first child is an empty group: the loop chooses that child for ever |
| `window_adds_elsewhere` | add a group; die; restart; add a subgroup to it: the window shows it there, the bank has it under the root |

Seven more properties fail in the same way. They are stated in the modules with the
words of the code they come from, and each has a configuration to run by hand:

| Configuration | Property | Trace |
|---|---|---|
| `BankRenameNames.cfg` | `GroupNamesUnique` | rename a group to its sibling's name: false is returned, the tree and the list behind `ids.dat` have changed |
| `BankCrashIds.cfg` | `GroupIdsUnique` | add A; die; add B, and A below B; restart: two groups have one id |
| `BankRootName.cfg` | `RoundTrip` | a subgroup of a group called QuestionBank moves to the root at the next start |
| `BankLocked.cfg` | `GroupsRegistered` | a deletion that fails on a locked directory has already unregistered the group |
| `NavigationGroup.cfg` | `SaysEndAtEnd` | select the top-level item, press next: "this was the last one" (`src/ui/notebook.cpp:113`), with all questions below it; the same on a last group, whose questions are passed |
| `NavigationAnswer.cfg` | `AnswerBelongs` | show a question, move the current item with the keyboard, show the answer: it answers the other question |
| `QuestionDialogWaiting.cfg` | `StoresAnswers` | ask, confirm before the reply: the waiting text is stored as the answer |

## 4. Proofs

`QuestionStoreProofs` proves, for every set of ids, names and texts and lists of any length:

* `TypeCorrect`: `Spec => []TypeOK`;
* `IdsStayUnique`: `Spec => []UniqueIds`;
* `StoreRefinesItemStore`: `Spec => Abs!Spec`, the refinement of `ItemStore`.

There are no assumptions on the constants. The inductive invariant is
`TypeOK /\ UniqueIds`: neither is enough alone, since `find_if` returns the only item of an
id only in a list without repeats, and the list operations yield such a list only
from one. The lemmas on the list (`SwapRemoveElems`, `ReplaceElems`,
`AppendElems`, `PrefixElems`) say what each change makes of the set the
list stands for; `AddItemList`, `DeleteItemList` and `UpdateItemList` lift them to
the three shared operations, and each action follows from one of these.

`TreeEditingProofs` proves, for trees of every size and depth (`MaxItems` is only
assumed to be a positive number):

* `TypeCorrect`: `Spec => []TypeOK`;
* `WalkKeepsTarget`: `Spec => []KeepsTarget`;
* `FindsNearestQuestion`: `Spec => FindsNeighbour`.

The inductive invariant is `TypeOK /\ KeepsTarget`: the questions still ahead of the walk are
those that were beyond the item it started from. `KeepsTarget` is what makes the
last step the right one, and it needs the numbering in `TypeOK`. The lemmas are about
that numbering: what is inside a subtree is an interval, subtrees nest or
are apart, and what is beyond an item without a sibling on that side is what is
beyond its parent. `BeyondInOrder` takes the result from there to the order shown: nothing is inside a question, so that what the walk
heads for is all that is shown on that side, unless next is pressed on a group. That the walk ends is liveness and left to TLC.

It proves the same of `EditSpec`, where the tree changes between walks:

* `EditsKeepTree`: `EditSpec => []TypeOK`;
* `EditsKeepTarget`: `EditSpec => []KeepsTarget`;
* `EditsKeepNeighbour`: `EditSpec => FindsNeighbour`;
* `EditsPassGroup`: `EditSpec => PassesGroup`;
* `AnswerFollowsQuestion`: `EditSpec => []AnswerFollows`.

The hard half is `TypeOK`: that the renumbered tree is again a tree in the order
shown. `TreeSpelt` puts `WellFormed` in terms of `up` alone, `TreeBuilt` builds a tree from such
a description, and `RunFacts` says that what an item consists of is a run of numbers, which an
insertion shifts and a removal closes. The inductive invariant adds
to `TypeOK /\ KeepsTarget` that no walk is on between calls but `NoWalk`, and that the
question shown is the current item unless `strayed`; `AnswerFollows` is not
inductive without that, as the answer button takes the current item's answer.

`QuestionDialogProofs` proves, for any questions and two different texts `Empty` and `Blank` that
are not questions (`TextsAssumption`):

* `TypeCorrect`: `Spec => []TypeOK`;
* `AtMostOneRequest`: `Spec => []OneRequest`;
* `RepliesReachAskers`: `Spec => ReplyReachesAsker`;
* `RepliesAnswerQuestion`: `Spec => []AnswersQuestion`;
* `WaitingTextNotKept`: `Spec => WaitingTextEnds`.

The inductive invariant is `TypeOK /\ OneRequest /\ OwnsRequests /\ AnswersQuestion`. `OwnsRequests`
says that requests exist only while the dialog does and are among those it asked:
without it a request could outlive its dialog, and `OneRequest`, which speaks of a dialog that
exists, would not exclude it.

`QuestionFileProofs` proves `ErrorTextsAreShown`, that is `ErrorTextShown` for every text without NUL (the
expansion of `%s` has none) and every size of the buffer, and from it and the store's `TypeCorrect`

* `RefusalsAreShown`: `Spec => []ErrorTextsShown`;
* `TornFilesAreRead`: `Spec => []TornFilesRead`.

It assumes a positive size (`BuffAssumption`), ids and formats that are texts without NUL (`IdsAssumption`,
`FormatsAssumption`), ids, names, questions and answers that are bytes (`TextsAssumption`) which the runtime takes for UTF-8
(`Utf8TextsAssumption`), that it takes the empty text for UTF-8 (`Utf8Assumption`) and nothing else of what it takes, and a base of the
varints of at least 2 (`VarintBaseAssumption`).

`TornFilesAreRead` is about bytes and needs nothing of the store but its type. The reader and the writer are recursive
functions; what they do for every input is shown by induction on sets of numbers (`NatSets`, which is proved from the
well-foundedness of strict inclusion of finite sets). The argument goes up from the bytes:
a length ends with its only byte below the base, so that reading it stops where writing did and returns the number
(`VarintShape`, `ValueOfDigits`, `VarintReads`); hence a field that stands in the file, as far as the file goes, is read
as that field or, when the bytes end within it, fails the parse (`FieldReads`). Going back from the cut, the first `n` bytes of a
list of fields read as the first `j` fields if these have `n` bytes together, and not at all otherwise (`CutReads`).
That a field takes at least two bytes (`BytesShape`) makes `j` unique and a corrupt file possible as soon as there is an item.
The same reader finds the four texts of a question whatever they hold, those left out because they are empty among them
(`SaysMore`, `FourFields`), and verifies no others (`TextsVerified`).

`IdRegistryProofs` proves, for any ids and names:

* `RegistryStaysInSync`: `Spec => []RegistryInSync`;
* `SavedIdsWereRegistered`: `Spec => SavedIdsRegistered`.

The inductive invariant `RegistryInv` adds types, and that both tables are empty while no
session is on: without the latter a start would not bring them together.

`BankProofs` proves `BankStaysSound`: `Spec => []BankSound` of the abstract `Bank`: every group's parent
exists, names are unique, and each question is in one existing group. `SubtreeClosed` is
the lemma that matters: a deletion takes with a group all that is below it, so that no
parent is lost.

`QuestionBankProofs` is about `QuestionBank` and `Window`, for any ids, names, questions and texts, any order of
the names and any bounds. It works up to four results, each resting on the one before.

*The registry.* `BankImplementsRegistry` and `WindowImplementsRegistry`: `Spec` and `WinSpec` imply
`ImplementsRegistry`, and with it (`BankIdsInSync`, `WindowIdsInSync`) `[]IdsInSync`. A click of the window calls
the bank with whatever its items say; `Step` is `Next` with arbitrary ids in the calls, and each fact is proved of
`Step` once and holds for both specifications. The invariant this needs is `IdsInv`: types of the tables, and that they
and the call are empty while no session is on.

*The shape.* `BankTypeCorrect`, `WindowTypeCorrect`: `[]TypeOK`. `UnreadableFilesStay` and
`WindowUnreadableFilesStay`: `UnreadableStays`. `TypeOK` is not inductive: that the groups of the `frames` are in
the tree after one is erased holds because the innermost lies deepest, so that erasing it moves none of the others, and
that the tree's rows have no gaps; that directories have parents after a partial removal, because paths are paths.
`BankTyped`, that is `IdsInv /\ BankInv`, says so. Most of the work is `init`: `LoadIsComplete` is a theorem about
any disk whose directories have parents, names repeated or not: each directory becomes one group with its name, each file is opened once, in a group
that has its directory's name. `Load` is a recursive function over the entries; the induction over its
turns is done on the set of numbers at which it holds (`NatSets`).

*Undisturbed sessions.* A rename, a kill and a deletion that fails leave the tree, the disk and the id tables apart, and
from then on the properties below are false, as `BankRename.cfg`, `BankRenameNames.cfg`, `BankCrashIds.cfg`
and `BankLocked.cfg` show. What holds until the first of them (`Undisturbed`: the budget is untouched), through any
number of sessions, is

* `UndisturbedGroupsRegistered`: `GroupsRegistered`;
* `UndisturbedBank`: `GroupIdsUnique`, `GroupNamesUnique` and `OpenFilesSavable`;
* `FilesStayKnown`: `FilesKnownThroughCrash`, where the kill is part of the step the property is about. It speaks of crashes only,
  so the theorem assumes the two other bounds to be 0, as `bank_crash` does.

The inductive invariant is `BankTyped /\ CleanInv`. While a session is on, `CleanInv` says that the tree is the tree of
directories, path by path (`DiskTree`), that no two directories have one name, wherever they are, that no
name has two ids, that groups are registered and question files known to both tables; between sessions, that
`ids.dat` alone knows all that; in `uninit`, that it already does. A deletion breaks all of this for a while, but only at and below the
group the user deletes, the first frame: hence `Deleting` and `BeingDeleted`. Unique names are what makes
`initQuestionBank` find the parent a directory is really in (`LoadDisk`), and they come from the tables: `addGroup` refuses a name that is
registered, even one that `deleteGroup` leaked. The theorems assume
`Ordinary`: a Release build, directory names the file system takes, and no group called like the bank's own directory. Without
the first two an operation aborts the process, which leaves what a kill leaves without spending its budget; without the third
`BankRootName.cfg` shows what happens.

*The window.* `WindowShowsBank`: `[]ShowsBank`. `UndisturbedWindow`: what `UndisturbedBank` and
`UndisturbedGroupsRegistered` say holds of the bank below the window too. The invariant adds `MirrorInv`: every question file is open in its group
(`FilesOpen`; a group without an open file has none on disk), and the items are the groups, with their questions, or during a deletion
what the two trees have in common outside of it (`Mirrored`). This is stronger than `ShowsBank`, which compares places and names and not
positions: the window removes its item by position. With it the ids the window calls with exist, so that its step is one of `Next`
(`WinStepIsNext`), and `CleanInv`, which is false of `Step`, is preserved. `FilesOpen` is needed because a question
operation opens a file that is not open and would bring back questions the window does not show.

`WindowCoversBank`: `[](Undisturbed => Covers)`, also where `ShowsBank` says nothing: in the middle of a deletion, which has
already closed files and erased subgroups when the items still show them, and while `uninit` closes the files. The invariant adds
`CoversInv`. Each step either leaves a window that shows the whole tree (`SeenWhole`, from `Mirrored`), or leaves the
items alone and no more of the tree than there was: a group keeps its place when another one is erased, though its position changes
(`WithoutGroupWays`), and a closed file, the only one of its group (`OneFileEach`), takes its questions along
(`CloseFileHidesNothing`, `EraseHidesNothing`). `WindowHidesNothing`: `NothingHidden`, when the three bounds are 0.

`BankRefinementProofs` proves that `QuestionBank` implements `Bank`, again for any ids, names, questions and texts, and
any order of the names:

* `BankImplementsBank`: `ContentSpec => ImplementsBank`, when the three bounds are 0, as in `bank_clean`;
* `BankUntilDisturbed`: for any bounds, `Bank`'s `Init`, and every step after which nothing has disturbed the
  sessions yet is a step of `Bank` or a stutter;
* `SoundUntilDisturbed`: `BankSound` holds until then, by `BankProofs`: in particular no question is in two groups.

All three assume `Ordinary`. `ImplementsBank` is false once a group is renamed, a process killed or a removal stopped half way, as the
runs above show, so the bounds of the first theorem are not an abstraction: they are the sessions the contract is about.
The invariant is `ContentInv`, with `BankTyped` and `CleanInv`. It says where `content` is while the window does not call
the bank. During a deletion (`DeletingContent`) it is in the groups outside the one the user named, which is the first frame, and
what is missing there is exactly what `Bank` calls the subtree (`SubtreeFound`: the least set closed under children is what lies below
the position, by induction on the depth), so that the last step, which erases that group, is `Bank`'s removal of the
subtree, and no step before it is anything. In `uninit` (`ClosingContent`) a group's questions are in memory or, once its file
is closed, on the disk, an emptied list being no file. Between the sessions (`SavedContent`) every load gives it
back, whatever id the loop over the map picks and whether files are listed before directories: two trees `init` may build from one disk
have the same groups (`SameDisk`), since there paths, names and ids determine each other, and each opens a group's file if it has one
(`LoadedOpen`). A start is then a step of `Bank` that changes nothing but `on`. The proof for the question operations rests on
`FilesOpen`: without it the file such an operation opens could bring back questions the window was never told of.

Each of these inductive invariants was an invariant of a TLC run before it was proved.

`Bank` and `IdRegistry` are contracts: that they have their properties, and that `QuestionBank` implements them, is proved for
every value of the constants.

Only model-checked: `NothingHidden` after the first rename, kill or failure, where none of the invariants above holds, so
that it is checked there within the bounds of `window_faults`, `window_mishaps`, `WindowCrashes.cfg` and `WindowRenames.cfg`; and
the liveness properties (`WalkEnds`, `AsksAgain`), which are out of its reach. `RoundTrip` is false when a group is called like
the root; that a restart changes nothing otherwise, in undisturbed sessions, is part of `ImplementsBank`.

## 5. Fairness

* `TreeNavigation` and `TreeEditing`: weak fairness of `Turn` (`Walk`). The loop is computation on the only
  thread; nothing it waits for can keep it from going on. Nothing is
  assumed of the user.
* `QuestionDialog`: weak fairness of `Finished`. `QNetworkAccessManager` finishes
  every request that is not abandoned, with a reply or with an error. This is an
  assumption about the library and the system's network layer: the code sets no time limit
  of its own. Nothing is assumed of the user, who may leave every message box open.
* `QuestionStore`, `QuestionBank`, `IdRegistry`, `Bank`, `Window`: none. All they do is react to a user who may do
  nothing.

## 6. Not modelled

* `src/dep`: the headers and libraries of protobuf and abseil, vendored, which are all but about 3% of
  the repository's lines. What the program uses of them is in `WireFormat`. The constructors, copies,
  merges, arenas and reflection in `xn.pb.*` are generated, and the program calls them only as it would
  plain values.
* The group name dialog as a window: any name of `Names` is an input of the bank.
* A `remove_all` that fails has by then removed either nothing or all but the directories down to the one that is held (`RemovePart`);
  what lies between these two is left out.
* The order of files and directories in a listing is one choice for the whole disk, not one for each directory (`NextEntry`).
* `close()` may throw when it removes an empty list's file that another program has open; the process then ends, as in `Crash`.
* Windows compares directory names without case: groups `a` and `A` share a directory there.
* A second process over the same directory, which would rewrite the same files.
* Files and directories put into the bank's directory by hand.
* Errors of reading a directory while it is listed, of allocation outside `notebook_format_string`, and the
  error result of `vsnprintf`, which the formats in use (`%s` without a width) do not give.
* Which failure the text of `err()` is about: the bank does not take over its stores' texts.
* One module with the bank, the boxes and the dialog at once: the window is seen from three sides, in `Window`,
  `TreeEditing` and `QuestionDialog`. They meet in the calls, whose arguments and results are inputs of the others.
* Message texts, layout and the event loop (`main.cpp`).

## 7. Plan

Done, in this order: `ItemStore`, `QuestionStore` and its proofs, `Bank`,
`QuestionBank`, `TreeNavigation` and its proofs, `QuestionDialog` and its proofs, `Window`,
`TreeEditing` and its proofs, `IdRegistry` and its proofs, the proofs of `Bank`, `WireFormat`,
`QuestionFile` and `FormatString` and their proofs, the proofs of `QuestionBank` and `Window`: the registry, the shape,
undisturbed sessions, the window; `BankRefinement` and its proofs.

1. `NothingHidden` after mishaps: it needs an invariant that says, for any renames and kills, that a group of which the registry has
   the id and no other group has it finds no file on disk that the window has not been told of.
2. An abstract specification of the dialog (a question, an answer and who wrote it) that
   `QuestionDialog` implements, with a proof.
3. Directory names up to case in `QuestionBank`: a constant that says which names share a directory.
