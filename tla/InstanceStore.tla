----------------------------- MODULE InstanceStore -----------------------------
(***************************************************************************)
(* The instances of one namespace as Repository/FileBasedStore.cpp keeps   *)
(* them: for every class an index file (InstanceIndexFile.cpp) and a data  *)
(* file (InstanceDataFile.cpp).  A change works on the files in place      *)
(* between _beginInstanceTransaction, which saves the index and the size   *)
(* of the data in .rollback files, and _commitInstanceTransaction, which   *)
(* removes them; a state file (begin, commit, rollback .progress) marks    *)
(* each of these procedures while it runs.  The constructor of the store   *)
(* brings the files back to a consistent state after a crash.              *)
(*                                                                         *)
(* CIMRepository holds its write lock and lock file around every change    *)
(* and its read lock around every read, so there is one writer and reads   *)
(* see the files only while no change is under way.  A step is one effect  *)
(* on the file system; the server may crash between any two, and it may    *)
(* crash while it recovers.  What was written survives the process; the    *)
(* order in which a disk writes its pages is not modelled.  Every instance *)
(* occupies one block of the data file.  Renames and removals succeed.     *)
(*                                                                         *)
(* The recovery has two gaps, which UnprotectedCrashes opens one by one.   *)
(* While a class without an index begins a transaction there is a rollback *)
(* file that has no first line yet (step "header"), and going back makes   *)
(* it the index: the entry written next is misread.  And once compaction   *)
(* has replaced the data file there is no way back to it.                  *)
(***************************************************************************)
EXTENDS Integers, Sequences, FiniteSets, SequencesExt

CONSTANTS
    Class, Name, Value,
    None,                   \* no instance, or no request
    Absent,                 \* a file that does not exist
    Torn,                   \* bytes that are no whole block, entry or number
    Blank,                  \* read in a class whose index is a file of no bytes: no instance
    MaxFreeCount,           \* _MAX_FREE_COUNT (16)
    UnprotectedCrashes,     \* steps without protection at which crashes and failures come
    MaxRequests,            \* bound: requests in one behaviour
    MaxCrashes              \* bound: crashes in one behaviour

ASSUME BoundAssumption ==
    /\ MaxFreeCount \in Nat \ {0}
    /\ MaxRequests \in Nat
    /\ MaxCrashes \in Nat
    /\ UnprotectedCrashes \subseteq {"header", "compactIndex", "compacted", "removeData"}

ASSUME ClassAssumption == Class # {}

VARIABLES
    index,          \* <class>.idx
    data,           \* <class>.instances
    indexRollback,  \* <class>.idx.rollback
    dataRollback,   \* <class>.instances.rollback: the size of the data
    progress,       \* the .progress files that exist
    step,           \* where the writer or the constructor stands
    procedure,      \* the procedure that runs over the classes of todo
    todo,           \* the classes that procedure has still to treat
    at,             \* the class whose files are worked on
    request,        \* the request being served, or None
    answer,         \* how the last request that was answered ended
    requests, crashes   \* what the bounds count

fileVars == <<index, data, indexRollback, dataRollback, progress>>
workVars == <<procedure, todo, at, request, answer>>
vars == <<fileVars, step, workVars, requests, crashes>>

-----------------------------------------------------------------------------
(* What the files hold                                                     *)

(* One line of an index file; the file, which has the count in its first   *)
(* line, the header, or lacks that line and begins with the entries.       *)
Entry == [name : Name, at : Nat \ {0}, free : BOOLEAN]
Index == [header : BOOLEAN, freeCount : Nat, entries : Seq(Entry)]
Block == Value \cup {Torn}
EmptyIndex == [header |-> TRUE, freeCount |-> 0, entries |-> <<>>]
BlankIndex == [header |-> FALSE, freeCount |-> 0, entries |-> <<>>]

Headless(idx) == idx \notin {Absent, Torn} /\ ~idx.header

(* _openFile skips the nine bytes of the header: without one it skips half *)
(* of the first entry, and what it reads from there is no entry.           *)
Misread(idx) == Headless(idx) /\ idx.entries # <<>>

(* The positions of the entries of n that are not free. *)
Lookup(idx, n) ==
    IF idx \in {Absent, Torn} THEN {}
    ELSE {i \in DOMAIN idx.entries : idx.entries[i].name = n /\ ~idx.entries[i].free}

(* What a reader finds in the two files of a class. *)
Contents(idx, dat) ==
    [n \in Name |->
        IF idx = Torn \/ Misread(idx) THEN Torn
        ELSE IF Headless(idx) THEN Blank
        ELSE IF Lookup(idx, n) = {} THEN None
        ELSE LET e == idx.entries[CHOOSE i \in Lookup(idx, n) : TRUE]
             IN  IF dat = Absent \/ e.at > Len(dat) THEN Torn ELSE dat[e.at]]

FileLength(dat) == IF dat = Absent THEN 0 ELSE Len(dat)

AppendBlock(dat, block) == Append(IF dat = Absent THEN <<>> ELSE dat, block)

\* Mutant of Truncated: what was appended stays.
Whole(dat, size) == dat

(* System::truncateFile: a file that is too short is filled up. *)
Truncated(dat, size) ==
    [i \in 1..size |-> IF i <= FileLength(dat) THEN dat[i] ELSE Torn]

NewEntry(idx, n, position) ==
    [idx EXCEPT !.entries = Append(@, [name |-> n, at |-> position, free |-> FALSE])]

MarkFree(idx, n) ==
    [idx EXCEPT !.entries[CHOOSE i \in Lookup(idx, n) : TRUE].free = TRUE]

CountFree(idx) == [idx EXCEPT !.freeCount = @ + 1]

Free(idx) == {i \in DOMAIN idx.entries : idx.entries[i].free}

(* The positions of the entries that are kept, in order, and each file without the rest. *)
Kept(idx) ==
    LET kept == DOMAIN idx.entries \ Free(idx)
    IN  [k \in 1..Cardinality(kept) |->
            CHOOSE i \in kept : Cardinality({j \in kept : j <= i}) = k]

CompactedData(idx, dat) ==
    LET kept == Kept(idx)
    IN  [k \in DOMAIN kept |-> dat[idx.entries[kept[k]].at]]

CompactedIndex(idx) ==
    LET kept == Kept(idx)
        Adjust(i) == Cardinality({j \in Free(idx) : j < i})
    IN  [header |-> TRUE, freeCount |-> 0,
         entries |-> [k \in DOMAIN kept |->
                        [idx.entries[kept[k]] EXCEPT !.at = @ - Adjust(kept[k])]]]

-----------------------------------------------------------------------------
(* The rollback of one class, as a whole                                   *)

RolledBackIndex(c) ==
    IF indexRollback[c] = Absent THEN index[c] ELSE indexRollback[c]

RolledBackData(c) ==
    IF dataRollback[c] \in {Absent, Torn} THEN data[c]
    ELSE Truncated(data[c], dataRollback[c])

LeftOver(c) == indexRollback[c] # Absent \/ dataRollback[c] # Absent

-----------------------------------------------------------------------------
Request ==
    [kind : {"create", "modify"}, class : Class, name : Name, value : Value]
        \cup [kind : {"delete"}, class : Class, name : Name]
        \cup [kind : {"deleteClass"}, class : Class]

(* Marks are told from what they stand for the absence of.                 *)
ASSUME MarkAssumption ==
    /\ {Absent, Torn, None, Blank} \cap Value = {}
    /\ Torn # None /\ Absent # Torn /\ Blank \notin {Torn, None}
    /\ {Absent, Torn} \cap Nat = {}
    /\ Absent \notin Index /\ Torn \notin Index
    /\ Absent \notin Seq(Block)
    /\ None \notin Request

Init ==
    /\ index = [c \in Class |-> Absent]
    /\ data = [c \in Class |-> Absent]
    /\ indexRollback = [c \in Class |-> Absent]
    /\ dataRollback = [c \in Class |-> Absent]
    /\ progress = {}
    /\ step = "idle"
    /\ procedure = "rollback"
    /\ todo = {}
    /\ at = CHOOSE c \in Class : TRUE
    /\ request = None
    /\ answer = "none"
    /\ requests = 0
    /\ crashes = 0

Refused == answer' = "failed" /\ request' = None /\ step' = "idle"

Goto(s) == step' = s /\ UNCHANGED <<request, answer>>

(* A request reaches the store under the write lock.  What requests make   *)
(* of a class whose entries are misread is not followed.                   *)
Submit(r) ==
    /\ step = "idle"
    /\ requests < MaxRequests
    /\ ~Misread(index[r.class])
    /\ requests' = requests + 1
    /\ request' = r
    /\ at' = r.class
    /\ answer' = "none"
    /\ step' = "start"
    /\ UNCHANGED <<fileVars, procedure, todo, crashes>>

(* deleteClass is called once no instance is left (CIMRepository checks);  *)
(* it removes the two files without a transaction.                         *)
DeleteClass ==
    /\ step = "start"
    /\ request.kind = "deleteClass"
    /\ IF \E n \in Name : Lookup(index[at], n) # {}
       THEN Refused /\ UNCHANGED index
       ELSE /\ index' = [index EXCEPT ![at] = Absent]
            /\ Goto("removeData")
    /\ UNCHANGED <<data, indexRollback, dataRollback, progress, procedure, todo, at,
                   requests, crashes>>

RemoveData ==
    /\ step = "removeData"
    /\ data' = [data EXCEPT ![at] = Absent]
    /\ answer' = "ok"
    /\ request' = None
    /\ step' = "idle"
    /\ UNCHANGED <<index, indexRollback, dataRollback, progress, procedure, todo, at,
                   requests, crashes>>

-----------------------------------------------------------------------------
(* InstanceTransactionHandler: the constructor                             *)

(* modifyInstance looks the instance up before; then what an earlier       *)
(* transaction of the class left is rolled back.                           *)
Construct ==
    /\ step = "start"
    /\ request.kind # "deleteClass"
    /\ IF request.kind = "modify" /\ Lookup(index[at], request.name) = {}
       THEN Refused /\ UNCHANGED <<index, data, indexRollback, dataRollback>>
       ELSE /\ index' = [index EXCEPT ![at] = RolledBackIndex(at)]
            /\ data' = [data EXCEPT ![at] = RolledBackData(at)]
            /\ indexRollback' = [indexRollback EXCEPT ![at] = Absent]
            /\ dataRollback' = [dataRollback EXCEPT ![at] = Absent]
            /\ Goto("beginFile")
    /\ UNCHANGED <<progress, procedure, todo, at, requests, crashes>>

BeginFile ==
    /\ step = "beginFile"
    /\ progress' = progress \cup {"begin"}
    /\ Goto("beginIndex")
    /\ UNCHANGED <<index, data, indexRollback, dataRollback, procedure, todo, at,
                   requests, crashes>>

(* The rollback file of an absent index is created, and then its header is *)
(* written, without a look at whether that succeeds; any other index is    *)
(* renamed and then copied back, so that its rollback file is whole        *)
(* whenever it exists.                                                     *)
BeginIndex ==
    \/ /\ step = "beginIndex"
       /\ index[at] = Absent
       /\ indexRollback' = [indexRollback EXCEPT ![at] = BlankIndex]
       /\ Goto("header")
       /\ UNCHANGED <<index, data, dataRollback, progress, procedure, todo, at,
                      requests, crashes>>
    \/ /\ step = "header"
       /\ \E saved \in {EmptyIndex} \cup {i \in {BlankIndex} : "header" \in UnprotectedCrashes} :
             indexRollback' = [indexRollback EXCEPT ![at] = saved]
       /\ Goto("beginData")
       /\ UNCHANGED <<index, data, dataRollback, progress, procedure, todo, at,
                      requests, crashes>>
    \/ /\ step = "beginIndex"
       /\ index[at] # Absent
       /\ indexRollback' = [indexRollback EXCEPT ![at] = index[at]]
       /\ index' = [index EXCEPT ![at] = Absent]
       /\ Goto("copyIndex")
       /\ UNCHANGED <<data, dataRollback, progress, procedure, todo, at,
                      requests, crashes>>

CopyIndex ==
    \/ /\ step = "copyIndex"
       /\ index' = [index EXCEPT ![at] = Torn]
       /\ Goto("copying")
       /\ UNCHANGED <<data, indexRollback, dataRollback, progress, procedure, todo, at,
                      requests, crashes>>
    \/ /\ step = "copying"
       /\ index' = [index EXCEPT ![at] = indexRollback[at]]
       /\ Goto("beginData")
       /\ UNCHANGED <<data, indexRollback, dataRollback, progress, procedure, todo, at,
                      requests, crashes>>

BeginData ==
    \/ /\ step = "beginData"
       /\ dataRollback' = [dataRollback EXCEPT ![at] = Torn]
       /\ Goto("saveSize")
       /\ UNCHANGED <<index, data, indexRollback, progress, procedure, todo, at,
                      requests, crashes>>
    \/ /\ step = "saveSize"
       /\ dataRollback' = [dataRollback EXCEPT ![at] = FileLength(data[at])]
       /\ Goto("begun")
       /\ UNCHANGED <<index, data, indexRollback, progress, procedure, todo, at,
                      requests, crashes>>

(* deleteInstance looks the instance up inside the transaction. *)
AfterBegin ==
    IF request.kind # "delete" THEN "append"
    ELSE IF Lookup(index[at], request.name) = {} THEN "rollbackFile"
    ELSE "updateIndex"

BeginDone ==
    /\ step = "begun"
    /\ progress' = progress \ {"begin"}
    /\ Goto(AfterBegin)
    /\ UNCHANGED <<index, data, indexRollback, dataRollback, procedure, todo, at,
                   requests, crashes>>

-----------------------------------------------------------------------------
(* The change itself                                                       *)

AppendInstance ==
    \/ /\ step = "append"
       /\ data' = [data EXCEPT ![at] = AppendBlock(data[at], Torn)]
       /\ Goto("appending")
       /\ UNCHANGED <<index, indexRollback, dataRollback, progress, procedure, todo, at,
                      requests, crashes>>
    \/ /\ step = "appending"
       /\ data' = [data EXCEPT ![at] = AppendBlock(Front(data[at]), request.value)]
       /\ Goto("updateIndex")
       /\ UNCHANGED <<index, indexRollback, dataRollback, progress, procedure, todo, at,
                      requests, crashes>>

(* createEntry, modifyEntry and deleteEntry on the index before the change. *)
UpdatedIndex(idx) ==
    CASE request.kind = "create" -> NewEntry(idx, request.name, Len(data[at]))
      [] request.kind = "modify" ->
            CountFree(NewEntry(MarkFree(idx, request.name), request.name, Len(data[at])))
      [] request.kind = "delete" -> CountFree(MarkFree(idx, request.name))

(* An index that existed is half written; what it was is in the rollback file. *)
IndexBefore == IF index[at] = Torn THEN RolledBackIndex(at) ELSE index[at]

Exists == request.kind = "create" /\ Lookup(index[at], request.name) # {}

NeedsCompaction(idx) == request.kind # "create" /\ idx.freeCount >= MaxFreeCount

(* createEntry creates an index that does not exist.  That its header is   *)
(* written is not looked at either; it is taken to be if the entry after   *)
(* it is, which is looked at.                                              *)
UpdateIndex ==
    \/ /\ step = "updateIndex"
       /\ IF Exists
          THEN Goto("rollbackFile") /\ UNCHANGED index
          ELSE /\ Goto("updating")
               /\ index' = [index EXCEPT ![at] = IF @ = Absent THEN EmptyIndex ELSE Torn]
       /\ UNCHANGED <<data, indexRollback, dataRollback, progress, procedure, todo, at,
                      requests, crashes>>
    \/ /\ step = "updating"
       /\ LET new == UpdatedIndex(IndexBefore)
          IN  /\ index' = [index EXCEPT ![at] = new]
              /\ Goto(IF NeedsCompaction(new) THEN "compactData" ELSE "commitFile")
       /\ UNCHANGED <<data, indexRollback, dataRollback, progress, procedure, todo, at,
                      requests, crashes>>

(* Both files are rewritten in a temporary file and renamed over. *)
CompactData ==
    /\ step = "compactData"
    /\ data' = [data EXCEPT ![at] = CompactedData(index[at], data[at])]
    /\ Goto("compactIndex")
    /\ UNCHANGED <<index, indexRollback, dataRollback, progress, procedure, todo, at,
                   requests, crashes>>

CompactIndex ==
    /\ step = "compactIndex"
    /\ index' = [index EXCEPT ![at] = CompactedIndex(index[at])]
    /\ Goto("compacted")
    /\ UNCHANGED <<data, indexRollback, dataRollback, progress, procedure, todo, at,
                   requests, crashes>>

-----------------------------------------------------------------------------
(* The three procedures over the rollback files: of a request they treat   *)
(* its class, of the constructor of the store the classes it finds.        *)

StateFile == [undo |-> "begin", commit |-> "commit", rollback |-> "rollback"]

\* Mutant of CommitFile: the rollback files go without a state file.
CommitWithoutFile ==
    /\ step \in {"commitFile", "compacted"}
    /\ procedure' = "commit"
    /\ todo' = {at}
    /\ Goto("each")
    /\ UNCHANGED <<fileVars, at, requests, crashes>>

CommitFile ==
    /\ step \in {"commitFile", "compacted"}
    /\ progress' = progress \cup {"commit"}
    /\ procedure' = "commit"
    /\ todo' = {at}
    /\ Goto("each")
    /\ UNCHANGED <<index, data, indexRollback, dataRollback, at, requests, crashes>>

(* The destructor of a transaction that was not completed. *)
RollbackFile ==
    /\ step = "rollbackFile"
    /\ progress' = progress \cup {"rollback"}
    /\ procedure' = "rollback"
    /\ todo' = {at}
    /\ Goto("each")
    /\ UNCHANGED <<index, data, indexRollback, dataRollback, at, requests, crashes>>

TakeClass(c) ==
    /\ step = "each"
    /\ c \in todo
    /\ todo' = todo \ {c}
    /\ at' = c
    /\ Goto("index")
    /\ UNCHANGED <<fileVars, procedure, requests, crashes>>

(* InstanceIndexFile: undoBeginTransaction removes the index and renames   *)
(* the rollback file; commitTransaction removes the rollback file;         *)
(* rollbackTransaction renames it over the index.                          *)
UndoIndex ==
    /\ procedure = "undo"
    /\ IF step = "index" /\ indexRollback[at] # Absent
       THEN /\ index' = [index EXCEPT ![at] = Absent]
            /\ UNCHANGED indexRollback
            /\ Goto("rename")
       ELSE /\ index' = [index EXCEPT ![at] = RolledBackIndex(at)]
            /\ indexRollback' = [indexRollback EXCEPT ![at] = Absent]
            /\ Goto("data")

CommitIndex ==
    /\ procedure = "commit"
    /\ indexRollback' = [indexRollback EXCEPT ![at] = Absent]
    /\ UNCHANGED index
    /\ Goto("data")

RollbackIndex ==
    /\ procedure = "rollback"
    /\ index' = [index EXCEPT ![at] = RolledBackIndex(at)]
    /\ indexRollback' = [indexRollback EXCEPT ![at] = Absent]
    /\ Goto("data")

IndexStep ==
    /\ step \in {"index", "rename"}
    /\ UndoIndex \/ CommitIndex \/ RollbackIndex
    /\ UNCHANGED <<data, dataRollback, progress, procedure, todo, at, requests, crashes>>

(* InstanceDataFile: undoBeginTransaction and commitTransaction remove the *)
(* rollback file; rollbackTransaction reads the size from it, truncates    *)
(* the data to it and then removes it.  A rollback file without a size     *)
(* fails the rollback, and the store is not constructed.                   *)
DropDataRollback ==
    /\ \/ step = "data" /\ (procedure # "rollback" \/ dataRollback[at] = Absent)
       \/ step = "drop"
    /\ dataRollback' = [dataRollback EXCEPT ![at] = Absent]
    /\ Goto("each")
    /\ UNCHANGED <<index, data, indexRollback, progress, procedure, todo, at,
                   requests, crashes>>

RollbackData ==
    /\ step = "data"
    /\ procedure = "rollback"
    /\ dataRollback[at] # Absent
    /\ IF dataRollback[at] = Torn
       THEN Goto("unusable") /\ UNCHANGED data
       ELSE Goto("drop") /\ data' = [data EXCEPT ![at] = RolledBackData(at)]
    /\ UNCHANGED <<index, indexRollback, dataRollback, progress, procedure, todo, at,
                   requests, crashes>>

(* The state file goes last; a request is answered, the constructor ends.  *)
EndProcedure ==
    /\ step = "each"
    /\ todo = {}
    /\ progress' = progress \ {StateFile[procedure]}
    /\ step' = "idle"
    /\ request' = None
    /\ answer' = IF request = None THEN "none"
                 ELSE IF procedure = "commit" THEN "ok" ELSE "failed"
    /\ UNCHANGED <<index, data, indexRollback, dataRollback, procedure, todo, at,
                   requests, crashes>>

-----------------------------------------------------------------------------
(* Failures, crashes and the constructor                                   *)

(* The steps whose file operation may fail, by what the failure leads to.  *)
BeginSteps == {"beginIndex", "header", "copyIndex", "copying", "beginData", "saveSize"}
ChangeSteps == {"append", "appending", "updateIndex", "updating", "compactData", "commitFile"}

(* The steps at which the old data, or half of a class, is gone while the  *)
(* files say that nothing was changed.                                     *)
UnprotectedSteps == {"compactIndex", "compacted", "removeData"}

(* No state file: nothing was begun.  No rollback file: what was begun is  *)
(* undone; a rollback file that cannot be opened again after its header    *)
(* was written is removed first.  Otherwise an exception ends the scope of *)
(* the transaction.                                                        *)
Fail ==
    /\ \/ /\ step = "beginFile"
          /\ Refused
          /\ UNCHANGED <<indexRollback, dataRollback, procedure, todo>>
       \/ /\ step \in BeginSteps
          /\ indexRollback' = IF step = "header"
                              THEN [indexRollback EXCEPT ![at] = Absent]
                              ELSE indexRollback
          /\ dataRollback' = [dataRollback EXCEPT ![at] = Absent]
          /\ procedure' = "undo"
          /\ todo' = {at}
          /\ Goto("each")
       \/ /\ \/ step \in ChangeSteps
             \/ step \in {"compactIndex", "compacted"} /\ step \in UnprotectedCrashes
          /\ Goto("rollbackFile")
          /\ UNCHANGED <<indexRollback, dataRollback, procedure, todo>>
    /\ UNCHANGED <<index, data, progress, at, requests, crashes>>

Crash ==
    /\ step # "down"
    /\ crashes < MaxCrashes
    /\ step \in UnprotectedSteps \cup {"header"} => step \in UnprotectedCrashes
    /\ crashes' = crashes + 1
    /\ step' = "down"
    /\ request' = None
    /\ answer' = "none"
    /\ UNCHANGED <<fileVars, procedure, todo, at, requests>>

\* Mutant of Recovery: a begin that was interrupted is rolled back.
RecoveryWithoutUndo ==
    IF "commit" \in progress THEN "commit" ELSE "rollback"

(* _completeTransactions goes by the state file it finds, over all classes *)
(* of the namespace; without one _rollbackIncompleteTransactions treats    *)
(* the classes that have a rollback file.                                  *)
Recovery ==
    CASE "begin" \in progress  -> "undo"
      [] "begin" \notin progress /\ "commit" \in progress -> "commit"
      [] OTHER -> "rollback"

\* Mutant of Restart: only the classes that have an index to restore.
RestartByIndex ==
    /\ step = "down"
    /\ procedure' = Recovery
    /\ todo' = IF progress # {} THEN Class ELSE {c \in Class : indexRollback[c] # Absent}
    /\ Goto("each")
    /\ UNCHANGED <<fileVars, at, requests, crashes>>

Restart ==
    /\ step = "down"
    /\ procedure' = Recovery
    /\ todo' = IF progress # {} THEN Class ELSE {c \in Class : LeftOver(c)}
    /\ Goto("each")
    /\ UNCHANGED <<fileVars, at, requests, crashes>>

Work ==
    \/ DeleteClass \/ RemoveData
    \/ Construct \/ BeginFile \/ BeginIndex \/ CopyIndex \/ BeginData \/ BeginDone
    \/ AppendInstance \/ UpdateIndex \/ CompactData \/ CompactIndex
    \/ CommitFile \/ RollbackFile
    \/ \E c \in Class : TakeClass(c)
    \/ IndexStep \/ DropDataRollback \/ RollbackData \/ EndProcedure
    \/ Restart

Next ==
    \/ \E r \in Request : Submit(r)
    \/ Work
    \/ Fail
    \/ Crash

Spec == Init /\ [][Next]_vars

-----------------------------------------------------------------------------
(* Properties                                                              *)

(* What the next start of the server would make of the files of a class.   *)
Recovered(c) ==
    CASE "begin" \in progress -> Contents(RolledBackIndex(c), data[c])
      [] "begin" \notin progress /\ "commit" \in progress -> Contents(index[c], data[c])
      [] OTHER -> Contents(RolledBackIndex(c), RolledBackData(c))

TypeOK ==
    /\ \A c \in Class :
        /\ index[c] \in {Absent, Torn} \cup Index
        /\ data[c] \in {Absent} \cup Seq(Block)
        /\ indexRollback[c] \in {Absent} \cup Index
        /\ dataRollback[c] \in {Absent, Torn} \cup Nat
    /\ progress \in SUBSET {"begin", "commit", "rollback"}
    /\ step \in {"idle", "down", "start", "removeData", "beginFile", "begun",
                 "compactIndex", "compacted", "rollbackFile", "each", "index", "rename",
                 "data", "drop", "unusable"} \cup BeginSteps \cup ChangeSteps
    /\ procedure \in DOMAIN StateFile
    /\ todo \subseteq Class
    /\ at \in Class
    /\ request \in Request \cup {None}
    /\ answer \in {"none", "ok", "failed"}
    /\ requests \in 0..MaxRequests
    /\ crashes \in 0..MaxCrashes

(* Whatever step the server crashed at, also while it recovered from an    *)
(* earlier crash, the constructor of the store comes to an end: it meets   *)
(* no rollback file without a size (FileBasedStore.cpp:890).               *)
StartupSucceeds == step # "unusable"

(* Between requests no rollback file and no state file is left: a commit   *)
(* of one class can never be taken for that of another at the next start,  *)
(* and readers, who look at the index and the data alone, see what a       *)
(* restart would keep.                                                     *)
NothingPending ==
    step = "idle" =>
        /\ progress = {}
        /\ \A c \in Class : ~LeftOver(c)

(* Between requests the entries of an index, the free ones included, lie   *)
(* one after the other over the whole data file, and the count in the      *)
(* first line is that of the free ones.  Compaction computes the new       *)
(* positions from the sizes of the free entries alone, so a gap left by an *)
(* append that was rolled back would shift every later instance.  This is  *)
(* so of an index without a header too, whose entries are where they were  *)
(* written, though they are read from the wrong place.                     *)
Contiguous ==
    step = "idle" =>
        \A c \in Class :
            IF index[c] = Absent THEN FileLength(data[c]) = 0
            ELSE /\ Len(index[c].entries) = FileLength(data[c])
                 /\ \A i \in DOMAIN index[c].entries : index[c].entries[i].at = i
                 /\ index[c].freeCount = Cardinality(Free(index[c]))

(* The files implement the atomic store: contents is what a restart would  *)
(* make of them at this moment, and a request takes effect with the        *)
(* creation of the commit state file; when the files are compacted it does *)
(* so with the replacement of the data file, from where there is no way    *)
(* back to the old instances.  A class without instances may be left with  *)
(* an index of no bytes, Blank, and the next instance that is created in   *)
(* it can then not be read; no other class, and no class that holds an     *)
(* instance, is ever harmed.                                               *)
Effective(c) ==
    IF c = at /\ step = "compactIndex" THEN Contents(CompactedIndex(index[c]), data[c])
    ELSE IF c = at /\ step = "compacted" THEN Contents(index[c], data[c])
    ELSE Recovered(c)

Done ==
    /\ request # None
    /\ \/ step \in UnprotectedSteps
       \/ procedure = "commit" /\ "commit" \in progress

Atomic == INSTANCE AtomicStore
    WITH contents <- [c \in Class |-> Effective(c)], done <- Done

ImplementsStore == Atomic!Spec

(* The recovery scheme is there "to avoid corruption of the instance       *)
(* repository during a write operation" (FileBasedStore.cpp:704-705): once *)
(* the server is up, every instance can be read back.                      *)
NoCorruption ==
    step = "idle" =>
        \A c \in Class, n \in Name : Contents(index[c], data[c])[n] # Torn
=============================================================================
