-------------------------- MODULE InstanceStoreProofs --------------------------
(***************************************************************************)
(* Proofs about InstanceStore, for any set of classes, names and values,   *)
(* any limit of free entries and any number of requests and crashes: the   *)
(* files implement the atomic store, whenever the server crashes, but at   *)
(* the three steps of compaction and of the deletion of a class where the  *)
(* rollback files do not help (Protected).  A crash, or a failed write,    *)
(* before a new rollback file has its header is among the steps.           *)
(***************************************************************************)
EXTENDS InstanceStore, FiniteSetTheorems, FunctionTheorems, SequenceTheorems, TLAPS

\* No crash, and no failure, comes at the steps where it would lose instances.
Protected == UnprotectedCrashes \cap UnprotectedSteps = {}

\* The steps of a request before its transaction, of its transaction before anything
\* is changed, and while it is; and those of the procedures over the rollback files.
Quiet == {"idle", "start", "beginFile", "removeData"}
Begin == BeginSteps \cup {"begun"}
Change == ChangeSteps \cup {"compactIndex", "compacted", "rollbackFile"}
Procedure == {"each", "index", "rename", "data", "drop"}

Typed ==
    /\ index \in [Class -> {Absent, Torn} \cup Index]
    /\ data \in [Class -> {Absent} \cup Seq(Block)]
    /\ indexRollback \in [Class -> {Absent} \cup Index]
    /\ dataRollback \in [Class -> {Absent, Torn} \cup Nat]
    /\ progress \in SUBSET {"begin", "commit", "rollback"}
    /\ step \in Quiet \cup Begin \cup Change \cup Procedure \cup {"down"}
    /\ procedure \in {"undo", "commit", "rollback"}
    /\ todo \subseteq Class
    /\ at \in Class
    /\ request \in Request \cup {None}
    /\ answer \in {"none", "ok", "failed"}
    /\ requests \in 0..MaxRequests
    /\ crashes \in 0..MaxCrashes

\* The state files say which procedure runs, or has to.
Progress ==
    /\ step \in Quiet \cup Change => progress = {}
    /\ step \in Begin => progress = {"begin"}
    /\ step \in Procedure =>
          progress = {StateFile[procedure]} \/ (procedure = "rollback" /\ progress = {})
    /\ step = "rename" => procedure = "undo"
    /\ step = "drop" => procedure = "rollback"
    /\ step = "down" => progress \in {{}, {"begin"}, {"commit"}, {"rollback"}}

\* The classes that may have rollback files.
Pending ==
    /\ step \in Quiet => \A c \in Class : ~LeftOver(c)
    /\ step \in Begin \cup Change => \A c \in Class : LeftOver(c) => c = at
    /\ step \in Procedure => \A c \in Class :
          LeftOver(c) => c \in todo \/ (c = at /\ step # "each")
    /\ step = "beginIndex" => ~LeftOver(at)
    /\ step \in {"data", "drop"} => indexRollback[at] = Absent
    /\ \A c \in Class : dataRollback[c] = Torn => progress = {"begin"}

\* An index fits a data file.
Agree(idx, dat) ==
    \/ idx = Absent /\ FileLength(dat) = 0
    \/ /\ idx \in Index
       /\ Len(idx.entries) = FileLength(dat)
       /\ \A i \in DOMAIN idx.entries : idx.entries[i].at = i
       /\ idx.freeCount = Cardinality(Free(idx))
       /\ \A n \in Name : \A i, j \in Lookup(idx, n) : i = j

\* What the next start of the server makes of the files of a class is consistent.
Recoverable(c) ==
    /\ progress = {"begin"} => Agree(RolledBackIndex(c), data[c])
    /\ progress = {"commit"} => Agree(index[c], data[c])
    /\ progress \notin {{"begin"}, {"commit"}} => Agree(RolledBackIndex(c), RolledBackData(c))

Consistent ==
    /\ \A c \in Class : Recoverable(c) \/ (c = at /\ step \in UnprotectedSteps)
    /\ step = "compactIndex" => Agree(CompactedIndex(index[at]), data[at])
    /\ step = "compacted" => Agree(index[at], data[at])
    /\ step = "removeData" => index[at] = Absent
    /\ step = "drop" => RolledBackData(at) = data[at]

\* The instances of a class after a request; those of a blank class may also be saved by an
\* index that is created anew; and whether the request may change them so.
Changed(r, old) ==
    IF old[r.name] = Blank THEN [n \in Name |-> Torn]
    ELSE [old EXCEPT ![r.name] = IF r.kind = "delete" THEN None ELSE r.value]

Changes(r, old, new) ==
    \/ new = Changed(r, old)
    \/ /\ r.kind = "create" /\ old[r.name] = Blank
       /\ new = [[n \in Name |-> None] EXCEPT ![r.name] = r.value]

Fits(r, old) ==
    IF r.kind = "create" THEN old[r.name] \in {None, Blank} ELSE old[r.name] \notin {None, Blank}

\* A request that is worked on is for the class at.
Requested ==
    /\ step \in {"idle", "down"} => request = None
    /\ step \in (Quiet \ {"idle"}) \cup Begin \cup Change => request # None /\ request.class = at
    /\ step = "removeData" => request.kind = "deleteClass"
    /\ step \in {"start", "beginFile"} \cup Begin \cup Change => ~Misread(RolledBackIndex(at))
    /\ step \in Begin \cup Change \cup {"beginFile"} =>
          /\ request.kind # "deleteClass"
          /\ request.kind = "modify" => Lookup(RolledBackIndex(at), request.name) # {}

\* What the rollback files hold, and the files since then.
Saved ==
    /\ step \in (Begin \ {"beginIndex"}) \cup Change => indexRollback[at] # Absent
    /\ step = "header" => index[at] = Absent /\ indexRollback[at] = BlankIndex
    /\ step \in {"beginData", "saveSize", "begun", "append", "appending", "updateIndex"} =>
          \A n \in Name : Lookup(index[at], n) = Lookup(indexRollback[at], n)
    /\ step \in {"beginData", "saveSize", "begun", "append", "appending", "updateIndex"} =>
          (index[at] = Absent => indexRollback[at] \in {EmptyIndex, BlankIndex})
    /\ step = "updating" =>
          \/ index[at] = Torn
          \/ index[at] = EmptyIndex /\ indexRollback[at] \in {EmptyIndex, BlankIndex}
    /\ step \in {"begun", "append"} => dataRollback[at] = FileLength(data[at])
    /\ step = "append" => request.kind # "delete"
    /\ step \in Change => dataRollback[at] # Absent
    /\ step = "appending" =>
          /\ data[at] # Absent /\ Len(data[at]) = dataRollback[at] + 1
          /\ request.kind # "delete"
    /\ step \in {"updateIndex", "updating"} =>
          /\ request.kind = "delete" =>
                /\ FileLength(data[at]) = dataRollback[at]
                /\ Lookup(indexRollback[at], request.name) # {}
          /\ request.kind # "delete" =>
                /\ data[at] # Absent /\ Len(data[at]) = dataRollback[at] + 1
                /\ data[at][Len(data[at])] = request.value
    /\ step = "updating" /\ request.kind = "create" =>
          Lookup(indexRollback[at], request.name) = {}

\* The change is made, but not committed.
Made ==
    step \in {"commitFile", "compactData"} =>
        LET old == Contents(RolledBackIndex(at), RolledBackData(at))
        IN  /\ index[at] # Absent /\ Agree(index[at], data[at])
            /\ Fits(request, old)
            /\ Changes(request, old, Contents(index[at], data[at]))
            /\ step = "compactData" => ~Headless(index[at])

StoreInv == Typed /\ Progress /\ Pending /\ Consistent /\ Requested /\ Saved /\ Made

-----------------------------------------------------------------------------
\* A function on 1..n is a sequence.
LEMMA FunctionSeq ==
    ASSUME NEW S, NEW n \in Nat, NEW f \in [1..n -> S]
    PROVE  f \in Seq(S) /\ Len(f) = n /\ DOMAIN f = 1..n
<1>1. f \in Seq(S)
  BY SeqDef
<1>2. QED
  BY <1>1, LenProperties

\* What the sequences of a type are.
LEMMA SeqFunction ==
    ASSUME NEW S, NEW s \in Seq(S)
    PROVE  /\ Len(s) \in Nat /\ DOMAIN s = 1..Len(s)
           /\ s = [i \in 1..Len(s) |-> s[i]]
           /\ \A i \in 1..Len(s) : s[i] \in S
<1>1. Len(s) \in Nat /\ DOMAIN s = 1..Len(s) /\ s \in [1..Len(s) -> S]
  BY LenProperties
<1>2. QED
  BY <1>1

\* Two sequences of the same length with the same elements.
LEMMA SameSeq ==
    ASSUME NEW S, NEW T, NEW s \in Seq(S), NEW t \in Seq(T), Len(s) = Len(t),
           \A i \in 1..Len(s) : s[i] = t[i]
    PROVE  s = t
<1>1. s = [i \in 1..Len(s) |-> s[i]] /\ t = [i \in 1..Len(t) |-> t[i]]
  BY SeqFunction
<1>2. QED
  BY <1>1

\* The length of a data file, if there is one.
LEMMA FileLengthType ==
    ASSUME NEW dat \in {Absent} \cup Seq(Block)
    PROVE  /\ FileLength(dat) \in Nat
           /\ dat # Absent => dat \in Seq(Block) /\ FileLength(dat) = Len(dat)
           /\ \A i \in 1..FileLength(dat) : dat # Absent /\ dat[i] \in Block
<1>1. CASE dat = Absent
  BY <1>1 DEF FileLength
<1>2. CASE dat # Absent
  BY <1>2, SeqFunction DEF FileLength
<1>3. QED
  BY <1>1, <1>2

\* The data file that is truncated.
LEMMA TruncatedType ==
    ASSUME NEW dat \in {Absent} \cup Seq(Block), NEW size \in Nat
    PROVE  /\ Truncated(dat, size) \in Seq(Block) /\ Truncated(dat, size) # Absent
           /\ Len(Truncated(dat, size)) = size
           /\ FileLength(Truncated(dat, size)) = size
           /\ \A i \in 1..size :
                 i <= FileLength(dat) => Truncated(dat, size)[i] = dat[i]
<1>1. \A i \in 1..size : (IF i <= FileLength(dat) THEN dat[i] ELSE Torn) \in Block
  <2>1. Torn \in Block
    BY DEF Block
  <2>2. \A i \in 1..size : i <= FileLength(dat) => i \in 1..FileLength(dat)
    BY FileLengthType
  <2>3. QED
    BY <2>1, <2>2, FileLengthType
<1>2. Truncated(dat, size) \in [1..size -> Block]
  BY <1>1 DEF Truncated
<1>3. Truncated(dat, size) \in Seq(Block) /\ Len(Truncated(dat, size)) = size
  BY <1>2, FunctionSeq
<1>4. Truncated(dat, size) # Absent
  BY <1>3, MarkAssumption
<1>5. QED
  BY <1>3, <1>4 DEF FileLength, Truncated

\* Two data files that are the same up to a size are so when they are truncated to it.
LEMMA TruncatedSame ==
    ASSUME NEW dat \in {Absent} \cup Seq(Block), NEW other \in {Absent} \cup Seq(Block),
           NEW size \in Nat, size <= FileLength(dat), size <= FileLength(other),
           \A i \in 1..size : dat[i] = other[i]
    PROVE  Truncated(dat, size) = Truncated(other, size)
<1>1. FileLength(dat) \in Nat /\ FileLength(other) \in Nat
  BY FileLengthType
<1>2. \A i \in 1..size : i <= FileLength(dat) /\ i <= FileLength(other)
  BY <1>1
<1>3. QED
  BY <1>2 DEF Truncated

\* A file that has the size is left as it is.
LEMMA TruncatedWhole ==
    ASSUME NEW dat \in Seq(Block)
    PROVE  Truncated(dat, FileLength(dat)) = dat
<1>1. dat # Absent /\ FileLength(dat) = Len(dat) /\ Len(dat) \in Nat
  BY MarkAssumption, SeqFunction DEF FileLength
<1>2. /\ Truncated(dat, Len(dat)) \in Seq(Block)
      /\ Len(Truncated(dat, Len(dat))) = Len(dat)
      /\ \A i \in 1..Len(dat) : Truncated(dat, Len(dat))[i] = dat[i]
  BY <1>1, TruncatedType
<1>3. QED
  BY <1>1, <1>2, SameSeq

\* To truncate twice is to truncate once.
LEMMA TruncatedTwice ==
    ASSUME NEW dat \in {Absent} \cup Seq(Block), NEW size \in Nat
    PROVE  Truncated(Truncated(dat, size), size) = Truncated(dat, size)
<1>1. Truncated(dat, size) \in Seq(Block) /\ FileLength(Truncated(dat, size)) = size
  BY TruncatedType
<1>2. QED
  BY <1>1, TruncatedWhole

\* A block is appended.
LEMMA AppendBlockType ==
    ASSUME NEW dat \in {Absent} \cup Seq(Block), NEW block \in Block
    PROVE  /\ AppendBlock(dat, block) \in Seq(Block) /\ AppendBlock(dat, block) # Absent
           /\ Len(AppendBlock(dat, block)) = FileLength(dat) + 1
           /\ FileLength(AppendBlock(dat, block)) = FileLength(dat) + 1
           /\ AppendBlock(dat, block)[FileLength(dat) + 1] = block
           /\ \A i \in 1..FileLength(dat) : AppendBlock(dat, block)[i] = dat[i]
<1>1. CASE dat = Absent
  <2>1. <<>> \in Seq(Block) /\ Len(<<>>) = 0 /\ FileLength(dat) = 0
    BY <1>1, EmptySeq DEF FileLength
  <2>2. AppendBlock(dat, block) = Append(<<>>, block)
    BY <1>1 DEF AppendBlock
  <2>3. AppendBlock(dat, block) \in Seq(Block) /\ Len(AppendBlock(dat, block)) = 1
        /\ AppendBlock(dat, block)[1] = block
    BY <2>1, <2>2, AppendProperties
  <2>4. QED
    BY <2>1, <2>3, MarkAssumption DEF FileLength
<1>2. CASE dat # Absent
  <2>1. dat \in Seq(Block) /\ FileLength(dat) = Len(dat)
    BY <1>2, FileLengthType
  <2>2. AppendBlock(dat, block) = Append(dat, block)
    BY <1>2 DEF AppendBlock
  <2>3. /\ AppendBlock(dat, block) \in Seq(Block)
        /\ Len(AppendBlock(dat, block)) = Len(dat) + 1
        /\ AppendBlock(dat, block)[Len(dat) + 1] = block
        /\ \A i \in 1..Len(dat) : AppendBlock(dat, block)[i] = dat[i]
    BY <2>1, <2>2, AppendProperties
  <2>4. QED
    BY <2>1, <2>3, MarkAssumption DEF FileLength
<1>3. QED
  BY <1>1, <1>2

\* The last block is replaced.
LEMMA FrontType ==
    ASSUME NEW dat \in Seq(Block), NEW n \in Nat, Len(dat) = n + 1
    PROVE  /\ Front(dat) \in Seq(Block) /\ Front(dat) # Absent
           /\ Len(Front(dat)) = n
           /\ \A i \in 1..n : Front(dat)[i] = dat[i]
<1>1. Front(dat) = SubSeq(dat, 1, n)
  BY DEF Front
<1>2. \A i \in 1..n : dat[i] \in Block
  BY SeqFunction
<1>3. /\ SubSeq(dat, 1, n) \in Seq(Block)
      /\ Len(SubSeq(dat, 1, n)) = IF 1 <= n THEN n - 1 + 1 ELSE 0
      /\ \A i \in 1..(n - 1 + 1) : SubSeq(dat, 1, n)[i] = dat[1 + i - 1]
  BY <1>2, SubSeqProperties
<1>4. \A i \in 1..n : SubSeq(dat, 1, n)[i] = dat[i]
  <2>1. \A i \in 1..n : i \in 1..(n - 1 + 1) /\ 1 + i - 1 = i
    OBVIOUS
  <2>2. QED
    BY <1>3, <2>1
<1>5. Len(SubSeq(dat, 1, n)) = n
  BY <1>3
<1>6. QED
  BY <1>1, <1>3, <1>4, <1>5, MarkAssumption

-----------------------------------------------------------------------------
\* The entries of an index.
LEMMA IndexType ==
    ASSUME NEW idx \in Index
    PROVE  /\ idx.entries \in Seq(Entry) /\ Len(idx.entries) \in Nat
           /\ DOMAIN idx.entries = 1..Len(idx.entries)
           /\ \A i \in 1..Len(idx.entries) :
                 /\ idx.entries[i] \in Entry
                 /\ idx.entries[i].at \in Nat \ {0}
                 /\ idx.entries[i].free \in BOOLEAN
           /\ idx.freeCount \in Nat
           /\ Headless(idx) <=> ~idx.header
           /\ idx # Absent /\ idx # Torn
<1>1. idx.entries \in Seq(Entry) /\ idx.freeCount \in Nat
  BY DEF Index
<1>2. \A i \in 1..Len(idx.entries) : idx.entries[i] \in Entry
  BY <1>1, SeqFunction
<1>3. QED
  BY <1>1, <1>2, SeqFunction, MarkAssumption DEF Entry, Headless

\* The free entries are finitely many.
LEMMA FreeFinite ==
    ASSUME NEW idx \in Index
    PROVE  /\ IsFiniteSet(Free(idx)) /\ Free(idx) \subseteq 1..Len(idx.entries)
           /\ Cardinality(Free(idx)) \in Nat
<1>1. Free(idx) \subseteq 1..Len(idx.entries) /\ Len(idx.entries) \in Nat
  BY IndexType DEF Free
<1>2. IsFiniteSet(1..Len(idx.entries))
  BY <1>1, FS_Interval
<1>3. QED
  BY <1>1, <1>2, FS_Subset, FS_CardinalityType

\* The entries of a name that are not free.
LEMMA LookupIndex ==
    ASSUME NEW idx \in Index, NEW n
    PROVE  Lookup(idx, n) =
               {i \in 1..Len(idx.entries) : idx.entries[i].name = n /\ ~idx.entries[i].free}
BY IndexType DEF Lookup

\* The empty index, and the one without a header, agree with an empty file.
LEMMA EmptyAgrees ==
    ASSUME NEW dat \in {Absent} \cup Seq(Block), FileLength(dat) = 0
    PROVE  \A idx \in {EmptyIndex, BlankIndex} :
              /\ idx \in Index /\ Agree(idx, dat)
              /\ \A n : Lookup(idx, n) = {}
              /\ ~Misread(idx) /\ (Headless(idx) <=> idx = BlankIndex)
<1>1. SUFFICES ASSUME NEW idx \in {EmptyIndex, BlankIndex}
               PROVE  /\ idx \in Index /\ Agree(idx, dat)
                      /\ \A n : Lookup(idx, n) = {}
                      /\ ~Misread(idx) /\ (Headless(idx) <=> idx = BlankIndex)
  OBVIOUS
<1>2. /\ idx \in Index /\ idx.entries = <<>> /\ idx.freeCount = 0
      /\ ~idx.header <=> idx = BlankIndex
  <2>1. <<>> \in Seq(Entry)
    BY EmptySeq
  <2>2. CASE idx = EmptyIndex
    BY <2>1, <2>2 DEF EmptyIndex, BlankIndex, Index
  <2>3. CASE idx = BlankIndex
    BY <2>1, <2>3 DEF BlankIndex, Index
  <2>4. QED
    BY <2>2, <2>3
<1>3. Len(idx.entries) = 0 /\ DOMAIN idx.entries = {}
  BY <1>2, EmptySeq, IndexType
<1>4. Free(idx) = {} /\ \A n : Lookup(idx, n) = {}
  BY <1>2, <1>3, IndexType DEF Free, Lookup
<1>5. Agree(idx, dat)
  BY <1>2, <1>3, <1>4, FS_EmptySet DEF Agree
<1>6. ~Misread(idx) /\ (Headless(idx) <=> idx = BlankIndex)
  BY <1>2, IndexType DEF Misread
<1>7. QED
  BY <1>2, <1>4, <1>5, <1>6

\* An index whose entries are read where they are.
Readable(idx) == idx # Torn /\ ~Headless(idx)

\* What is read through an index that agrees with the data.
LEMMA ContentsAt ==
    ASSUME NEW idx, NEW dat, Agree(idx, dat), Readable(idx), NEW n \in Name
    PROVE  /\ Lookup(idx, n) = {} => Contents(idx, dat)[n] = None
           /\ \A i \in Lookup(idx, n) : Contents(idx, dat)[n] = dat[i]
<1>1. CASE Lookup(idx, n) = {}
  BY <1>1 DEF Contents, Readable, Misread
<1>2. CASE Lookup(idx, n) # {}
  <2>1. idx \in Index
    BY <1>2 DEF Agree, Lookup
  <2>2. PICK i \in Lookup(idx, n) : i = CHOOSE j \in Lookup(idx, n) : TRUE
    BY <1>2
  <2>3. \A j \in Lookup(idx, n) : j = i
    BY <2>1, <2>2, MarkAssumption DEF Agree
  <2>4. i \in 1..Len(idx.entries) /\ idx.entries[i].at = i
        /\ Len(idx.entries) = FileLength(dat)
    BY <2>1, <2>2, IndexType, LookupIndex DEF Agree
  <2>5. Len(idx.entries) \in Nat
    BY <2>1, IndexType
  <2>6. dat # Absent /\ FileLength(dat) = Len(dat)
    BY <2>4, <2>5 DEF FileLength
  <2>7. Contents(idx, dat)[n] =
           IF dat = Absent \/ idx.entries[i].at > Len(dat) THEN Torn ELSE dat[idx.entries[i].at]
    BY <1>2, <2>2 DEF Contents, Readable, Misread
  <2>8. Contents(idx, dat)[n] = dat[i]
    BY <2>4, <2>5, <2>6, <2>7
  <2>9. QED
    BY <1>2, <2>3, <2>8
<1>3. QED
  BY <1>1, <1>2

-----------------------------------------------------------------------------
\* The entry of an instance is marked as free and counted.
Freed(idx, n) == CountFree(MarkFree(idx, n))

\* What that does to the entries.
LEMMA FreedEntries ==
    ASSUME NEW idx \in Index, NEW n, Lookup(idx, n) # {}
    PROVE  \E i \in Lookup(idx, n) :
              /\ MarkFree(idx, n) \in Index /\ Freed(idx, n) \in Index
              /\ MarkFree(idx, n).freeCount = idx.freeCount
              /\ MarkFree(idx, n).header = idx.header /\ Freed(idx, n).header = idx.header
              /\ Freed(idx, n).freeCount = idx.freeCount + 1
              /\ Freed(idx, n).entries = MarkFree(idx, n).entries
              /\ Len(Freed(idx, n).entries) = Len(idx.entries)
              /\ \A j \in 1..Len(idx.entries) :
                    /\ Freed(idx, n).entries[j].name = idx.entries[j].name
                    /\ Freed(idx, n).entries[j].at = idx.entries[j].at
                    /\ Freed(idx, n).entries[j].free <=> (j = i \/ idx.entries[j].free)
<1>1. PICK i \in Lookup(idx, n) : i = CHOOSE j \in Lookup(idx, n) : TRUE
  OBVIOUS
<1>2. idx.entries \in Seq(Entry) /\ i \in 1..Len(idx.entries) /\ idx.freeCount \in Nat
      /\ Len(idx.entries) \in Nat
  BY <1>1, LookupIndex, IndexType
<1>3. PICK e \in Entry : e = idx.entries[i]
  BY <1>2, IndexType
<1>4. PICK f \in Entry : f = [e EXCEPT !.free = TRUE]
  BY DEF Entry
<1>5. f.name = e.name /\ f.at = e.at /\ f.free = TRUE
  BY <1>4 DEF Entry
<1>6. PICK entries \in Seq(Entry) : entries = [idx.entries EXCEPT ![i] = f]
  BY <1>2, ExceptSeq
<1>7. /\ Len(entries) = Len(idx.entries)
      /\ \A j \in 1..Len(idx.entries) : entries[j] = IF j = i THEN f ELSE idx.entries[j]
  BY <1>2, <1>6, ExceptSeq
<1>8. MarkFree(idx, n) = [idx EXCEPT !.entries = entries]
  <2>1. MarkFree(idx, n) = [idx EXCEPT !.entries = [idx.entries EXCEPT ![i].free = TRUE]]
    BY <1>1 DEF MarkFree, Index
  <2>2. [idx.entries EXCEPT ![i].free = TRUE] = [idx.entries EXCEPT ![i] = f]
    BY <1>3, <1>4
  <2>3. QED
    BY <1>6, <2>1, <2>2
<1>9. /\ MarkFree(idx, n) \in Index /\ MarkFree(idx, n).entries = entries
      /\ MarkFree(idx, n).freeCount = idx.freeCount
      /\ MarkFree(idx, n).header = idx.header
  BY <1>8 DEF Index
<1>10. /\ Freed(idx, n) \in Index /\ Freed(idx, n).entries = entries
       /\ Freed(idx, n).freeCount = idx.freeCount + 1
       /\ Freed(idx, n).header = idx.header
  BY <1>9 DEF Freed, CountFree, Index
<1>11. \A j \in 1..Len(idx.entries) :
          /\ entries[j].name = idx.entries[j].name
          /\ entries[j].at = idx.entries[j].at
          /\ entries[j].free <=> (j = i \/ idx.entries[j].free)
  BY <1>3, <1>5, <1>7
<1>12. QED
  BY <1>7, <1>9, <1>10, <1>11

\* The instance is gone, the others stay, and the count is right.
LEMMA FreedAgrees ==
    ASSUME NEW idx \in Index, NEW dat, Agree(idx, dat), NEW n \in Name, Lookup(idx, n) # {}
    PROVE  /\ Freed(idx, n) \in Index /\ Agree(Freed(idx, n), dat)
           /\ Freed(idx, n).header = idx.header
           /\ Lookup(Freed(idx, n), n) = {}
           /\ \A m \in Name : m # n => Lookup(Freed(idx, n), m) = Lookup(idx, m)
<1>1. PICK new \in Index : new = Freed(idx, n)
  BY FreedEntries
<1>2. PICK i \in Lookup(idx, n) :
         /\ new.freeCount = idx.freeCount + 1 /\ new.header = idx.header
         /\ Len(new.entries) = Len(idx.entries)
         /\ \A j \in 1..Len(idx.entries) :
               /\ new.entries[j].name = idx.entries[j].name
               /\ new.entries[j].at = idx.entries[j].at
               /\ new.entries[j].free <=> (j = i \/ idx.entries[j].free)
  BY <1>1, FreedEntries
<1>3. /\ Len(idx.entries) = FileLength(dat)
      /\ \A j \in 1..Len(idx.entries) : idx.entries[j].at = j
      /\ idx.freeCount = Cardinality(Free(idx))
      /\ \A m \in Name : \A j, k \in Lookup(idx, m) : j = k
  BY IndexType DEF Agree
<1>4. i \in 1..Len(idx.entries) /\ idx.entries[i].name = n /\ ~idx.entries[i].free
  BY LookupIndex
<1>5. Lookup(new, n) = {}
  <2>1. ASSUME NEW j \in Lookup(new, n) PROVE FALSE
    <3>1. /\ j \in 1..Len(idx.entries) /\ idx.entries[j].name = n /\ j # i
          /\ ~idx.entries[j].free
      BY <1>2, <2>1, LookupIndex
    <3>2. j \in Lookup(idx, n)
      BY <3>1, LookupIndex
    <3>3. QED
      BY <1>3, <3>1, <3>2
  <2>2. QED
    BY <2>1
<1>6. ASSUME NEW m \in Name, m # n PROVE Lookup(new, m) = Lookup(idx, m)
  <2>1. Lookup(new, m) =
           {j \in 1..Len(idx.entries) : new.entries[j].name = m /\ ~new.entries[j].free}
    BY <1>2, LookupIndex
  <2>2. Lookup(idx, m) =
           {j \in 1..Len(idx.entries) : idx.entries[j].name = m /\ ~idx.entries[j].free}
    BY LookupIndex
  <2>3. QED
    BY <1>2, <1>4, <1>6, <2>1, <2>2
<1>7. Free(new) = Free(idx) \cup {i}
  <2>1. Free(new) = {j \in 1..Len(idx.entries) : new.entries[j].free}
    BY <1>2, IndexType DEF Free
  <2>2. Free(idx) = {j \in 1..Len(idx.entries) : idx.entries[j].free}
    BY IndexType DEF Free
  <2>3. QED
    BY <1>2, <1>4, <2>1, <2>2
<1>8. new.freeCount = Cardinality(Free(new))
  <2>1. i \notin Free(idx)
    BY <1>4 DEF Free
  <2>2. Cardinality(Free(idx) \cup {i}) = Cardinality(Free(idx)) + 1
    BY <2>1, FreeFinite, FS_AddElement
  <2>3. QED
    BY <1>2, <1>3, <1>7, <2>2
<1>9. \A m \in Name : \A j, k \in Lookup(new, m) : j = k
  BY <1>3, <1>5, <1>6
<1>10. Agree(new, dat)
  <2>1. \A j \in DOMAIN new.entries : new.entries[j].at = j
    BY <1>2, <1>3, IndexType
  <2>2. QED
    BY <1>2, <1>3, <1>8, <1>9, <2>1 DEF Agree
<1>11. QED
  BY <1>1, <1>2, <1>5, <1>6, <1>10

\* An entry is appended.
LEMMA NewEntryAgrees ==
    ASSUME NEW idx \in Index, NEW dat, Agree(idx, dat), NEW n \in Name, Lookup(idx, n) = {},
           NEW other, FileLength(dat) \in Nat, FileLength(other) = FileLength(dat) + 1
    PROVE  LET new == NewEntry(idx, n, FileLength(other))
           IN  /\ new \in Index /\ Agree(new, other)
               /\ new.header = idx.header /\ new.entries # <<>>
               /\ Lookup(new, n) = {FileLength(other)}
               /\ \A m \in Name : m # n => Lookup(new, m) = Lookup(idx, m)
<1>0. PICK top \in Nat \ {0} : top = FileLength(other) /\ top = FileLength(dat) + 1
  OBVIOUS
<1>1. PICK e \in Entry : e = [name |-> n, at |-> top, free |-> FALSE]
  BY <1>0 DEF Entry
<1>2. e.name = n /\ e.at = top /\ e.free = FALSE
  BY <1>1
<1>3. /\ Len(idx.entries) = FileLength(dat)
      /\ idx.entries \in Seq(Entry)
      /\ idx.freeCount \in Nat
      /\ \A j \in 1..Len(idx.entries) : idx.entries[j].at = j
      /\ idx.freeCount = Cardinality(Free(idx))
      /\ \A m \in Name : \A j, k \in Lookup(idx, m) : j = k
  BY IndexType DEF Agree
<1>4. PICK entries :
         /\ entries \in Seq(Entry)
         /\ entries = Append(idx.entries, e)
         /\ Len(entries) = top
         /\ entries[top] = e
         /\ \A j \in 1..FileLength(dat) : entries[j] = idx.entries[j]
  <2>1. /\ Append(idx.entries, e) \in Seq(Entry)
        /\ Len(Append(idx.entries, e)) = Len(idx.entries) + 1
        /\ Append(idx.entries, e)[Len(idx.entries) + 1] = e
        /\ \A j \in 1..Len(idx.entries) : Append(idx.entries, e)[j] = idx.entries[j]
    BY <1>3, AppendProperties
  <2>2. Len(idx.entries) = FileLength(dat) /\ top = FileLength(dat) + 1
    BY <1>0, <1>3
  <2>3. QED
    BY <2>1, <2>2
<1>5. PICK new : /\ new \in Index /\ new = NewEntry(idx, n, top)
                 /\ new.entries = entries /\ new.freeCount = idx.freeCount
                 /\ new.header = idx.header
  <2>1. NewEntry(idx, n, top) = [idx EXCEPT !.entries = entries]
    BY <1>1, <1>4 DEF NewEntry, Index
  <2>2. QED
    BY <1>4, <2>1 DEF Index
<1>6. /\ top = FileLength(dat) + 1
      /\ 1..top = (1..FileLength(dat)) \cup {top} /\ top \notin 1..FileLength(dat)
  BY <1>0
<1>a. \A m : Lookup(new, m) = {j \in 1..top : entries[j].name = m /\ ~entries[j].free}
  <2>1. new \in Index /\ new.entries = entries /\ Len(new.entries) = top
    BY <1>4, <1>5
  <2>2. \A m : Lookup(new, m) =
           {j \in 1..Len(new.entries) : new.entries[j].name = m /\ ~new.entries[j].free}
    BY <2>1, LookupIndex
  <2>3. QED
    BY <2>1, <2>2
<1>b. \A m : Lookup(idx, m) =
         {j \in 1..FileLength(dat) : idx.entries[j].name = m /\ ~idx.entries[j].free}
  <2>1. Len(idx.entries) = FileLength(dat)
    BY <1>3
  <2>2. \A m : Lookup(idx, m) =
           {j \in 1..Len(idx.entries) : idx.entries[j].name = m /\ ~idx.entries[j].free}
    BY LookupIndex
  <2>3. QED
    BY <2>1, <2>2
<1>7. Lookup(new, n) = {top}
  <2>1. \A j \in 1..FileLength(dat) : ~(idx.entries[j].name = n /\ ~idx.entries[j].free)
    <3>1. Lookup(idx, n) =
             {j \in 1..FileLength(dat) : idx.entries[j].name = n /\ ~idx.entries[j].free}
      BY <1>b
    <3>2. QED
      BY <3>1
  <2>2. Lookup(new, n) = {j \in 1..top : entries[j].name = n /\ ~entries[j].free}
    BY <1>a
  <2>3. QED
    BY <1>2, <1>4, <1>6, <2>1, <2>2
<1>8. ASSUME NEW m \in Name, m # n PROVE Lookup(new, m) = Lookup(idx, m)
  <2>1. Lookup(new, m) = {j \in 1..top : entries[j].name = m /\ ~entries[j].free}
    BY <1>a
  <2>2. Lookup(idx, m) =
           {j \in 1..FileLength(dat) : idx.entries[j].name = m /\ ~idx.entries[j].free}
    BY <1>b
  <2>3. QED
    BY <1>2, <1>4, <1>6, <1>8, <2>1, <2>2
<1>9. Free(new) = Free(idx)
  <2>1. Free(new) = {j \in 1..top : entries[j].free}
    BY <1>4, <1>5, IndexType DEF Free
  <2>2. Free(idx) = {j \in 1..FileLength(dat) : idx.entries[j].free}
    BY <1>3, IndexType DEF Free
  <2>3. QED
    BY <1>2, <1>4, <1>6, <2>1, <2>2
<1>10. \A m \in Name : \A j, k \in Lookup(new, m) : j = k
  BY <1>3, <1>7, <1>8
<1>11. \A j \in DOMAIN new.entries : new.entries[j].at = j
  <2>1. DOMAIN new.entries = 1..top
    BY <1>4, <1>5, IndexType
  <2>2. QED
    BY <1>2, <1>3, <1>4, <1>5, <1>6, <2>1
<1>12. Agree(new, other)
  BY <1>0, <1>3, <1>4, <1>5, <1>9, <1>10, <1>11 DEF Agree
<1>13. new.entries # <<>>
  BY <1>0, <1>4, <1>5, EmptySeq
<1>14. QED
  BY <1>0, <1>5, <1>7, <1>8, <1>12, <1>13

-----------------------------------------------------------------------------
\* What an instance reads depends on its entry and its block.
LEMMA ContentsSame ==
    ASSUME NEW idx, NEW dat, Agree(idx, dat), Readable(idx),
           NEW new, NEW other, Agree(new, other), Readable(new),
           NEW n \in Name, Lookup(new, n) = Lookup(idx, n),
           \A i \in 1..FileLength(dat) : other[i] = dat[i]
    PROVE  Contents(new, other)[n] = Contents(idx, dat)[n]
<1>1. CASE Lookup(idx, n) = {}
  BY <1>1, ContentsAt
<1>2. CASE Lookup(idx, n) # {}
  <2>1. PICK i \in Lookup(idx, n) : TRUE
    BY <1>2
  <2>2. idx \in Index /\ Len(idx.entries) = FileLength(dat)
    BY <1>2 DEF Agree, Lookup
  <2>3. i \in 1..FileLength(dat)
    BY <2>1, <2>2, LookupIndex
  <2>4. Contents(idx, dat)[n] = dat[i] /\ Contents(new, other)[n] = other[i]
    BY <2>1, ContentsAt
  <2>5. QED
    BY <2>3, <2>4
<1>3. QED
  BY <1>1, <1>2

\* What is read of a class is a function.
LEMMA ContentsFunction ==
    ASSUME NEW idx, NEW dat
    PROVE  Contents(idx, dat) = [n \in Name |-> Contents(idx, dat)[n]]
BY DEF Contents

\* The same instances.
LEMMA ContentsEqual ==
    ASSUME NEW idx, NEW dat, NEW new, NEW other,
           \A n \in Name : Contents(new, other)[n] = Contents(idx, dat)[n]
    PROVE  Contents(new, other) = Contents(idx, dat)
<1>1. /\ Contents(idx, dat) = [n \in Name |-> Contents(idx, dat)[n]]
      /\ Contents(new, other) = [n \in Name |-> Contents(new, other)[n]]
  BY ContentsFunction
<1>2. QED
  BY <1>1

\* Whether an index agrees with a file, and what is read, is the same for an empty file as
\* for none.
LEMMA AgreeSame ==
    ASSUME NEW idx, NEW dat, Agree(idx, dat), NEW other,
           FileLength(other) = FileLength(dat),
           \A i \in 1..FileLength(dat) : other[i] = dat[i]
    PROVE  /\ Agree(idx, other)
           /\ idx # Torn => Contents(idx, other) = Contents(idx, dat)
<1>1. Agree(idx, other)
  BY DEF Agree
<1>2. ASSUME idx # Torn, NEW n \in Name PROVE Contents(idx, other)[n] = Contents(idx, dat)[n]
  <2>1. CASE Headless(idx)
    BY <1>2, <2>1 DEF Contents
  <2>2. CASE ~Headless(idx)
    BY <1>1, <1>2, <2>2, ContentsSame DEF Readable
  <2>3. QED
    BY <2>1, <2>2
<1>3. QED
  BY <1>1, <1>2, ContentsEqual

\* What is read of an instance is one of its blocks, or None.
LEMMA ContentsBlock ==
    ASSUME NEW idx, NEW dat \in {Absent} \cup Seq(Block), Agree(idx, dat),
           Readable(idx), NEW n \in Name
    PROVE  /\ Contents(idx, dat)[n] = None <=> Lookup(idx, n) = {}
           /\ Contents(idx, dat)[n] # Blank
<1>1. CASE Lookup(idx, n) = {}
  BY <1>1, ContentsAt, MarkAssumption
<1>2. CASE Lookup(idx, n) # {}
  <2>1. PICK i \in Lookup(idx, n) : TRUE
    BY <1>2
  <2>2. idx \in Index /\ Len(idx.entries) = FileLength(dat)
    BY <1>2 DEF Agree, Lookup
  <2>3. i \in 1..FileLength(dat)
    BY <2>1, <2>2, LookupIndex
  <2>4. Contents(idx, dat)[n] = dat[i] /\ dat[i] \in Block
    BY <2>1, <2>3, ContentsAt, FileLengthType
  <2>5. QED
    BY <1>2, <2>4, MarkAssumption DEF Block
<1>3. QED
  BY <1>1, <1>2

\* To append an entry and to count another one as free do not depend on their order.
LEMMA ModifiedIndex ==
    ASSUME NEW idx \in Index, NEW n \in Name, NEW top \in Nat \ {0}, Lookup(idx, n) # {}
    PROVE  CountFree(NewEntry(MarkFree(idx, n), n, top)) = NewEntry(Freed(idx, n), n, top)
<1>1. /\ MarkFree(idx, n) \in Index /\ Freed(idx, n) \in Index
      /\ MarkFree(idx, n).freeCount = idx.freeCount
      /\ Freed(idx, n).freeCount = idx.freeCount + 1
      /\ Freed(idx, n).header = MarkFree(idx, n).header
      /\ Freed(idx, n).entries = MarkFree(idx, n).entries
  BY FreedEntries
<1>2. PICK old \in Index : old = MarkFree(idx, n)
  BY <1>1
<1>3. PICK new \in Index : new = Freed(idx, n)
  BY <1>1
<1>4. PICK e \in Entry : e = [name |-> n, at |-> top, free |-> FALSE]
  BY DEF Entry
<1>5. PICK entries \in Seq(Entry) : entries = Append(old.entries, e)
  BY IndexType, AppendProperties
<1>6. /\ NewEntry(old, n, top) = [old EXCEPT !.entries = entries]
      /\ NewEntry(new, n, top) = [new EXCEPT !.entries = entries]
  BY <1>1, <1>2, <1>3, <1>4, <1>5 DEF NewEntry, Index
<1>7. new = [header |-> old.header, freeCount |-> old.freeCount + 1, entries |-> old.entries]
  BY <1>1, <1>2, <1>3 DEF Index
<1>a. \A i \in Index : LET j == [i EXCEPT !.entries = entries]
                      IN  j \in Index /\ j.entries = entries /\ j.freeCount = i.freeCount
                          /\ j.header = i.header
  BY DEF Index
<1>8. PICK one \in Index : one = NewEntry(old, n, top) /\ one.entries = entries
                        /\ one.freeCount = old.freeCount /\ one.header = old.header
  BY <1>6, <1>a
<1>9. PICK two \in Index : two = NewEntry(new, n, top) /\ two.entries = entries
                        /\ two.freeCount = old.freeCount + 1 /\ two.header = old.header
  BY <1>6, <1>7, <1>a
<1>10. [one EXCEPT !.freeCount = one.freeCount + 1] = two
  BY <1>8, <1>9 DEF Index
<1>11. QED
  BY <1>2, <1>3, <1>8, <1>9, <1>10 DEF CountFree

\* What an absent index shows, and one without entries that count: nothing.
LEMMA NothingShown ==
    ASSUME NEW dat, NEW idx \in {Absent} \cup Index, ~Headless(idx),
           \A n \in Name : Lookup(idx, n) = {}
    PROVE  Contents(idx, dat) = [n \in Name |-> None]
<1>1. idx # Torn /\ ~Misread(idx)
  BY MarkAssumption DEF Misread
<1>2. QED
  BY <1>1 DEF Contents

\* What an index without a header shows while it has no entries.
LEMMA BlankShown ==
    ASSUME NEW dat, NEW idx \in Index, Headless(idx), ~Misread(idx)
    PROVE  Contents(idx, dat) = [n \in Name |-> Blank]
<1>1. idx # Torn
  BY MarkAssumption
<1>2. QED
  BY <1>1 DEF Contents

\* The indexes of a class in which nothing was created yet.
LEMMA NewIndexShown ==
    ASSUME NEW dat
    PROVE  /\ EmptyIndex \in Index /\ EmptyIndex # Absent /\ BlankIndex # Absent
           /\ Contents(Absent, dat) = [n \in Name |-> None]
           /\ Contents(EmptyIndex, dat) = [n \in Name |-> None]
           /\ Contents(BlankIndex, dat) = [n \in Name |-> Blank]
<1>1. \A n \in Name : Lookup(Absent, n) = {} /\ Lookup(EmptyIndex, n) = {}
  BY EmptySeq DEF Lookup, EmptyIndex
<1>2. EmptyIndex \in Index /\ BlankIndex \in Index
  BY EmptySeq DEF EmptyIndex, BlankIndex, Index
<1>3. ~Headless(Absent) /\ ~Headless(EmptyIndex)
  BY DEF Headless, EmptyIndex
<1>4. Headless(BlankIndex) /\ ~Misread(BlankIndex)
  BY <1>2, MarkAssumption DEF Headless, Misread, BlankIndex
<1>5. EmptyIndex # Absent /\ BlankIndex # Absent
  BY <1>2, MarkAssumption
<1>6. QED
  BY <1>1, <1>2, <1>3, <1>4, <1>5, NothingShown, BlankShown

-----------------------------------------------------------------------------
\* What UpdatedIndex makes of an index: idx and dat are the files before the change, new
\* and other those after it.
Updates(r, idx, dat, new, other) ==
    /\ new \in Index /\ Agree(new, other) /\ new.header = idx.header
    /\ Fits(r, Contents(idx, dat))
    /\ Contents(new, other) = Changed(r, Contents(idx, dat))

\* It does so when the instance changes and the others stay.
LEMMA UpdatesFrom ==
    ASSUME NEW r, r.name \in Name,
           NEW idx \in Index, NEW dat \in {Absent} \cup Seq(Block), Agree(idx, dat),
           ~Headless(idx), Fits(r, Contents(idx, dat)),
           NEW new \in Index, NEW other, Agree(new, other), new.header = idx.header,
           \A i \in 1..FileLength(dat) : other[i] = dat[i],
           Contents(new, other)[r.name] = IF r.kind = "delete" THEN None ELSE r.value,
           \A m \in Name : m # r.name => Lookup(new, m) = Lookup(idx, m)
    PROVE  Updates(r, idx, dat, new, other)
<1>1. Readable(idx) /\ Readable(new)
  BY IndexType DEF Readable
<1>2. \A m \in Name : m # r.name => Contents(new, other)[m] = Contents(idx, dat)[m]
  BY <1>1, ContentsSame
<1>3. /\ Contents(idx, dat) = [m \in Name |-> Contents(idx, dat)[m]]
      /\ Contents(new, other) = [m \in Name |-> Contents(new, other)[m]]
  BY ContentsFunction
<1>4. Contents(new, other) = Changed(r, Contents(idx, dat))
  <2>1. \A f, g : /\ f = [m \in Name |-> f[m]] /\ g = [m \in Name |-> g[m]]
                  /\ \A m \in Name : m # r.name => g[m] = f[m]
                  /\ g[r.name] = IF r.kind = "delete" THEN None ELSE r.value
                  => g = [f EXCEPT ![r.name] = IF r.kind = "delete" THEN None ELSE r.value]
    <3>1. ASSUME NEW f, NEW g, f = [m \in Name |-> f[m]], g = [m \in Name |-> g[m]],
                 \A m \in Name : m # r.name => g[m] = f[m],
                 g[r.name] = IF r.kind = "delete" THEN None ELSE r.value
          PROVE  g = [f EXCEPT ![r.name] = IF r.kind = "delete" THEN None ELSE r.value]
      <4>1. PICK h : h = [f EXCEPT ![r.name] = IF r.kind = "delete" THEN None ELSE r.value]
        OBVIOUS
      <4>2. DOMAIN f = Name
        BY <3>1
      <4>3. /\ h = [m \in Name |-> h[m]]
            /\ \A m \in Name : m # r.name => h[m] = f[m]
            /\ h[r.name] = IF r.kind = "delete" THEN None ELSE r.value
        BY <4>1, <4>2
      <4>4. \A m \in Name : h[m] = g[m]
        BY <3>1, <4>3
      <4>5. h = g
        BY <3>1, <4>3, <4>4
      <4>6. QED
        BY <4>1, <4>5
    <3>2. QED
      BY <3>1
  <2>2. QED
    BY <1>1, <1>2, <1>3, <2>1, ContentsBlock DEF Changed
<1>5. QED
  BY <1>4 DEF Updates

\* An instance is created.
LEMMA UpdatesCreate ==
    ASSUME NEW r, r.name \in Name, r.kind = "create",
           NEW idx \in Index, NEW dat \in {Absent} \cup Seq(Block), Agree(idx, dat),
           Lookup(idx, r.name) = {}, ~Misread(idx),
           NEW other \in {Absent} \cup Seq(Block), FileLength(other) = FileLength(dat) + 1,
           other[FileLength(other)] = r.value,
           \A i \in 1..FileLength(dat) : other[i] = dat[i]
    PROVE  Updates(r, idx, dat, NewEntry(idx, r.name, FileLength(other)), other)
<1>1. FileLength(dat) \in Nat
  BY FileLengthType
<1>2. PICK n \in Name : n = r.name
  OBVIOUS
<1>3. PICK new : new = NewEntry(idx, n, FileLength(other))
  OBVIOUS
<1>4. /\ new \in Index /\ Agree(new, other)
      /\ new.header = idx.header /\ new.entries # <<>>
      /\ Lookup(new, n) = {FileLength(other)}
      /\ \A m \in Name : m # n => Lookup(new, m) = Lookup(idx, m)
  BY <1>1, <1>2, <1>3, NewEntryAgrees
<1>5. CASE Headless(idx)
  <2>1. Misread(new)
    BY <1>4, <1>5, IndexType DEF Misread
  <2>2. Contents(new, other) = [m \in Name |-> Torn]
    BY <2>1 DEF Contents
  <2>3. Contents(idx, dat)[n] = Blank
    BY <1>2, <1>5, IndexType DEF Contents
  <2>4. Fits(r, Contents(idx, dat)) /\ Contents(new, other) = Changed(r, Contents(idx, dat))
    BY <1>2, <2>2, <2>3 DEF Fits, Changed
  <2>5. QED
    BY <1>2, <1>3, <1>4, <2>4 DEF Updates
<1>6. CASE ~Headless(idx)
  <2>1. Readable(idx) /\ Readable(new)
    BY <1>4, <1>6, IndexType DEF Readable
  <2>2. Contents(new, other)[n] = other[FileLength(other)]
    BY <1>4, <2>1, ContentsAt
  <2>3. Fits(r, Contents(idx, dat))
    BY <1>2, <2>1, ContentsAt DEF Fits
  <2>4. Updates(r, idx, dat, new, other)
    BY <1>2, <1>4, <1>6, <2>2, <2>3, UpdatesFrom
  <2>5. QED
    BY <1>2, <1>3, <2>4
<1>7. QED
  BY <1>5, <1>6

\* An instance is deleted.
LEMMA UpdatesDelete ==
    ASSUME NEW r, r.name \in Name, r.kind = "delete",
           NEW idx \in Index, NEW dat \in {Absent} \cup Seq(Block), Agree(idx, dat),
           Lookup(idx, r.name) # {}, ~Headless(idx),
           NEW other \in {Absent} \cup Seq(Block), FileLength(other) = FileLength(dat),
           \A i \in 1..FileLength(dat) : other[i] = dat[i]
    PROVE  Updates(r, idx, dat, CountFree(MarkFree(idx, r.name)), other)
<1>1. Readable(idx)
  BY IndexType DEF Readable
<1>2. PICK n \in Name : n = r.name
  OBVIOUS
<1>3. PICK new : new = Freed(idx, n)
  OBVIOUS
<1>4. /\ new \in Index /\ Agree(new, dat) /\ new.header = idx.header
      /\ Lookup(new, n) = {}
      /\ \A m \in Name : m # n => Lookup(new, m) = Lookup(idx, m)
  BY <1>2, <1>3, FreedAgrees
<1>5. Agree(new, other) /\ Readable(new)
  BY <1>4, AgreeSame, IndexType DEF Readable
<1>6. Contents(new, other)[n] = None
  BY <1>4, <1>5, ContentsAt
<1>7. Contents(idx, dat)[n] \notin {None, Blank}
  BY <1>1, <1>2, ContentsBlock
<1>8. Fits(r, Contents(idx, dat))
  BY <1>2, <1>7 DEF Fits
<1>9. Updates(r, idx, dat, new, other)
  BY <1>2, <1>4, <1>5, <1>6, <1>8, UpdatesFrom
<1>10. QED
  BY <1>2, <1>3, <1>9 DEF Freed

\* An instance is modified.
LEMMA UpdatesModify ==
    ASSUME NEW r, r.name \in Name, r.kind = "modify",
           NEW idx \in Index, NEW dat \in {Absent} \cup Seq(Block), Agree(idx, dat),
           Lookup(idx, r.name) # {}, ~Headless(idx),
           NEW other \in {Absent} \cup Seq(Block), FileLength(other) = FileLength(dat) + 1,
           other[FileLength(other)] = r.value,
           \A i \in 1..FileLength(dat) : other[i] = dat[i]
    PROVE  Updates(r, idx, dat,
               CountFree(NewEntry(MarkFree(idx, r.name), r.name, FileLength(other))), other)
<1>1. FileLength(dat) \in Nat /\ Readable(idx) /\ FileLength(other) \in Nat \ {0}
  BY FileLengthType, IndexType DEF Readable
<1>2. PICK n \in Name : n = r.name
  OBVIOUS
<1>3. PICK old : old = Freed(idx, n)
  OBVIOUS
<1>4. /\ old \in Index /\ Agree(old, dat) /\ old.header = idx.header
      /\ Lookup(old, n) = {}
      /\ \A m \in Name : m # n => Lookup(old, m) = Lookup(idx, m)
  BY <1>2, <1>3, FreedAgrees
<1>5. PICK new : new = NewEntry(old, n, FileLength(other))
  OBVIOUS
<1>6. /\ new \in Index /\ Agree(new, other) /\ new.header = idx.header
      /\ Lookup(new, n) = {FileLength(other)}
      /\ \A m \in Name : m # n => Lookup(new, m) = Lookup(old, m)
  BY <1>1, <1>4, <1>5, NewEntryAgrees
<1>7. Readable(new)
  BY <1>6, IndexType DEF Readable
<1>8. Contents(new, other)[n] = other[FileLength(other)]
  BY <1>6, <1>7, ContentsAt
<1>9. Contents(idx, dat)[n] \notin {None, Blank}
  BY <1>1, <1>2, ContentsBlock
<1>10. Fits(r, Contents(idx, dat))
  BY <1>2, <1>9 DEF Fits
<1>11. Updates(r, idx, dat, new, other)
  BY <1>2, <1>4, <1>6, <1>8, <1>10, UpdatesFrom
<1>12. new = CountFree(NewEntry(MarkFree(idx, n), n, FileLength(other)))
  BY <1>1, <1>2, <1>3, <1>5, ModifiedIndex
<1>13. QED
  BY <1>2, <1>11, <1>12

-----------------------------------------------------------------------------
\* How many positions of a set are not beyond i.
Rank(kept, i) == Cardinality({j \in kept : j <= i})

\* The ranks of a set of positions are the numbers up to its size, each taken once.
LEMMA Ranks ==
    ASSUME NEW n \in Nat, NEW kept \in SUBSET (1..n)
    PROVE  /\ IsFiniteSet(kept) /\ Cardinality(kept) \in Nat
           /\ \A i \in kept : Rank(kept, i) \in 1..Cardinality(kept)
           /\ \A i, j \in kept : Rank(kept, i) = Rank(kept, j) => i = j
           /\ \A k \in 1..Cardinality(kept) : \E i \in kept : Rank(kept, i) = k
<1>0. \A i \in kept : i \in 1..n /\ i \in Int
  OBVIOUS
<1>1. IsFiniteSet(1..n)
  BY FS_Interval
<1>2. IsFiniteSet(kept) /\ Cardinality(kept) \in Nat
  BY <1>1, FS_Subset, FS_CardinalityType
<1>3. ASSUME NEW i \in kept
      PROVE  /\ IsFiniteSet({j \in kept : j <= i})
             /\ Rank(kept, i) \in 1..Cardinality(kept)
  <2>1. PICK below \in SUBSET kept : below = {j \in kept : j <= i}
    OBVIOUS
  <2>2. IsFiniteSet(below) /\ Cardinality(below) \in Nat
        /\ Cardinality(below) <= Cardinality(kept)
    BY <1>2, FS_Subset, FS_CardinalityType
  <2>3. i \in below
    BY <2>1
  <2>4. Cardinality(below) # 0
    BY <2>2, <2>3, FS_EmptySet
  <2>5. QED
    BY <1>2, <2>1, <2>2, <2>4 DEF Rank
<1>4. ASSUME NEW i \in kept, NEW j \in kept, i < j PROVE Rank(kept, i) < Rank(kept, j)
  <2>1. PICK first \in SUBSET kept : first = {k \in kept : k <= i}
    OBVIOUS
  <2>2. PICK second \in SUBSET kept : second = {k \in kept : k <= j}
    OBVIOUS
  <2>3. first \subseteq second /\ j \in second /\ j \notin first
    <3>1. i \in Int /\ j \in Int /\ i < j
      BY <1>0, <1>4
    <3>2. ~(j <= i) /\ j <= j
      BY <3>1
    <3>3. ASSUME NEW k \in kept, k <= i PROVE k <= j
      BY <1>0, <3>1, <3>3
    <3>4. j \in second /\ j \notin first
      BY <2>1, <2>2, <3>2
    <3>5. QED
      BY <2>1, <2>2, <3>3, <3>4
  <2>4. IsFiniteSet(second) /\ Cardinality(second) \in Nat
    BY <1>2, FS_Subset, FS_CardinalityType
  <2>5. Cardinality(first) <= Cardinality(second) /\ Cardinality(first) # Cardinality(second)
    <3>1. first \in SUBSET second /\ first # second
      BY <2>3
    <3>2. QED
      BY <2>4, <3>1, FS_Subset
  <2>6. Cardinality(first) \in Nat
    BY <1>2, FS_Subset, FS_CardinalityType
  <2>7. QED
    BY <2>1, <2>2, <2>4, <2>5, <2>6 DEF Rank
<1>5. \A i, j \in kept : Rank(kept, i) = Rank(kept, j) => i = j
  <2>1. ASSUME NEW i \in kept, NEW j \in kept, Rank(kept, i) = Rank(kept, j) PROVE i = j
    <3>0. Rank(kept, i) \in 1..Cardinality(kept)
      BY <1>3
    <3>1. Rank(kept, i) \in Int
      BY <1>2, <3>0
    <3>2. ~(i < j) /\ ~(j < i)
      BY <1>4, <2>1, <3>1
    <3>3. QED
      BY <1>0, <3>2
  <2>2. QED
    BY <2>1
<1>6. ASSUME NEW k \in 1..Cardinality(kept) PROVE \E i \in kept : Rank(kept, i) = k
  <2>1. PICK f : f = [i \in kept |-> Rank(kept, i)]
    OBVIOUS
  <2>2. f \in [kept -> 1..Cardinality(kept)]
    BY <1>3, <2>1
  <2>3. f \in Injection(kept, 1..Cardinality(kept))
    BY <1>5, <2>1, <2>2, Fun_IsInj
  <2>4. IsFiniteSet(1..Cardinality(kept)) /\ Cardinality(1..Cardinality(kept)) = Cardinality(kept)
    BY <1>2, FS_Interval
  <2>5. f \in Surjection(kept, 1..Cardinality(kept))
    BY <2>3, <2>4, FS_Injection
  <2>6. \E i \in kept : f[i] = k
    BY <2>5 DEF Surjection
  <2>7. QED
    BY <2>1, <2>6
<1>7. QED
  BY <1>2, <1>3, <1>5, <1>6

\* Of the positions up to i, those that are kept and those that are free are all.
LEMMA RankOf ==
    ASSUME NEW n \in Nat, NEW free \in SUBSET (1..n), NEW i \in (1..n) \ free
    PROVE  i - Cardinality({j \in free : j < i}) = Rank((1..n) \ free, i)
<1>0. /\ \A j \in (1..n) \ free : j \in 1..n /\ j \in Int
      /\ \A j \in free : j \in 1..n /\ j \in Int
  OBVIOUS
<1>1. PICK kept \in SUBSET (1..n) : kept = (1..n) \ free
  OBVIOUS
<1>2. PICK one \in SUBSET (1..i) : one = {j \in kept : j <= i}
  <2>1. \A j \in kept : j <= i => j \in 1..i
    BY <1>0, <1>1
  <2>2. {j \in kept : j <= i} \in SUBSET (1..i)
    BY <2>1
  <2>3. QED
    BY <2>2
<1>3. PICK two \in SUBSET (1..i) : two = {j \in free : j < i}
  <2>1. \A j \in free : j < i => j \in 1..i
    BY <1>0
  <2>2. {j \in free : j < i} \in SUBSET (1..i)
    BY <2>1
  <2>3. QED
    BY <2>2
<1>4. IsFiniteSet(1..i) /\ Cardinality(1..i) = i
  BY FS_Interval
<1>5. IsFiniteSet(one) /\ IsFiniteSet(two) /\ Cardinality(one) \in Nat /\ Cardinality(two) \in Nat
  BY <1>4, FS_Subset, FS_CardinalityType
<1>6. one \cup two = 1..i /\ one \cap two = {}
  BY <1>1, <1>2, <1>3
<1>7. Cardinality(1..i) = Cardinality(one) + Cardinality(two) - Cardinality({})
  BY <1>5, <1>6, FS_Union
<1>8. Cardinality({}) = 0
  BY FS_EmptySet
<1>9. i = Cardinality(one) + Cardinality(two)
  BY <1>4, <1>5, <1>7, <1>8
<1>10. i - Cardinality(two) = Cardinality(one)
  BY <1>5, <1>9
<1>11. QED
  BY <1>1, <1>2, <1>3, <1>10 DEF Rank

\* The entries that are kept, in their order.
LEMMA KeptOf ==
    ASSUME NEW idx \in Index, NEW kept, kept = (1..Len(idx.entries)) \ Free(idx)
    PROVE  /\ Cardinality(kept) \in Nat
           /\ DOMAIN Kept(idx) = 1..Cardinality(kept)
           /\ \A k \in 1..Cardinality(kept) :
                 Kept(idx)[k] \in kept /\ Rank(kept, Kept(idx)[k]) = k
           /\ \A i \in kept :
                 Rank(kept, i) \in 1..Cardinality(kept) /\ Kept(idx)[Rank(kept, i)] = i
<1>1. Len(idx.entries) \in Nat /\ kept \in SUBSET (1..Len(idx.entries))
      /\ kept = DOMAIN idx.entries \ Free(idx)
  BY IndexType
<1>2. /\ Cardinality(kept) \in Nat
      /\ \A i \in kept : Rank(kept, i) \in 1..Cardinality(kept)
      /\ \A i, j \in kept : Rank(kept, i) = Rank(kept, j) => i = j
      /\ \A k \in 1..Cardinality(kept) : \E i \in kept : Rank(kept, i) = k
  BY <1>1, Ranks
<1>3. Kept(idx) =
         [k \in 1..Cardinality(DOMAIN idx.entries \ Free(idx)) |->
            CHOOSE i \in DOMAIN idx.entries \ Free(idx) :
               Rank(DOMAIN idx.entries \ Free(idx), i) = k]
  BY DEF Kept, Rank
<1>4. \A k \in 1..Cardinality(kept) : Kept(idx)[k] \in kept /\ Rank(kept, Kept(idx)[k]) = k
  <2>1. ASSUME NEW k \in 1..Cardinality(kept)
        PROVE  Kept(idx)[k] \in kept /\ Rank(kept, Kept(idx)[k]) = k
    <3>1. Kept(idx)[k] = CHOOSE i \in DOMAIN idx.entries \ Free(idx) :
                            Rank(DOMAIN idx.entries \ Free(idx), i) = k
      BY <1>1, <1>3
    <3>2. \E i \in DOMAIN idx.entries \ Free(idx) :
             Rank(DOMAIN idx.entries \ Free(idx), i) = k
      BY <1>1, <1>2
    <3>3. /\ Kept(idx)[k] \in DOMAIN idx.entries \ Free(idx)
          /\ Rank(DOMAIN idx.entries \ Free(idx), Kept(idx)[k]) = k
      BY <3>1, <3>2
    <3>4. QED
      BY <1>1, <3>3
  <2>2. QED
    BY <2>1
<1>5. DOMAIN Kept(idx) = 1..Cardinality(kept)
  BY <1>1, <1>3
<1>6. \A i \in kept : Kept(idx)[Rank(kept, i)] = i
  <2>1. ASSUME NEW i \in kept PROVE Kept(idx)[Rank(kept, i)] = i
    <3>1. Rank(kept, i) \in 1..Cardinality(kept)
      BY <1>2
    <3>2. PICK j \in kept : j = Kept(idx)[Rank(kept, i)] /\ Rank(kept, j) = Rank(kept, i)
      BY <1>4, <3>1
    <3>3. QED
      BY <1>2, <3>2
  <2>2. QED
    BY <2>1
<1>7. QED
  BY <1>2, <1>4, <1>5, <1>6

\* Compaction: the new index agrees with the new data, and the instances are the same.
LEMMA Compaction ==
    ASSUME NEW idx \in Index, NEW dat \in {Absent} \cup Seq(Block), Agree(idx, dat),
           ~Headless(idx)
    PROVE  /\ CompactedIndex(idx) \in Index /\ CompactedData(idx, dat) \in Seq(Block)
           /\ Agree(CompactedIndex(idx), CompactedData(idx, dat))
           /\ Contents(CompactedIndex(idx), CompactedData(idx, dat)) = Contents(idx, dat)
<1>1. /\ Len(idx.entries) = FileLength(dat) /\ Len(idx.entries) \in Nat
      /\ \A i \in 1..Len(idx.entries) : idx.entries[i].at = i
      /\ \A n \in Name : \A i, j \in Lookup(idx, n) : i = j
  BY IndexType DEF Agree
<1>2. PICK kept \in SUBSET (1..Len(idx.entries)) : kept = (1..Len(idx.entries)) \ Free(idx)
  OBVIOUS
<1>3. PICK top \in Nat : top = Cardinality(kept)
  BY <1>2, KeptOf
<1>4. /\ DOMAIN Kept(idx) = 1..top
      /\ \A k \in 1..top : Kept(idx)[k] \in kept /\ Rank(kept, Kept(idx)[k]) = k
      /\ \A i \in kept : Rank(kept, i) \in 1..top /\ Kept(idx)[Rank(kept, i)] = i
  BY <1>2, <1>3, KeptOf, SMTT(60)
<1>5. PICK other : other = CompactedData(idx, dat)
  OBVIOUS
<1>6. /\ other \in Seq(Block) /\ Len(other) = top
      /\ \A k \in 1..top : other[k] = dat[Kept(idx)[k]]
  <2>1. other = [k \in 1..top |-> dat[idx.entries[Kept(idx)[k]].at]]
    BY <1>4, <1>5 DEF CompactedData
  <2>2. \A k \in 1..top : dat[idx.entries[Kept(idx)[k]].at] = dat[Kept(idx)[k]]
    BY <1>1, <1>4
  <2>3. \A k \in 1..top : dat[Kept(idx)[k]] \in Block
    BY <1>1, <1>4, FileLengthType
  <2>4. other \in [1..top -> Block]
    BY <2>1, <2>2, <2>3
  <2>5. QED
    BY <2>1, <2>2, <2>4, FunctionSeq
<1>7. FileLength(other) = top
  BY <1>6, MarkAssumption DEF FileLength
<1>8. PICK new : new = CompactedIndex(idx)
  OBVIOUS
<1>9. \A k \in 1..top :
         LET e == [idx.entries[Kept(idx)[k]] EXCEPT
                     !.at = @ - Cardinality({j \in Free(idx) : j < Kept(idx)[k]})]
         IN  /\ e \in Entry /\ e.name = idx.entries[Kept(idx)[k]].name
             /\ e.at = k /\ e.free = FALSE
  <2>1. SUFFICES ASSUME NEW k \in 1..top
                 PROVE  LET e == [idx.entries[Kept(idx)[k]] EXCEPT
                              !.at = @ - Cardinality({j \in Free(idx) : j < Kept(idx)[k]})]
                        IN  /\ e \in Entry /\ e.name = idx.entries[Kept(idx)[k]].name
                            /\ e.at = k /\ e.free = FALSE
    OBVIOUS
  <2>2. PICK i \in kept : i = Kept(idx)[k] /\ Rank(kept, i) = k
    BY <1>4
  <2>3. Free(idx) \in SUBSET (1..Len(idx.entries)) /\ i \in (1..Len(idx.entries)) \ Free(idx)
    BY <1>2, FreeFinite
  <2>4. i - Cardinality({j \in Free(idx) : j < i}) = k
    BY <1>1, <1>2, <2>2, <2>3, RankOf
  <2>5. PICK old \in Entry : old = idx.entries[i]
    BY <2>3, IndexType
  <2>6. old.at = i /\ old.free = FALSE
    <3>1. i \notin Free(idx) /\ i \in DOMAIN idx.entries
      BY <2>3, IndexType
    <3>2. ~old.free /\ old.free \in BOOLEAN
      BY <2>5, <3>1 DEF Free, Entry
    <3>3. QED
      BY <1>1, <2>3, <2>5, <3>2
  <2>7. k \in Nat \ {0}
    BY <1>3
  <2>8. LET e == [old EXCEPT !.at = k]
        IN  e \in Entry /\ e.name = old.name /\ e.at = k /\ e.free = FALSE
    BY <2>6, <2>7 DEF Entry
  <2>9. [old EXCEPT !.at = @ - Cardinality({j \in Free(idx) : j < i})] = [old EXCEPT !.at = k]
    BY <2>4, <2>6
  <2>10. QED
    BY <2>2, <2>5, <2>8, <2>9
<1>10. /\ new \in Index /\ Len(new.entries) = top /\ new.freeCount = 0 /\ new.header
       /\ \A k \in 1..top : /\ new.entries[k].name = idx.entries[Kept(idx)[k]].name
                            /\ new.entries[k].at = k /\ new.entries[k].free = FALSE
  <2>1. PICK entries : entries = [k \in 1..top |-> [idx.entries[Kept(idx)[k]] EXCEPT
                     !.at = @ - Cardinality({j \in Free(idx) : j < Kept(idx)[k]})]]
    OBVIOUS
  <2>2. new = [header |-> TRUE, freeCount |-> 0, entries |-> entries]
    BY <1>4, <1>8, <2>1 DEF CompactedIndex
  <2>3. entries \in [1..top -> Entry]
    BY <1>9, <2>1
  <2>4. entries \in Seq(Entry) /\ Len(entries) = top
    BY <2>3, FunctionSeq
  <2>5. new \in Index
    BY <2>2, <2>4 DEF Index
  <2>6. \A k \in 1..top : /\ entries[k].name = idx.entries[Kept(idx)[k]].name
                          /\ entries[k].at = k /\ entries[k].free = FALSE
    BY <1>9, <2>1
  <2>7. QED
    BY <2>2, <2>4, <2>5, <2>6
<1>11. Free(new) = {}
  BY <1>10, IndexType DEF Free
<1>12. \A n \in Name : Lookup(new, n) = {k \in 1..top : Kept(idx)[k] \in Lookup(idx, n)}
  <2>1. SUFFICES ASSUME NEW n \in Name
                 PROVE  Lookup(new, n) = {k \in 1..top : Kept(idx)[k] \in Lookup(idx, n)}
    OBVIOUS
  <2>2. Lookup(new, n) = {k \in 1..top : new.entries[k].name = n /\ ~new.entries[k].free}
    BY <1>10, LookupIndex
  <2>3. Lookup(idx, n) =
           {i \in 1..Len(idx.entries) : idx.entries[i].name = n /\ ~idx.entries[i].free}
    BY LookupIndex
  <2>4. \A k \in 1..top : /\ Kept(idx)[k] \in 1..Len(idx.entries)
                          /\ ~idx.entries[Kept(idx)[k]].free
    BY <1>2, <1>4, IndexType DEF Free
  <2>5. QED
    BY <1>10, <2>2, <2>3, <2>4
<1>13. \A n \in Name : \A j, k \in Lookup(new, n) : j = k
  <2>1. ASSUME NEW n \in Name, NEW j \in Lookup(new, n), NEW k \in Lookup(new, n) PROVE j = k
    <3>1. j \in 1..top /\ k \in 1..top /\ Kept(idx)[j] = Kept(idx)[k]
      BY <1>1, <1>12, <2>1
    <3>2. QED
      BY <1>4, <3>1
  <2>2. QED
    BY <2>1
<1>14. Agree(new, other)
  <2>1. DOMAIN new.entries = 1..top
    BY <1>10, IndexType
  <2>2. new.freeCount = Cardinality(Free(new))
    BY <1>10, <1>11, FS_EmptySet
  <2>3. QED
    BY <1>7, <1>10, <1>13, <2>1, <2>2 DEF Agree
<1>15. \A n \in Name : Contents(new, other)[n] = Contents(idx, dat)[n]
  <2>1. SUFFICES ASSUME NEW n \in Name PROVE Contents(new, other)[n] = Contents(idx, dat)[n]
    OBVIOUS
  <2>2. Readable(new) /\ Readable(idx)
    BY <1>10, IndexType DEF Readable
  <2>3. CASE Lookup(idx, n) = {}
    <3>1. Lookup(new, n) = {}
      BY <1>12, <2>3
    <3>2. QED
      BY <1>14, <2>2, <2>3, <3>1, ContentsAt
  <2>4. CASE Lookup(idx, n) # {}
    <3>1. PICK i \in Lookup(idx, n) : TRUE
      BY <2>4
    <3>2. i \in kept
      BY <1>2, <3>1, LookupIndex, IndexType DEF Free
    <3>3. PICK k \in 1..top : Kept(idx)[k] = i
      BY <1>4, <3>2
    <3>4. k \in Lookup(new, n)
      BY <1>12, <3>1, <3>3
    <3>5. Contents(new, other)[n] = other[k] /\ Contents(idx, dat)[n] = dat[i]
      BY <1>14, <2>2, <3>1, <3>4, ContentsAt
    <3>6. QED
      BY <1>6, <3>3, <3>5
  <2>5. QED
    BY <2>3, <2>4
<1>16. Contents(new, other) = Contents(idx, dat)
  BY <1>15, ContentsEqual
<1>17. QED
  BY <1>5, <1>6, <1>8, <1>10, <1>14, <1>16

-----------------------------------------------------------------------------
\* What a request is.
LEMMA RequestType ==
    ASSUME NEW r \in Request
    PROVE  /\ r # None /\ r.class \in Class
           /\ r.kind \in {"create", "modify", "delete", "deleteClass"}
           /\ r.kind # "deleteClass" => r.name \in Name
           /\ r.kind \in {"create", "modify"} => r.value \in Value
BY MarkAssumption DEF Request

\* The types of the files of a class, and of what is rolled back to.
LEMMA FilesType ==
    ASSUME Typed, NEW c \in Class
    PROVE  /\ index[c] \in {Absent, Torn} \cup Index
           /\ data[c] \in {Absent} \cup Seq(Block)
           /\ indexRollback[c] \in {Absent} \cup Index
           /\ dataRollback[c] \in {Absent, Torn} \cup Nat
           /\ RolledBackIndex(c) \in {Absent, Torn} \cup Index
           /\ RolledBackData(c) \in {Absent} \cup Seq(Block)
<1>1. /\ index[c] \in {Absent, Torn} \cup Index
      /\ data[c] \in {Absent} \cup Seq(Block)
      /\ indexRollback[c] \in {Absent} \cup Index
      /\ dataRollback[c] \in {Absent, Torn} \cup Nat
  BY DEF Typed
<1>2. RolledBackIndex(c) \in {Absent, Torn} \cup Index
  BY <1>1 DEF RolledBackIndex
<1>3. RolledBackData(c) \in {Absent} \cup Seq(Block)
  BY <1>1, TruncatedType DEF RolledBackData
<1>4. QED
  BY <1>1, <1>2, <1>3

\* A class without rollback files is not rolled back.
LEMMA NotLeftOver ==
    ASSUME NEW c \in Class, ~LeftOver(c)
    PROVE  RolledBackIndex(c) = index[c] /\ RolledBackData(c) = data[c]
BY DEF LeftOver, RolledBackIndex, RolledBackData

\* A step leaves the files of a class.
SameFiles(c) ==
    /\ index'[c] = index[c] /\ indexRollback'[c] = indexRollback[c]
    /\ data'[c] = data[c] /\ dataRollback'[c] = dataRollback[c]

\* Such a class stays consistent; without rollback files whatever the state files say.
LEMMA RecoverableKept ==
    ASSUME NEW c \in Class, Recoverable(c), SameFiles(c), progress' = progress \/ ~LeftOver(c)
    PROVE  Recoverable(c)'
<1>1. RolledBackIndex(c)' = RolledBackIndex(c) /\ RolledBackData(c)' = RolledBackData(c)
  BY DEF SameFiles, RolledBackIndex, RolledBackData
<1>2. index'[c] = index[c] /\ data'[c] = data[c]
  BY DEF SameFiles
<1>3. CASE progress' = progress
  BY <1>1, <1>2, <1>3 DEF Recoverable
<1>4. CASE ~LeftOver(c)
  <2>1. RolledBackIndex(c) = index[c] /\ RolledBackData(c) = data[c]
    BY <1>4, NotLeftOver
  <2>2. Agree(index[c], data[c])
    BY <2>1 DEF Recoverable
  <2>3. QED
    BY <1>1, <1>2, <2>1, <2>2 DEF Recoverable
<1>5. QED
  BY <1>3, <1>4

\* All files.
LEMMA FilesKept ==
    ASSUME UNCHANGED <<index, data, indexRollback, dataRollback>>, NEW c \in Class
    PROVE  SameFiles(c) /\ LeftOver(c)' = LeftOver(c)
BY DEF SameFiles, LeftOver

\* The initial states.
LEMMA InitInv == Init => StoreInv
<1>1. SUFFICES ASSUME Init PROVE StoreInv
  OBVIOUS
<1>2. Typed
  <2>1. (CHOOSE c \in Class : TRUE) \in Class
    BY ClassAssumption
  <2>2. 0 \in 0..MaxRequests /\ 0 \in 0..MaxCrashes
    BY BoundAssumption
  <2>3. QED
    BY <1>1, <2>1, <2>2 DEF Init, Typed, Quiet
<1>3. Progress
  BY <1>1 DEF Init, Progress, Quiet, Begin, Change, Procedure, BeginSteps, ChangeSteps
<1>4. Pending
  BY <1>1, MarkAssumption DEF Init, Pending, LeftOver, Quiet, Begin, Change, Procedure, BeginSteps,
                        ChangeSteps
<1>5. Consistent
  <2>1. \A c \in Class : Recoverable(c)
    <3>1. ASSUME NEW c \in Class PROVE Recoverable(c)
      <4>1. ~LeftOver(c) /\ index[c] = Absent /\ data[c] = Absent
        BY <1>1 DEF Init, LeftOver
      <4>2. Agree(index[c], data[c])
        BY <4>1 DEF Agree, FileLength
      <4>3. QED
        BY <4>1, <4>2, NotLeftOver DEF Recoverable
    <3>2. QED
      BY <3>1
  <2>2. QED
    BY <1>1, <2>1 DEF Init, Consistent
<1>6. Requested
  BY <1>1 DEF Init, Requested, Quiet, Begin, Change, BeginSteps, ChangeSteps
<1>7. Saved
  BY <1>1 DEF Init, Saved, Begin, Change, BeginSteps, ChangeSteps
<1>8. Made
  BY <1>1 DEF Init, Made
<1>9. QED
  BY <1>2, <1>3, <1>4, <1>5, <1>6, <1>7, <1>8 DEF StoreInv

-----------------------------------------------------------------------------
\* A request is submitted.
LEMMA SubmitStep ==
    ASSUME StoreInv, NEW r \in Request, Submit(r)
    PROVE  StoreInv'
<1>1. /\ step = "idle" /\ step' = "start" /\ request' = r /\ at' = r.class
      /\ r # None /\ r.class \in Class
      /\ UNCHANGED <<index, data, indexRollback, dataRollback, progress, procedure, todo>>
  BY RequestType DEF Submit, fileVars
<1>2. Typed'
  BY <1>1, BoundAssumption DEF StoreInv, Typed, Submit, Quiet
<1>3. Progress'
  BY <1>1 DEF StoreInv, Progress, Quiet, Begin, Change, Procedure, BeginSteps, ChangeSteps
<1>4. Pending'
  <2>1. \A c \in Class : ~LeftOver(c)
    BY <1>1 DEF StoreInv, Pending, Quiet
  <2>2. \A c \in Class : ~LeftOver(c)'
    BY <1>1, <2>1, FilesKept
  <2>3. \A c \in Class : dataRollback'[c] # Torn
    BY <2>2, MarkAssumption DEF LeftOver
  <2>4. QED
    BY <1>1, <2>2, <2>3 DEF Pending, Begin, Change, Procedure, BeginSteps, ChangeSteps
<1>5. Consistent'
  <2>1. \A c \in Class : Recoverable(c)
    BY <1>1 DEF StoreInv, Consistent, UnprotectedSteps
  <2>2. \A c \in Class : Recoverable(c)'
    BY <1>1, <2>1, RecoverableKept, FilesKept
  <2>3. QED
    BY <1>1, <2>2 DEF Consistent
<1>6. Requested'
  <2>1. RolledBackIndex(at)' = index[r.class]
    <3>1. RolledBackIndex(r.class) = index[r.class]
      BY <1>1, NotLeftOver DEF StoreInv, Pending, Quiet
    <3>2. QED
      BY <1>1, <3>1 DEF RolledBackIndex
  <2>2. ~Misread(index[r.class])
    BY DEF Submit
  <2>3. QED
    BY <1>1, <2>1, <2>2 DEF Requested, Quiet, Begin, Change, BeginSteps, ChangeSteps
<1>7. Saved'
  BY <1>1 DEF Saved, Begin, Change, BeginSteps, ChangeSteps
<1>8. Made'
  BY <1>1 DEF Made
<1>9. QED
  BY <1>2, <1>3, <1>4, <1>5, <1>6, <1>7, <1>8 DEF StoreInv

\* The class at has no rollback files and its files agree.
LEMMA RecoverableNow ==
    ASSUME NEW c \in Class, ~LeftOver(c)', Agree(index[c], data[c])'
    PROVE  Recoverable(c)'
<1>1. RolledBackIndex(c)' = index'[c] /\ RolledBackData(c)' = data'[c]
  BY DEF LeftOver, RolledBackIndex, RolledBackData
<1>2. Agree(index'[c], data'[c])
  OBVIOUS
<1>3. QED
  BY <1>1, <1>2 DEF Recoverable

\* Between transactions no class has rollback files, and the files of each agree.
LEMMA QuietFiles ==
    ASSUME StoreInv, step \in Quiet, NEW c \in Class
    PROVE  /\ ~LeftOver(c) /\ dataRollback[c] # Torn
           /\ RolledBackIndex(c) = index[c] /\ RolledBackData(c) = data[c]
           /\ c # at \/ step # "removeData" => Recoverable(c) /\ Agree(index[c], data[c])
<1>1. ~LeftOver(c)
  BY DEF StoreInv, Pending
<1>2. RolledBackIndex(c) = index[c] /\ RolledBackData(c) = data[c]
  BY <1>1, NotLeftOver
<1>3. c # at \/ step # "removeData" => Recoverable(c)
  BY DEF StoreInv, Consistent, UnprotectedSteps, Quiet
<1>4. Recoverable(c) => Agree(index[c], data[c])
  BY <1>2 DEF Recoverable
<1>5. dataRollback[c] # Torn
  BY <1>1, MarkAssumption DEF LeftOver
<1>6. QED
  BY <1>1, <1>2, <1>3, <1>4, <1>5

\* A class is deleted.
LEMMA DeleteClassStep ==
    ASSUME StoreInv, DeleteClass
    PROVE  StoreInv'
<1>1. /\ step = "start" /\ step \in Quiet
      /\ UNCHANGED <<data, indexRollback, dataRollback, progress, procedure, todo, at,
                     requests, crashes>>
      /\ \/ index' = index /\ step' = "idle" /\ request' = None /\ answer' = "failed"
         \/ /\ index' = [index EXCEPT ![at] = Absent] /\ step' = "removeData"
            /\ request' = request /\ answer' = answer /\ request.kind = "deleteClass"
  BY DEF DeleteClass, Refused, Goto, Quiet
<1>2. Typed'
  BY <1>1 DEF StoreInv, Typed, Quiet
<1>3. Progress'
  BY <1>1 DEF StoreInv, Progress, Quiet, Begin, Change, Procedure, BeginSteps, ChangeSteps
<1>4. Pending'
  <2>1. \A c \in Class : ~LeftOver(c)' /\ dataRollback'[c] # Torn
    BY <1>1, QuietFiles DEF LeftOver
  <2>2. QED
    BY <1>1, <2>1 DEF Pending, Begin, Change, Procedure, BeginSteps, ChangeSteps
<1>5. Consistent'
  <2>1. \A c \in Class : Recoverable(c)
    BY <1>1, QuietFiles
  <2>2. ASSUME NEW c \in Class PROVE Recoverable(c)' \/ (c = at' /\ step' = "removeData")
    <3>1. CASE SameFiles(c)
      BY <1>1, <2>1, <3>1, RecoverableKept
    <3>2. CASE ~SameFiles(c)
      BY <1>1, <3>2 DEF SameFiles, StoreInv, Typed
    <3>3. QED
      BY <3>1, <3>2
  <2>3. step' = "removeData" => index'[at'] = Absent
    BY <1>1 DEF StoreInv, Typed
  <2>4. QED
    BY <1>1, <2>2, <2>3 DEF Consistent, UnprotectedSteps
<1>6. Requested'
  BY <1>1 DEF StoreInv, Requested, Quiet, Begin, Change, BeginSteps, ChangeSteps
<1>7. Saved'
  BY <1>1 DEF Saved, Begin, Change, BeginSteps, ChangeSteps
<1>8. Made'
  BY <1>1 DEF Made
<1>9. QED
  BY <1>2, <1>3, <1>4, <1>5, <1>6, <1>7, <1>8 DEF StoreInv

\* The data file of a deleted class goes.
LEMMA RemoveDataStep ==
    ASSUME StoreInv, RemoveData
    PROVE  StoreInv'
<1>1. /\ step = "removeData" /\ step \in Quiet /\ step' = "idle"
      /\ data' = [data EXCEPT ![at] = Absent]
      /\ request' = None /\ answer' = "ok"
      /\ UNCHANGED <<index, indexRollback, dataRollback, progress, procedure, todo, at,
                     requests, crashes>>
  BY DEF RemoveData, Quiet
<1>2. Typed'
  BY <1>1 DEF StoreInv, Typed, Quiet
<1>3. Progress'
  BY <1>1 DEF StoreInv, Progress, Quiet, Begin, Change, Procedure, BeginSteps, ChangeSteps
<1>4. Pending'
  <2>1. \A c \in Class : ~LeftOver(c)' /\ dataRollback'[c] # Torn
    BY <1>1, QuietFiles DEF LeftOver
  <2>2. QED
    BY <1>1, <2>1 DEF Pending, Begin, Change, Procedure, BeginSteps, ChangeSteps
<1>5. Consistent'
  <2>1. ASSUME NEW c \in Class PROVE Recoverable(c)'
    <3>1. CASE c # at
      <4>1. Recoverable(c)
        BY <1>1, <3>1, QuietFiles
      <4>2. SameFiles(c)
        BY <1>1, <3>1 DEF SameFiles, StoreInv, Typed
      <4>3. QED
        BY <1>1, <4>1, <4>2, RecoverableKept
    <3>2. CASE c = at
      <4>1. index[c] = Absent
        BY <1>1, <3>2 DEF StoreInv, Consistent
      <4>2. index'[c] = Absent /\ data'[c] = Absent
        BY <1>1, <3>2, <4>1 DEF StoreInv, Typed
      <4>3. Agree(index[c], data[c])'
        BY <4>2 DEF Agree, FileLength
      <4>4. ~LeftOver(c)'
        BY <1>1, QuietFiles DEF LeftOver
      <4>5. QED
        BY <4>3, <4>4, RecoverableNow
    <3>3. QED
      BY <3>1, <3>2
  <2>2. QED
    BY <1>1, <2>1 DEF Consistent
<1>6. Requested'
  BY <1>1 DEF Requested, Quiet, Begin, Change, BeginSteps, ChangeSteps
<1>7. Saved'
  BY <1>1 DEF Saved, Begin, Change, BeginSteps, ChangeSteps
<1>8. Made'
  BY <1>1 DEF Made
<1>9. QED
  BY <1>2, <1>3, <1>4, <1>5, <1>6, <1>7, <1>8 DEF StoreInv

\* A transaction is constructed: there is nothing to roll back.
LEMMA ConstructFiles ==
    ASSUME StoreInv, Construct
    PROVE  /\ UNCHANGED <<index, data, indexRollback, dataRollback, progress, procedure, todo,
                          at, requests, crashes>>
           /\ step = "start" /\ step \in Quiet
           /\ \/ step' = "idle" /\ request' = None /\ answer' = "failed"
              \/ /\ step' = "beginFile" /\ UNCHANGED <<request, answer>>
                 /\ request.kind # "deleteClass"
                 /\ request.kind = "modify" => Lookup(index[at], request.name) # {}
<1>1. step = "start" /\ step \in Quiet /\ at \in Class
  BY DEF Construct, Quiet, StoreInv, Typed
<1>2. /\ RolledBackIndex(at) = index[at] /\ RolledBackData(at) = data[at]
      /\ indexRollback[at] = Absent /\ dataRollback[at] = Absent
  BY <1>1, QuietFiles DEF LeftOver
<1>3. /\ [index EXCEPT ![at] = RolledBackIndex(at)] = index
      /\ [data EXCEPT ![at] = RolledBackData(at)] = data
      /\ [indexRollback EXCEPT ![at] = Absent] = indexRollback
      /\ [dataRollback EXCEPT ![at] = Absent] = dataRollback
  BY <1>1, <1>2 DEF StoreInv, Typed
<1>4. QED
  BY <1>1, <1>3 DEF Construct, Refused, Goto

\* A transaction is constructed, or refused.
LEMMA ConstructStep ==
    ASSUME StoreInv, Construct
    PROVE  StoreInv'
<1>1. /\ UNCHANGED <<index, data, indexRollback, dataRollback, progress, procedure, todo,
                     at, requests, crashes>>
      /\ step = "start" /\ step \in Quiet
      /\ \/ step' = "idle" /\ request' = None /\ answer' = "failed"
         \/ /\ step' = "beginFile" /\ UNCHANGED <<request, answer>>
            /\ request.kind # "deleteClass"
            /\ request.kind = "modify" => Lookup(index[at], request.name) # {}
  BY ConstructFiles
<1>2. Typed'
  BY <1>1 DEF StoreInv, Typed, Quiet
<1>3. Progress'
  BY <1>1 DEF StoreInv, Progress, Quiet, Begin, Change, Procedure, BeginSteps, ChangeSteps
<1>4. Pending'
  <2>1. \A c \in Class : ~LeftOver(c)' /\ dataRollback'[c] # Torn
    BY <1>1, QuietFiles DEF LeftOver
  <2>2. QED
    BY <1>1, <2>1 DEF Pending, Begin, Change, Procedure, BeginSteps, ChangeSteps
<1>5. Consistent'
  <2>1. \A c \in Class : Recoverable(c)'
    BY <1>1, QuietFiles, RecoverableKept, FilesKept
  <2>2. QED
    BY <1>1, <2>1 DEF Consistent
<1>6. Requested'
  <2>1. RolledBackIndex(at)' = index[at] /\ RolledBackIndex(at)' = RolledBackIndex(at)
    BY <1>1, QuietFiles DEF StoreInv, Typed, RolledBackIndex, LeftOver
  <2>2. QED
    BY <1>1, <2>1 DEF StoreInv, Requested, Quiet, Begin, Change, BeginSteps, ChangeSteps
<1>7. Saved'
  BY <1>1 DEF Saved, Begin, Change, BeginSteps, ChangeSteps
<1>8. Made'
  BY <1>1 DEF Made
<1>9. QED
  BY <1>2, <1>3, <1>4, <1>5, <1>6, <1>7, <1>8 DEF StoreInv

-----------------------------------------------------------------------------
\* A step works on the files of the class at alone.
LEMMA OthersKept ==
    ASSUME StoreInv, NEW c \in Class, c # at,
           SameFiles(c), step \in Begin \cup Change
    PROVE  Recoverable(c)' /\ ~LeftOver(c)'
<1>1. ~LeftOver(c)
  BY DEF StoreInv, Pending
<1>2. Recoverable(c)
  BY DEF StoreInv, Consistent
<1>3. Recoverable(c)'
  BY <1>1, <1>2, RecoverableKept
<1>4. ~LeftOver(c)'
  BY <1>1 DEF LeftOver, SameFiles
<1>5. QED
  BY <1>3, <1>4

\* The state file of the transaction is made.
LEMMA BeginFileStep ==
    ASSUME StoreInv, BeginFile
    PROVE  StoreInv'
<1>1. /\ UNCHANGED <<index, data, indexRollback, dataRollback, procedure, todo, at,
                     request, answer, requests, crashes>>
      /\ step = "beginFile" /\ step \in Quiet /\ step' = "beginIndex"
      /\ progress' = progress \cup {"begin"}
  BY DEF BeginFile, Goto, Quiet
<1>2. Typed'
  BY <1>1 DEF StoreInv, Typed, Begin, BeginSteps
<1>3. Progress'
  BY <1>1 DEF StoreInv, Progress, Quiet, Begin, Change, Procedure, BeginSteps, ChangeSteps
<1>a. \A c \in Class : ~LeftOver(c)' /\ dataRollback'[c] # Torn
  BY <1>1, QuietFiles DEF LeftOver
<1>4. Pending'
  BY <1>1, <1>a DEF Pending, Quiet, Begin, Change, Procedure, BeginSteps, ChangeSteps,
                    StoreInv, Typed
<1>5. Consistent'
  <2>1. \A c \in Class : Recoverable(c)'
    BY <1>1, QuietFiles, RecoverableKept, FilesKept
  <2>2. QED
    BY <1>1, <2>1 DEF Consistent
<1>6. Requested'
  <2>1. RolledBackIndex(at)' = RolledBackIndex(at)
    BY <1>1 DEF RolledBackIndex
  <2>2. QED
    BY <1>1, <2>1 DEF StoreInv, Requested, Quiet, Begin, Change, BeginSteps, ChangeSteps
<1>7. Saved'
  BY <1>1 DEF Saved, Begin, Change, BeginSteps, ChangeSteps
<1>8. Made'
  BY <1>1 DEF Made
<1>9. QED
  BY <1>2, <1>3, <1>4, <1>5, <1>6, <1>7, <1>8 DEF StoreInv

\* While a transaction begins, what its files would be undone to agrees.
LEMMA BeginFiles ==
    ASSUME StoreInv, step \in Begin
    PROVE  /\ at \in Class /\ progress = {"begin"}
           /\ RolledBackIndex(at) \in {Absent} \cup Index
           /\ Agree(RolledBackIndex(at), data[at])
           /\ Recoverable(at)
           /\ \A c \in Class : c # at => ~LeftOver(c) /\ Recoverable(c)
<1>1. at \in Class /\ progress = {"begin"}
  BY DEF StoreInv, Typed, Progress
<1>2. \A c \in Class : Recoverable(c)
  BY DEF StoreInv, Consistent, Begin, BeginSteps, UnprotectedSteps
<1>3. Agree(RolledBackIndex(at), data[at])
  BY <1>1, <1>2 DEF Recoverable
<1>4. RolledBackIndex(at) \in {Absent} \cup Index
  BY <1>3 DEF Agree
<1>5. \A c \in Class : c # at => ~LeftOver(c)
  BY DEF StoreInv, Pending
<1>6. QED
  BY <1>1, <1>2, <1>3, <1>4, <1>5

\* While the header is missing there is no index, and nothing was written for the class.
LEMMA HeaderFiles ==
    ASSUME StoreInv, step = "header"
    PROVE  /\ at \in Class /\ index[at] = Absent /\ RolledBackIndex(at) = BlankIndex
           /\ data[at] \in {Absent} \cup Seq(Block) /\ FileLength(data[at]) = 0
           /\ request.kind # "modify"
<1>1. step \in Begin /\ step # "beginIndex"
  BY DEF Begin, BeginSteps
<1>2. /\ at \in Class /\ index[at] = Absent /\ indexRollback[at] = BlankIndex
      /\ indexRollback[at] # Absent
  BY <1>1 DEF StoreInv, Typed, Saved
<1>3. RolledBackIndex(at) = BlankIndex
  BY <1>2 DEF RolledBackIndex
<1>4. Agree(BlankIndex, data[at]) /\ data[at] \in {Absent} \cup Seq(Block)
  BY <1>1, <1>3, BeginFiles, FilesType DEF StoreInv
<1>5. BlankIndex \in Index /\ BlankIndex # Absent /\ Len(BlankIndex.entries) = 0
  <2>1. <<>> \in Seq(Entry) /\ Len(<<>>) = 0
    BY EmptySeq
  <2>2. BlankIndex \in Index /\ BlankIndex.entries = <<>>
    BY <2>1 DEF BlankIndex, Index
  <2>3. QED
    BY <2>1, <2>2, MarkAssumption
<1>6. FileLength(data[at]) = 0
  BY <1>4, <1>5 DEF Agree
<1>7. \A n : Lookup(BlankIndex, n) = {}
  BY <1>4, <1>6, EmptyAgrees
<1>8. request.kind # "modify"
  BY <1>1, <1>3, <1>7 DEF StoreInv, Requested
<1>9. QED
  BY <1>2, <1>3, <1>4, <1>6, <1>8

\* What a step that works on the files of the class at has to see to.
AtWork ==
    /\ step \in Begin \cup Change /\ step' \in Begin \cup Change /\ step' # "beginIndex"
    /\ at' = at /\ request' = request
    /\ \A c \in Class : c # at => SameFiles(c)
    /\ Recoverable(at)' \/ step' \in UnprotectedSteps
    /\ step' = "compactIndex" => Agree(CompactedIndex(index'[at]), data'[at])
    /\ step' = "compacted" => Agree(index'[at], data'[at])
    /\ dataRollback'[at] = Torn => progress' = {"begin"}
    /\ ~Misread(RolledBackIndex(at)')
    /\ request.kind = "modify" => Lookup(RolledBackIndex(at)', request.name) # {}

\* Such a step keeps what the procedures rely on.
LEMMA AtWorkKeeps ==
    ASSUME StoreInv, AtWork
    PROVE  Pending' /\ Consistent' /\ Requested'
<1>1. at \in Class
  BY DEF StoreInv, Typed
<1>2. \A c \in Class : c # at => Recoverable(c)' /\ ~LeftOver(c)' /\ dataRollback'[c] # Torn
  <2>1. ASSUME NEW c \in Class, c # at
        PROVE  Recoverable(c)' /\ ~LeftOver(c)' /\ dataRollback'[c] # Torn
    <3>1. Recoverable(c)' /\ ~LeftOver(c)'
      BY <2>1, OthersKept DEF AtWork
    <3>2. QED
      BY <3>1, MarkAssumption DEF LeftOver
  <2>2. QED
    BY <2>1
<1>3. Pending'
  BY <1>2 DEF AtWork, Pending, Quiet, Begin, Change, Procedure, BeginSteps, ChangeSteps
<1>4. Consistent'
  BY <1>1, <1>2 DEF AtWork, Consistent, Begin, Change, BeginSteps, ChangeSteps
<1>5. Requested'
  <2>1. request # None /\ request.class = at /\ request.kind # "deleteClass"
    BY DEF AtWork, StoreInv, Requested
  <2>2. QED
    BY <2>1 DEF AtWork, Requested, Quiet, Begin, Change, BeginSteps, ChangeSteps
<1>6. QED
  BY <1>3, <1>4, <1>5

\* The index is saved.
LEMMA BeginIndexStep ==
    ASSUME StoreInv, BeginIndex
    PROVE  StoreInv'
<1>1. /\ UNCHANGED <<data, dataRollback, progress, procedure, todo, at,
                     request, answer, requests, crashes>>
      /\ step \in {"beginIndex", "header"} /\ step \in Begin
      /\ \/ /\ step = "beginIndex" /\ index[at] = Absent /\ index' = index /\ step' = "header"
            /\ indexRollback' = [indexRollback EXCEPT ![at] = BlankIndex]
         \/ /\ step = "header" /\ index' = index /\ step' = "beginData"
            /\ \E saved \in {EmptyIndex, BlankIndex} :
                  indexRollback' = [indexRollback EXCEPT ![at] = saved]
         \/ /\ step = "beginIndex" /\ index[at] # Absent
            /\ index' = [index EXCEPT ![at] = Absent]
            /\ indexRollback' = [indexRollback EXCEPT ![at] = index[at]]
            /\ step' = "copyIndex"
  BY DEF BeginIndex, Goto, Begin, BeginSteps
<1>2. /\ at \in Class /\ progress = {"begin"}
      /\ data[at] \in {Absent} \cup Seq(Block)
      /\ step = "beginIndex" =>
            /\ RolledBackIndex(at) = index[at] /\ index[at] \in {Absent} \cup Index
            /\ Agree(index[at], data[at])
  <2>1. at \in Class
    BY DEF StoreInv, Typed
  <2>2. step = "beginIndex" => ~LeftOver(at)
    BY DEF StoreInv, Pending
  <2>3. QED
    BY <1>1, <2>1, <2>2, BeginFiles, NotLeftOver, FilesType DEF StoreInv
<1>3. /\ ~Misread(RolledBackIndex(at))
      /\ request.kind = "modify" => Lookup(RolledBackIndex(at), request.name) # {}
  BY <1>1 DEF StoreInv, Requested
<1>4. \A c \in Class : c # at => SameFiles(c)
  BY <1>1, <1>2 DEF SameFiles, StoreInv, Typed
<1>5. /\ step' \in Begin /\ step' # "beginIndex"
      /\ indexRollback'[at] \in Index /\ indexRollback'[at] # Absent
      /\ Agree(indexRollback'[at], data'[at])
      /\ ~Misread(indexRollback'[at])
      /\ request.kind = "modify" => Lookup(indexRollback'[at], request.name) # {}
      /\ step' = "beginData" =>
            \A n \in Name : Lookup(index'[at], n) = Lookup(indexRollback'[at], n)
      /\ step' = "header" => index'[at] = Absent /\ indexRollback'[at] = BlankIndex
      /\ step' = "beginData" => indexRollback'[at] \in {EmptyIndex, BlankIndex}
  <2>1. CASE step' \in {"header", "beginData"}
    <3>1. /\ index[at] = Absent /\ index' = index
          /\ FileLength(data[at]) = 0 /\ request.kind # "modify"
      <4>1. CASE step = "header"
        BY <1>1, <2>1, <4>1, HeaderFiles
      <4>2. CASE step = "beginIndex"
        <5>1. index[at] = Absent /\ index' = index
          BY <1>1, <2>1, <4>2
        <5>2. Lookup(Absent, request.name) = {}
          BY DEF Lookup
        <5>3. FileLength(data[at]) = 0
          BY <1>2, <4>2, <5>1, IndexType DEF Agree
        <5>4. QED
          BY <1>2, <1>3, <4>2, <5>1, <5>2, <5>3
      <4>3. QED
        BY <1>1, <4>1, <4>2
    <3>2. PICK saved \in {EmptyIndex, BlankIndex} :
             indexRollback' = [indexRollback EXCEPT ![at] = saved]
      BY <1>1, <2>1
    <3>3. /\ saved \in Index /\ Agree(saved, data[at]) /\ saved # Absent
          /\ ~Misread(saved) /\ \A n : Lookup(saved, n) = {}
      BY <1>2, <3>1, EmptyAgrees, IndexType
    <3>4. indexRollback'[at] = saved
      BY <1>2, <3>2 DEF StoreInv, Typed
    <3>5. \A n : Lookup(index'[at], n) = {}
      BY <3>1 DEF Lookup
    <3>6. step' = "header" => indexRollback'[at] = BlankIndex
      BY <1>1, <1>2 DEF StoreInv, Typed
    <3>7. QED
      BY <1>1, <2>1, <3>1, <3>3, <3>4, <3>5, <3>6 DEF Begin, BeginSteps
  <2>2. CASE step' \notin {"header", "beginData"}
    <3>1. indexRollback'[at] = index[at] /\ step' = "copyIndex" /\ step = "beginIndex"
          /\ index[at] # Absent
      BY <1>1, <1>2, <2>2 DEF StoreInv, Typed
    <3>2. QED
      BY <1>1, <1>2, <1>3, <3>1 DEF Begin, BeginSteps
  <2>3. QED
    BY <2>1, <2>2
<1>6. Typed'
  <2>1. index' \in [Class -> {Absent, Torn} \cup Index]
    BY <1>1, <1>2 DEF StoreInv, Typed
  <2>2. indexRollback' \in [Class -> {Absent} \cup Index]
    <3>1. indexRollback' = [indexRollback EXCEPT ![at] = indexRollback'[at]]
      BY <1>1, <1>2 DEF StoreInv, Typed
    <3>2. QED
      BY <1>2, <1>5, <3>1 DEF StoreInv, Typed
  <2>3. QED
    BY <1>1, <1>5, <2>1, <2>2 DEF StoreInv, Typed
<1>7. RolledBackIndex(at)' = indexRollback'[at]
  BY <1>1, <1>5 DEF RolledBackIndex
<1>8. AtWork
  <2>1. Recoverable(at)'
    BY <1>1, <1>2, <1>5, <1>7 DEF Recoverable
  <2>2. QED
    BY <1>1, <1>2, <1>4, <1>5, <1>7, <2>1 DEF AtWork, Begin, BeginSteps
<1>9. Progress'
  BY <1>1, <1>2, <1>5 DEF Progress, Quiet, Begin, Change, Procedure, BeginSteps, ChangeSteps
<1>10. Saved'
  BY <1>1, <1>5 DEF Saved, Begin, Change, BeginSteps, ChangeSteps
<1>11. Made'
  BY <1>1 DEF Made
<1>12. QED
  BY <1>6, <1>8, <1>9, <1>10, <1>11, AtWorkKeeps DEF StoreInv

\* The saved index is copied back.
LEMMA CopyIndexStep ==
    ASSUME StoreInv, CopyIndex
    PROVE  StoreInv'
<1>1. /\ UNCHANGED <<data, indexRollback, dataRollback, progress, procedure, todo, at,
                     request, answer, requests, crashes>>
      /\ step \in {"copyIndex", "copying"} /\ step \in Begin /\ step # "beginIndex"
      /\ \/ index' = [index EXCEPT ![at] = Torn] /\ step' = "copying"
         \/ index' = [index EXCEPT ![at] = indexRollback[at]] /\ step' = "beginData"
  BY DEF CopyIndex, Goto, Begin, BeginSteps
<1>2. /\ at \in Class /\ progress = {"begin"}
      /\ RolledBackIndex(at) = indexRollback[at] /\ indexRollback[at] \in Index
      /\ indexRollback[at] # Absent /\ Recoverable(at)
  <2>1. at \in Class /\ indexRollback[at] # Absent
    BY <1>1 DEF StoreInv, Saved, Typed
  <2>2. QED
    BY <1>1, <2>1, BeginFiles, FilesType DEF StoreInv, RolledBackIndex
<1>3. Typed'
  BY <1>1, <1>2 DEF StoreInv, Typed, Begin, BeginSteps
<1>4. RolledBackIndex(at)' = RolledBackIndex(at)
  BY <1>1, <1>2 DEF RolledBackIndex
<1>5. AtWork
  <2>1. \A c \in Class : c # at => SameFiles(c)
    BY <1>1, <1>2 DEF SameFiles, StoreInv, Typed
  <2>2. Recoverable(at)'
    BY <1>1, <1>2, <1>4 DEF Recoverable
  <2>3. /\ ~Misread(RolledBackIndex(at))
        /\ request.kind = "modify" => Lookup(RolledBackIndex(at), request.name) # {}
    BY <1>1 DEF StoreInv, Requested
  <2>4. dataRollback[at] = Torn => progress = {"begin"}
    BY <1>2
  <2>5. QED
    BY <1>1, <1>4, <2>1, <2>2, <2>3, <2>4 DEF AtWork, Begin, BeginSteps
<1>6. Progress'
  BY <1>1, <1>2 DEF Progress, Quiet, Begin, Change, Procedure, BeginSteps, ChangeSteps
<1>7. Saved'
  <2>1. step' = "beginData" => index'[at] = indexRollback'[at]
    BY <1>1, <1>2 DEF StoreInv, Typed
  <2>2. QED
    BY <1>1, <1>2, <2>1 DEF Saved, Begin, Change, BeginSteps, ChangeSteps
<1>8. Made'
  BY <1>1 DEF Made
<1>9. QED
  BY <1>3, <1>5, <1>6, <1>7, <1>8, AtWorkKeeps DEF StoreInv

\* The size of the data is saved.
LEMMA BeginDataStep ==
    ASSUME StoreInv, BeginData
    PROVE  StoreInv'
<1>1. /\ UNCHANGED <<index, data, indexRollback, progress, procedure, todo, at,
                     request, answer, requests, crashes>>
      /\ step \in {"beginData", "saveSize"} /\ step \in Begin /\ step # "beginIndex"
      /\ \/ dataRollback' = [dataRollback EXCEPT ![at] = Torn] /\ step' = "saveSize"
         \/ dataRollback' = [dataRollback EXCEPT ![at] = FileLength(data[at])] /\ step' = "begun"
  BY DEF BeginData, Goto, Begin, BeginSteps
<1>2. /\ at \in Class /\ progress = {"begin"} /\ Recoverable(at)
      /\ FileLength(data[at]) \in Nat
  <2>1. at \in Class
    BY <1>1 DEF StoreInv, Typed
  <2>2. QED
    BY <1>1, <2>1, BeginFiles, FilesType, FileLengthType DEF StoreInv
<1>3. Typed'
  BY <1>1, <1>2 DEF StoreInv, Typed, Begin, BeginSteps
<1>4. RolledBackIndex(at)' = RolledBackIndex(at)
  BY <1>1, <1>2 DEF RolledBackIndex
<1>5. AtWork
  <2>1. \A c \in Class : c # at => SameFiles(c)
    BY <1>1, <1>2 DEF SameFiles, StoreInv, Typed
  <2>2. Recoverable(at)'
    BY <1>1, <1>2, <1>4 DEF Recoverable
  <2>3. /\ ~Misread(RolledBackIndex(at))
        /\ request.kind = "modify" => Lookup(RolledBackIndex(at), request.name) # {}
    BY <1>1 DEF StoreInv, Requested
  <2>4. QED
    BY <1>1, <1>2, <1>4, <2>1, <2>2, <2>3 DEF AtWork, Begin, BeginSteps
<1>6. Progress'
  BY <1>1, <1>2 DEF Progress, Quiet, Begin, Change, Procedure, BeginSteps, ChangeSteps
<1>7. Saved'
  <2>1. step' = "begun" => dataRollback'[at] = FileLength(data'[at])
    BY <1>1, <1>2 DEF StoreInv, Typed
  <2>2. /\ indexRollback[at] # Absent
        /\ \A n \in Name : Lookup(index[at], n) = Lookup(indexRollback[at], n)
        /\ index[at] = Absent => indexRollback[at] \in {EmptyIndex, BlankIndex}
    BY <1>1 DEF StoreInv, Saved
  <2>3. QED
    BY <1>1, <1>2, <2>1, <2>2 DEF Saved, Begin, Change, BeginSteps, ChangeSteps
<1>8. Made'
  BY <1>1 DEF Made
<1>9. QED
  BY <1>3, <1>5, <1>6, <1>7, <1>8, AtWorkKeeps DEF StoreInv

\* The files of the class can be rolled back before the state file says that they have to be.
LEMMA BegunFiles ==
    ASSUME StoreInv, step = "begun"
    PROVE  /\ RolledBackIndex(at) = indexRollback[at] /\ indexRollback[at] \in Index
           /\ dataRollback[at] \in Nat
           /\ RolledBackData(at) = Truncated(data[at], FileLength(data[at]))
           /\ Agree(RolledBackIndex(at), RolledBackData(at))
           /\ Contents(RolledBackIndex(at), RolledBackData(at)) =
                 Contents(RolledBackIndex(at), data[at])
<1>1. step \in Begin /\ at \in Class
  BY DEF Begin, StoreInv, Typed
<1>2. /\ indexRollback[at] \in Index /\ RolledBackIndex(at) = indexRollback[at]
      /\ RolledBackIndex(at) # Torn
      /\ Agree(RolledBackIndex(at), data[at])
      /\ data[at] \in {Absent} \cup Seq(Block)
      /\ dataRollback[at] = FileLength(data[at]) /\ FileLength(data[at]) \in Nat
  <2>1. indexRollback[at] # Absent /\ dataRollback[at] = FileLength(data[at])
    BY <1>1 DEF StoreInv, Saved, Begin
  <2>2. indexRollback[at] \in Index /\ RolledBackIndex(at) = indexRollback[at]
    BY <1>1, <2>1, FilesType DEF StoreInv, RolledBackIndex
  <2>3. QED
    BY <1>1, <2>1, <2>2, BeginFiles, FilesType, FileLengthType, IndexType DEF StoreInv
<1>3. RolledBackData(at) = Truncated(data[at], FileLength(data[at]))
  BY <1>2, MarkAssumption DEF RolledBackData
<1>4. /\ FileLength(RolledBackData(at)) = FileLength(data[at])
      /\ \A i \in 1..FileLength(data[at]) : RolledBackData(at)[i] = data[at][i]
  <2>1. \A i \in 1..FileLength(data[at]) : i <= FileLength(data[at])
    BY <1>2
  <2>2. /\ FileLength(Truncated(data[at], FileLength(data[at]))) = FileLength(data[at])
        /\ \A i \in 1..FileLength(data[at]) : i <= FileLength(data[at]) =>
              Truncated(data[at], FileLength(data[at]))[i] = data[at][i]
    BY <1>2, TruncatedType
  <2>3. QED
    BY <1>3, <2>1, <2>2
<1>5. /\ Agree(RolledBackIndex(at), RolledBackData(at))
      /\ Contents(RolledBackIndex(at), RolledBackData(at)) =
            Contents(RolledBackIndex(at), data[at])
  BY <1>2, <1>4, AgreeSame
<1>6. QED
  BY <1>2, <1>3, <1>5

\* The state file goes: from here the files are rolled back, not undone.
LEMMA BeginDoneStep ==
    ASSUME StoreInv, BeginDone
    PROVE  StoreInv'
<1>1. /\ UNCHANGED <<index, data, indexRollback, dataRollback, procedure, todo, at,
                     request, answer, requests, crashes>>
      /\ step = "begun" /\ step \in Begin /\ step # "beginIndex"
      /\ progress' = progress \ {"begin"} /\ step' = AfterBegin
  BY DEF BeginDone, Goto, Begin
<1>2. /\ at \in Class /\ progress = {"begin"} /\ progress' = {}
      /\ RolledBackIndex(at) = indexRollback[at] /\ dataRollback[at] \in Nat
      /\ Agree(RolledBackIndex(at), RolledBackData(at))
  BY <1>1, BeginFiles, BegunFiles
<1>3. \/ step' = "append" /\ request.kind # "delete"
      \/ step' = "rollbackFile"
      \/ /\ step' = "updateIndex" /\ request.kind = "delete"
         /\ Lookup(index[at], request.name) # {}
  BY <1>1 DEF AfterBegin
<1>4. step' \in Change /\ step' \notin UnprotectedSteps
  BY <1>3 DEF Change, ChangeSteps, UnprotectedSteps
<1>5. Typed'
  BY <1>1, <1>2, <1>4 DEF StoreInv, Typed
<1>6. RolledBackIndex(at)' = RolledBackIndex(at) /\ RolledBackData(at)' = RolledBackData(at)
  BY <1>1 DEF RolledBackIndex, RolledBackData
<1>7. AtWork
  <2>1. \A c \in Class : c # at => SameFiles(c)
    BY <1>1 DEF SameFiles
  <2>2. Recoverable(at)'
    <3>1. Agree(RolledBackIndex(at)', RolledBackData(at)')
      BY <1>2, <1>6
    <3>2. progress' # {"begin"} /\ progress' # {"commit"}
      BY <1>2
    <3>3. QED
      BY <1>1, <3>1, <3>2 DEF Recoverable
  <2>3. /\ ~Misread(RolledBackIndex(at))
        /\ request.kind = "modify" => Lookup(RolledBackIndex(at), request.name) # {}
    BY <1>1 DEF StoreInv, Requested
  <2>4. dataRollback[at] # Torn
    BY <1>2, MarkAssumption
  <2>5. QED
    BY <1>1, <1>3, <1>4, <1>6, <2>1, <2>2, <2>3, <2>4 DEF AtWork, Begin, BeginSteps, Change
<1>8. Progress'
  BY <1>2, <1>3 DEF Progress, Quiet, Begin, Change, Procedure, BeginSteps, ChangeSteps
<1>9. Saved'
  <2>1. /\ indexRollback[at] # Absent /\ dataRollback[at] = FileLength(data[at])
        /\ \A n \in Name : Lookup(index[at], n) = Lookup(indexRollback[at], n)
        /\ index[at] = Absent => indexRollback[at] \in {EmptyIndex, BlankIndex}
    BY <1>1 DEF StoreInv, Saved
  <2>2. dataRollback[at] # Absent
    BY <1>2, MarkAssumption
  <2>3. request.name \in Name
    BY <1>1, RequestType DEF StoreInv, Typed, Requested
  <2>4. QED
    BY <1>1, <1>3, <2>1, <2>2, <2>3 DEF Saved, Begin, Change, BeginSteps, ChangeSteps
<1>10. Made'
  BY <1>3 DEF Made
<1>11. QED
  BY <1>5, <1>7, <1>8, <1>9, <1>10, AtWorkKeeps DEF StoreInv

-----------------------------------------------------------------------------
\* While the files of a class are changed they can be rolled back.
LEMMA ChangeFiles ==
    ASSUME StoreInv, step \in Change
    PROVE  /\ at \in Class /\ progress = {}
           /\ indexRollback[at] \in Index /\ indexRollback[at] # Absent
           /\ RolledBackIndex(at) = indexRollback[at]
           /\ dataRollback[at] \in Nat /\ dataRollback[at] \notin {Absent, Torn}
           /\ data[at] \in {Absent} \cup Seq(Block)
           /\ RolledBackData(at) = Truncated(data[at], dataRollback[at])
           /\ step \notin UnprotectedSteps =>
                 Recoverable(at) /\ Agree(RolledBackIndex(at), RolledBackData(at))
<1>1. at \in Class /\ progress = {} /\ indexRollback[at] # Absent /\ dataRollback[at] # Absent
  BY DEF StoreInv, Typed, Progress, Saved
<1>2. dataRollback[at] # Torn
  BY <1>1 DEF StoreInv, Pending
<1>3. /\ indexRollback[at] \in Index /\ dataRollback[at] \in Nat
      /\ data[at] \in {Absent} \cup Seq(Block)
  BY <1>1, <1>2, FilesType DEF StoreInv
<1>4. /\ RolledBackIndex(at) = indexRollback[at]
      /\ RolledBackData(at) = Truncated(data[at], dataRollback[at])
  BY <1>1, <1>2 DEF RolledBackIndex, RolledBackData
<1>5. step \notin UnprotectedSteps => Recoverable(at)
  BY <1>1 DEF StoreInv, Consistent
<1>6. Recoverable(at) => Agree(RolledBackIndex(at), RolledBackData(at))
  BY <1>1 DEF Recoverable
<1>7. QED
  BY <1>1, <1>2, <1>3, <1>4, <1>5, <1>6

\* The data that is appended to can be truncated to what it was.
LEMMA AppendFiles ==
    ASSUME StoreInv, AppendInstance
    PROVE  /\ data'[at] \in Seq(Block) /\ data'[at] # Absent
           /\ Len(data'[at]) = dataRollback[at] + 1
           /\ data' = [data EXCEPT ![at] = data'[at]]
           /\ Truncated(data'[at], dataRollback[at]) = Truncated(data[at], dataRollback[at])
           /\ step = "appending" =>
                 data'[at][Len(data'[at])] = request.value
<1>1. step \in {"append", "appending"} /\ step \in Change
  BY DEF AppendInstance, Change, ChangeSteps
<1>2. PICK dat \in {Absent} \cup Seq(Block) : dat = data[at]
  BY <1>1, ChangeFiles
<1>3. PICK size \in Nat : size = dataRollback[at]
  BY <1>1, ChangeFiles
<1>4. CASE step = "append"
  <2>1. size = FileLength(dat) /\ Torn \in Block
    BY <1>2, <1>3, <1>4 DEF StoreInv, Saved, Block
  <2>2. PICK new : new = AppendBlock(dat, Torn)
    OBVIOUS
  <2>3. /\ new \in Seq(Block) /\ new # Absent /\ Len(new) = size + 1
        /\ FileLength(new) = size + 1
        /\ \A i \in 1..size : new[i] = dat[i]
    BY <2>1, <2>2, AppendBlockType
  <2>4. Truncated(new, size) = Truncated(dat, size)
    <3>1. size <= FileLength(new) /\ size <= FileLength(dat)
      BY <2>1, <2>3
    <3>2. \A i \in 1..size : new[i] = dat[i]
      BY <2>3
    <3>3. QED
      BY <2>3, <3>1, <3>2, TruncatedSame
  <2>5. data' = [data EXCEPT ![at] = new]
    BY <1>2, <1>4, <2>2 DEF AppendInstance
  <2>6. data'[at] = new
    BY <1>1, <2>5, ChangeFiles DEF StoreInv, Typed
  <2>7. QED
    BY <1>2, <1>3, <1>4, <2>3, <2>4, <2>5, <2>6
<1>5. CASE step = "appending"
  <2>1. dat # Absent /\ Len(dat) = size + 1 /\ dat \in Seq(Block) /\ request.value \in Block
    <3>1. dat # Absent /\ Len(dat) = size + 1 /\ request.kind # "delete"
      BY <1>2, <1>3, <1>5 DEF StoreInv, Saved
    <3>2. request \in Request /\ request.kind # "deleteClass"
      BY <1>1 DEF StoreInv, Typed, Requested
    <3>3. QED
      BY <3>1, <3>2, RequestType DEF Block
  <2>2. PICK front : front = Front(dat)
    OBVIOUS
  <2>3. front \in Seq(Block) /\ front # Absent /\ Len(front) = size
        /\ \A i \in 1..size : front[i] = dat[i]
    BY <2>1, <2>2, FrontType
  <2>4. PICK new : new = AppendBlock(front, request.value)
    OBVIOUS
  <2>5. FileLength(front) = size /\ FileLength(dat) = size + 1
    BY <2>1, <2>3 DEF FileLength
  <2>6. /\ new \in Seq(Block) /\ new # Absent /\ Len(new) = size + 1
        /\ FileLength(new) = size + 1 /\ new[size + 1] = request.value
        /\ \A i \in 1..size : new[i] = front[i]
    <3>1. PICK block \in Block : block = request.value
      BY <2>1
    <3>2. new = AppendBlock(front, block) /\ front \in {Absent} \cup Seq(Block)
      BY <2>3, <2>4, <3>1
    <3>3. /\ new \in Seq(Block) /\ new # Absent /\ Len(new) = FileLength(front) + 1
          /\ FileLength(new) = FileLength(front) + 1 /\ new[FileLength(front) + 1] = block
          /\ \A i \in 1..FileLength(front) : new[i] = front[i]
      BY <3>2, AppendBlockType
    <3>4. QED
      BY <2>5, <3>1, <3>3
  <2>7. Truncated(new, size) = Truncated(dat, size)
    <3>1. size <= FileLength(new) /\ size <= FileLength(dat)
      BY <2>5, <2>6
    <3>2. \A i \in 1..size : new[i] = dat[i]
      BY <2>3, <2>6
    <3>3. QED
      BY <2>6, <3>1, <3>2, TruncatedSame
  <2>8. data' = [data EXCEPT ![at] = new]
    BY <1>2, <1>5, <2>2, <2>4 DEF AppendInstance
  <2>9. data'[at] = new
    BY <1>1, <2>8, ChangeFiles DEF StoreInv, Typed
  <2>10. QED
    BY <1>2, <1>3, <2>6, <2>7, <2>8, <2>9
<1>6. QED
  BY <1>1, <1>4, <1>5

\* The instance is appended.
LEMMA AppendInstanceStep ==
    ASSUME StoreInv, AppendInstance
    PROVE  StoreInv'
<1>1. /\ UNCHANGED <<index, indexRollback, dataRollback, progress, procedure, todo, at,
                     request, answer, requests, crashes>>
      /\ \/ step = "append" /\ step' = "appending"
         \/ step = "appending" /\ step' = "updateIndex"
  BY DEF AppendInstance, Goto
<1>2. step \in Change /\ step' \in Change /\ step \notin UnprotectedSteps
  BY <1>1 DEF Change, ChangeSteps, UnprotectedSteps
<1>3. /\ data'[at] \in Seq(Block) /\ data'[at] # Absent
      /\ Len(data'[at]) = dataRollback[at] + 1
      /\ data' = [data EXCEPT ![at] = data'[at]]
      /\ Truncated(data'[at], dataRollback[at]) = Truncated(data[at], dataRollback[at])
      /\ step = "appending" => data'[at][Len(data'[at])] = request.value
  BY AppendFiles
<1>4. /\ at \in Class /\ progress = {} /\ indexRollback[at] # Absent
      /\ dataRollback[at] \notin {Absent, Torn}
      /\ Recoverable(at)
      /\ RolledBackData(at) = Truncated(data[at], dataRollback[at])
  BY <1>2, ChangeFiles
<1>5. Typed'
  <2>1. data' \in [Class -> {Absent} \cup Seq(Block)]
    BY <1>3, <1>4 DEF StoreInv, Typed
  <2>2. QED
    BY <1>1, <1>2, <2>1 DEF StoreInv, Typed
<1>6. RolledBackIndex(at)' = RolledBackIndex(at)
  BY <1>1 DEF RolledBackIndex
<1>7. RolledBackData(at)' = RolledBackData(at)
  BY <1>1, <1>3, <1>4 DEF RolledBackData
<1>8. AtWork
  <2>1. \A c \in Class : c # at => SameFiles(c)
    BY <1>1, <1>3, <1>4 DEF SameFiles, StoreInv, Typed
  <2>2. Recoverable(at)'
    BY <1>1, <1>4, <1>6, <1>7 DEF Recoverable
  <2>3. /\ ~Misread(RolledBackIndex(at))
        /\ request.kind = "modify" => Lookup(RolledBackIndex(at), request.name) # {}
    BY <1>2 DEF StoreInv, Requested
  <2>4. QED
    BY <1>1, <1>2, <1>4, <1>6, <2>1, <2>2, <2>3 DEF AtWork
<1>9. Progress'
  BY <1>1, <1>4 DEF Progress, Quiet, Begin, Change, Procedure, BeginSteps, ChangeSteps
<1>10. Saved'
  <2>1. /\ \A n \in Name : Lookup(index[at], n) = Lookup(indexRollback[at], n)
        /\ index[at] = Absent => indexRollback[at] \in {EmptyIndex, BlankIndex}
        /\ request.kind # "delete"
    BY <1>1 DEF StoreInv, Saved
  <2>2. QED
    BY <1>1, <1>3, <1>4, <2>1 DEF Saved, Begin, Change, BeginSteps, ChangeSteps
<1>11. Made'
  BY <1>1 DEF Made
<1>12. QED
  BY <1>5, <1>8, <1>9, <1>10, <1>11, AtWorkKeeps DEF StoreInv

\* What UpdatedIndex does is what the request asks for, with the index that was saved and with
\* a new one.
LEMMA UpdateOf ==
    ASSUME StoreInv, step = "updating",
           NEW idx \in Index, Agree(idx, RolledBackData(at)), ~Misread(idx),
           \A n \in Name : Lookup(idx, n) = Lookup(RolledBackIndex(at), n)
    PROVE  /\ Updates(request, idx, RolledBackData(at), UpdatedIndex(idx), data[at])
           /\ request.kind # "create" => ~Headless(UpdatedIndex(idx))
<1>1. step \in Change /\ step \notin UnprotectedSteps
  BY DEF Change, ChangeSteps, UnprotectedSteps
<1>2. \A n \in Name : Lookup(idx, n) = Lookup(indexRollback[at], n)
  BY <1>1, ChangeFiles
<1>3. PICK size \in Nat : size = dataRollback[at]
  BY <1>1, ChangeFiles
<1>4. PICK other \in {Absent} \cup Seq(Block) : other = data[at]
  BY <1>1, ChangeFiles
<1>5. PICK dat \in {Absent} \cup Seq(Block) : dat = RolledBackData(at)
  BY <1>1, ChangeFiles, FilesType DEF StoreInv
<1>6. dat = Truncated(other, size) /\ Agree(idx, dat)
  BY <1>1, <1>3, <1>4, <1>5, ChangeFiles
<1>7. PICK r \in Request : r = request /\ r.kind # "deleteClass"
  BY <1>1 DEF StoreInv, Typed, Requested
<1>8. r.name \in Name /\ r.kind \in {"create", "modify", "delete"}
  BY <1>7, RequestType
<1>9. /\ r.kind = "create" => Lookup(idx, r.name) = {}
      /\ r.kind = "modify" => Lookup(idx, r.name) # {}
      /\ r.kind = "delete" => Lookup(idx, r.name) # {} /\ FileLength(other) = size
      /\ r.kind # "delete" =>
            other # Absent /\ Len(other) = size + 1 /\ other[Len(other)] = r.value
  <2>1. r.kind = "modify" => Lookup(idx, r.name) # {}
    BY <1>1, <1>7, <1>8 DEF StoreInv, Requested
  <2>2. Lookup(idx, r.name) = Lookup(indexRollback[at], r.name)
    BY <1>2, <1>8
  <2>3. QED
    BY <1>3, <1>4, <1>7, <2>1, <2>2 DEF StoreInv, Saved
<1>a. ~Misread(idx) /\ (r.kind # "create" => ~Headless(idx))
  <2>1. r.kind # "create" => idx.entries # <<>>
    BY <1>8, <1>9, EmptySeq, LookupIndex, IndexType
  <2>2. QED
    BY <2>1 DEF Misread
<1>10. /\ FileLength(dat) = size
       /\ \A i \in 1..size : i <= FileLength(other) => dat[i] = other[i]
  BY <1>6, TruncatedType
<1>11. UpdatedIndex(idx) =
          CASE r.kind = "create" -> NewEntry(idx, r.name, Len(other))
            [] r.kind = "modify" ->
                  CountFree(NewEntry(MarkFree(idx, r.name), r.name, Len(other)))
            [] r.kind = "delete" -> CountFree(MarkFree(idx, r.name))
  BY <1>4, <1>7 DEF UpdatedIndex
<1>b. SUFFICES Updates(request, idx, RolledBackData(at), UpdatedIndex(idx), data[at])
  BY <1>7, <1>a, IndexType DEF Updates
<1>12. CASE r.kind = "delete"
  <2>1. \A i \in 1..FileLength(dat) : other[i] = dat[i]
    BY <1>9, <1>10, <1>12
  <2>2. Updates(r, idx, dat, CountFree(MarkFree(idx, r.name)), other)
    BY <1>6, <1>8, <1>9, <1>a, <1>10, <1>12, <2>1, UpdatesDelete
  <2>3. UpdatedIndex(idx) = CountFree(MarkFree(idx, r.name))
    BY <1>11, <1>12
  <2>4. QED
    BY <1>4, <1>5, <1>7, <2>2, <2>3
<1>13. CASE r.kind # "delete"
  <2>1. FileLength(other) = FileLength(dat) + 1 /\ FileLength(other) = Len(other)
        /\ other[FileLength(other)] = r.value
    BY <1>9, <1>10, <1>13 DEF FileLength
  <2>2. \A i \in 1..FileLength(dat) : other[i] = dat[i]
    <3>1. \A i \in 1..size : i <= FileLength(other)
      BY <1>10, <2>1
    <3>2. QED
      BY <1>10, <3>1
  <2>3. CASE r.kind = "create"
    <3>1. Updates(r, idx, dat, NewEntry(idx, r.name, FileLength(other)), other)
      BY <1>6, <1>8, <1>9, <1>a, <2>1, <2>2, <2>3, UpdatesCreate
    <3>2. UpdatedIndex(idx) = NewEntry(idx, r.name, FileLength(other))
      BY <1>11, <2>1, <2>3
    <3>3. QED
      BY <1>4, <1>5, <1>7, <3>1, <3>2
  <2>4. CASE r.kind = "modify"
    <3>1. Updates(r, idx, dat,
              CountFree(NewEntry(MarkFree(idx, r.name), r.name, FileLength(other))), other)
      BY <1>6, <1>8, <1>9, <1>a, <2>1, <2>2, <2>4, UpdatesModify
    <3>2. UpdatedIndex(idx) =
             CountFree(NewEntry(MarkFree(idx, r.name), r.name, FileLength(other)))
      BY <1>11, <2>1, <2>4
    <3>3. QED
      BY <1>4, <1>5, <1>7, <3>1, <3>2
  <2>5. QED
    BY <1>8, <1>13, <2>3, <2>4
<1>14. QED
  BY <1>12, <1>13

\* The index that is changed is the one that was saved, or a new one.
LEMMA UpdateMade ==
    ASSUME StoreInv, step = "updating",
           NEW old, old = Contents(RolledBackIndex(at), RolledBackData(at)),
           NEW new, new = UpdatedIndex(IndexBefore)
    PROVE  /\ new \in Index /\ Agree(new, data[at])
           /\ Fits(request, old) /\ Changes(request, old, Contents(new, data[at]))
           /\ request.kind # "create" => ~Headless(new)
<1>1. step \in Change /\ step \notin UnprotectedSteps
  BY DEF Change, ChangeSteps, UnprotectedSteps
<1>2. /\ RolledBackIndex(at) \in Index /\ RolledBackIndex(at) = indexRollback[at]
      /\ Agree(RolledBackIndex(at), RolledBackData(at)) /\ ~Misread(RolledBackIndex(at))
  <2>1. ~Misread(RolledBackIndex(at))
    BY <1>1 DEF StoreInv, Requested
  <2>2. QED
    BY <1>1, <2>1, ChangeFiles
<1>3. CASE IndexBefore = RolledBackIndex(at)
  <2>1. /\ Updates(request, RolledBackIndex(at), RolledBackData(at), new, data[at])
        /\ request.kind # "create" => ~Headless(new)
    BY <1>2, <1>3, UpdateOf
  <2>2. QED
    BY <2>1 DEF Updates, Changes
<1>4. CASE IndexBefore # RolledBackIndex(at)
  <2>1. IndexBefore = EmptyIndex /\ RolledBackIndex(at) = BlankIndex
    BY <1>2, <1>4 DEF StoreInv, Saved, IndexBefore
  <2>2. RolledBackData(at) \in {Absent} \cup Seq(Block)
    BY <1>1, ChangeFiles, FilesType DEF StoreInv
  <2>3. FileLength(RolledBackData(at)) = 0
    BY <1>2, <2>1, EmptySeq, IndexType DEF Agree, BlankIndex
  <2>4. /\ EmptyIndex \in Index /\ Agree(EmptyIndex, RolledBackData(at))
        /\ ~Misread(EmptyIndex)
        /\ \A n \in Name : Lookup(EmptyIndex, n) = Lookup(RolledBackIndex(at), n)
    BY <2>1, <2>2, <2>3, EmptyAgrees
  <2>5. /\ Updates(request, EmptyIndex, RolledBackData(at), new, data[at])
        /\ request.kind # "create" => ~Headless(new)
    BY <2>1, <2>4, UpdateOf
  <2>6. /\ Contents(EmptyIndex, RolledBackData(at)) = [n \in Name |-> None]
        /\ old = [n \in Name |-> Blank]
    BY <2>1, NewIndexShown
  <2>7. request.name \in Name
    BY <1>1, RequestType DEF StoreInv, Typed, Requested
  <2>8. /\ Fits(request, [n \in Name |-> None])
        /\ Contents(new, data[at]) = Changed(request, [n \in Name |-> None])
    BY <2>5, <2>6 DEF Updates
  <2>9. request.kind = "create" /\ Fits(request, old)
    BY <2>6, <2>7, <2>8 DEF Fits
  <2>10. Contents(new, data[at]) = [[n \in Name |-> None] EXCEPT ![request.name] = request.value]
    <3>1. [n \in Name |-> None][request.name] # Blank /\ request.kind # "delete"
      BY <2>7, <2>9, MarkAssumption
    <3>2. QED
      BY <2>8, <3>1 DEF Changed
  <2>11. Changes(request, old, Contents(new, data[at]))
    BY <2>6, <2>7, <2>9, <2>10 DEF Changes
  <2>12. QED
    BY <2>5, <2>9, <2>11 DEF Updates
<1>5. QED
  BY <1>3, <1>4

\* The index is replaced.
LEMMA UpdateIndexStep ==
    ASSUME StoreInv, UpdateIndex
    PROVE  StoreInv'
<1>1. /\ UNCHANGED <<data, indexRollback, dataRollback, progress, procedure, todo, at,
                     request, answer, requests, crashes>>
      /\ \/ /\ step = "updateIndex" /\ Exists
            /\ step' = "rollbackFile" /\ index' = index
         \/ /\ step = "updateIndex" /\ ~Exists
            /\ step' = "updating"
            /\ index' = [index EXCEPT ![at] = IF @ = Absent THEN EmptyIndex ELSE Torn]
         \/ /\ step = "updating" /\ step' \in {"compactData", "commitFile"}
            /\ step' = "compactData" => request.kind # "create"
            /\ index' = [index EXCEPT ![at] = UpdatedIndex(IndexBefore)]
  BY DEF UpdateIndex, Goto, NeedsCompaction
<1>2. step \in Change /\ step' \in Change /\ step \notin UnprotectedSteps
      /\ step' \notin UnprotectedSteps
  BY <1>1 DEF Change, ChangeSteps, UnprotectedSteps
<1>3. /\ at \in Class /\ progress = {} /\ indexRollback[at] # Absent
      /\ dataRollback[at] \notin {Absent, Torn}
      /\ Recoverable(at) /\ RolledBackIndex(at) = indexRollback[at]
  BY <1>2, ChangeFiles
<1>a. PICK old : old = Contents(RolledBackIndex(at), RolledBackData(at))
  OBVIOUS
<1>b. PICK new : new = UpdatedIndex(IndexBefore)
  OBVIOUS
<1>4. step = "updating" =>
         /\ new \in Index /\ Agree(new, data[at])
         /\ Fits(request, old) /\ Changes(request, old, Contents(new, data[at]))
         /\ request.kind # "create" => ~Headless(new)
  BY <1>a, <1>b, UpdateMade
<1>5. Typed'
  <2>1. /\ step = "updating" => UpdatedIndex(IndexBefore) \in Index
        /\ EmptyIndex \in Index
    BY <1>4, <1>b, NewIndexShown
  <2>2. index' \in [Class -> {Absent, Torn} \cup Index]
    BY <1>1, <1>3, <2>1 DEF StoreInv, Typed
  <2>3. QED
    BY <1>1, <1>2, <2>2 DEF StoreInv, Typed
<1>6. RolledBackIndex(at)' = RolledBackIndex(at) /\ RolledBackData(at)' = RolledBackData(at)
  BY <1>1, <1>3 DEF RolledBackIndex, RolledBackData
<1>7. AtWork
  <2>1. \A c \in Class : c # at => SameFiles(c)
    BY <1>1, <1>3 DEF SameFiles, StoreInv, Typed
  <2>2. Recoverable(at)'
    BY <1>1, <1>3, <1>6 DEF Recoverable
  <2>3. /\ ~Misread(RolledBackIndex(at))
        /\ request.kind = "modify" => Lookup(RolledBackIndex(at), request.name) # {}
    BY <1>2 DEF StoreInv, Requested
  <2>4. step' \notin {"beginIndex", "compactIndex", "compacted"}
    BY <1>1
  <2>5. QED
    BY <1>1, <1>2, <1>3, <1>6, <2>1, <2>2, <2>3, <2>4 DEF AtWork
<1>8. Progress'
  BY <1>1, <1>3 DEF Progress, Quiet, Begin, Change, Procedure, BeginSteps, ChangeSteps
<1>9. Saved'
  <2>1. request \in Request /\ request.kind # "deleteClass"
    BY <1>2 DEF StoreInv, Typed, Requested
  <2>2. request.name \in Name
    BY <2>1, RequestType
  <2>3. step = "updateIndex" =>
            Lookup(index[at], request.name) = Lookup(indexRollback[at], request.name)
    BY <2>2 DEF StoreInv, Saved
  <2>4. step' = "updating" /\ request.kind = "create" =>
            Lookup(indexRollback[at], request.name) = {}
    BY <1>1, <2>3 DEF Exists
  <2>5. step = "updateIndex" =>
          /\ request.kind = "delete" =>
                /\ FileLength(data[at]) = dataRollback[at]
                /\ Lookup(indexRollback[at], request.name) # {}
          /\ request.kind # "delete" =>
                /\ data[at] # Absent /\ Len(data[at]) = dataRollback[at] + 1
                /\ data[at][Len(data[at])] = request.value
    BY DEF StoreInv, Saved
  <2>6. step' = "updating" =>
            \/ index'[at] = Torn
            \/ index'[at] = EmptyIndex /\ indexRollback[at] \in {EmptyIndex, BlankIndex}
    <3>1. step = "updateIndex" =>
              (index[at] = Absent => indexRollback[at] \in {EmptyIndex, BlankIndex})
      BY DEF StoreInv, Saved
    <3>2. QED
      BY <1>1, <1>3, <3>1 DEF StoreInv, Typed
  <2>7. QED
    BY <1>1, <1>3, <2>4, <2>5, <2>6 DEF Saved, Begin, Change, BeginSteps, ChangeSteps
<1>10. Made'
  <2>1. CASE step = "updating"
    <3>1. index'[at] = new
      BY <1>1, <1>3, <1>b, <2>1 DEF StoreInv, Typed
    <3>2. /\ index'[at] # Absent /\ Agree(index'[at], data[at])
          /\ Fits(request, old) /\ Changes(request, old, Contents(index'[at], data[at]))
          /\ step' = "compactData" => ~Headless(index'[at])
      BY <1>1, <1>4, <2>1, <3>1, IndexType
    <3>3. old = Contents(RolledBackIndex(at), RolledBackData(at))'
      BY <1>6, <1>a
    <3>4. QED
      BY <1>1, <3>2, <3>3 DEF Made
  <2>2. CASE step # "updating"
    BY <1>1, <2>2 DEF Made
  <2>3. QED
    BY <2>1, <2>2
<1>11. QED
  BY <1>5, <1>7, <1>8, <1>9, <1>10, AtWorkKeeps DEF StoreInv

\* The change that compaction starts from.
LEMMA CompactFiles ==
    ASSUME StoreInv, step = "compactData"
    PROVE  /\ index[at] \in Index /\ Agree(index[at], data[at])
           /\ CompactedIndex(index[at]) \in Index
           /\ CompactedData(index[at], data[at]) \in Seq(Block)
           /\ Agree(CompactedIndex(index[at]), CompactedData(index[at], data[at]))
           /\ Contents(CompactedIndex(index[at]), CompactedData(index[at], data[at])) =
                 Contents(index[at], data[at])
<1>1. step \in Change
  BY DEF Change, ChangeSteps
<1>2. PICK dat \in {Absent} \cup Seq(Block) : dat = data[at]
  BY <1>1, ChangeFiles
<1>3. PICK idx : idx = index[at]
  OBVIOUS
<1>4. idx # Absent /\ Agree(idx, dat) /\ ~Headless(idx)
  BY <1>2, <1>3 DEF StoreInv, Made
<1>5. idx \in Index
  BY <1>4 DEF Agree
<1>6. /\ CompactedIndex(idx) \in Index /\ CompactedData(idx, dat) \in Seq(Block)
      /\ Agree(CompactedIndex(idx), CompactedData(idx, dat))
      /\ Contents(CompactedIndex(idx), CompactedData(idx, dat)) = Contents(idx, dat)
  BY <1>4, <1>5, Compaction
<1>7. QED
  BY <1>2, <1>3, <1>4, <1>5, <1>6

\* The data is compacted: there is no way back.
LEMMA CompactDataStep ==
    ASSUME StoreInv, CompactData
    PROVE  StoreInv'
<1>1. /\ UNCHANGED <<index, indexRollback, dataRollback, progress, procedure, todo, at,
                     request, answer, requests, crashes>>
      /\ step = "compactData" /\ step' = "compactIndex"
      /\ data' = [data EXCEPT ![at] = CompactedData(index[at], data[at])]
  BY DEF CompactData, Goto
<1>2. step \in Change /\ step' \in Change /\ step \notin UnprotectedSteps
      /\ step' \in UnprotectedSteps
  BY <1>1 DEF Change, ChangeSteps, UnprotectedSteps
<1>3. /\ at \in Class /\ progress = {} /\ indexRollback[at] # Absent
      /\ dataRollback[at] \notin {Absent, Torn}
  BY <1>2, ChangeFiles
<1>4. /\ CompactedData(index[at], data[at]) \in Seq(Block)
      /\ Agree(CompactedIndex(index[at]), CompactedData(index[at], data[at]))
  BY <1>1, CompactFiles
<1>5. Typed'
  <2>1. data' \in [Class -> {Absent} \cup Seq(Block)]
    BY <1>1, <1>3, <1>4 DEF StoreInv, Typed
  <2>2. QED
    BY <1>1, <1>2, <2>1 DEF StoreInv, Typed
<1>6. data'[at] = CompactedData(index[at], data[at])
  BY <1>1, <1>3 DEF StoreInv, Typed
<1>7. AtWork
  <2>1. \A c \in Class : c # at => SameFiles(c)
    BY <1>1, <1>3 DEF SameFiles, StoreInv, Typed
  <2>2. /\ ~Misread(RolledBackIndex(at))
        /\ request.kind = "modify" => Lookup(RolledBackIndex(at), request.name) # {}
    BY <1>2 DEF StoreInv, Requested
  <2>3. RolledBackIndex(at)' = RolledBackIndex(at)
    BY <1>1 DEF RolledBackIndex
  <2>4. Agree(CompactedIndex(index'[at]), data'[at])
    BY <1>1, <1>4, <1>6
  <2>5. QED
    BY <1>1, <1>2, <1>3, <2>1, <2>2, <2>3, <2>4 DEF AtWork
<1>8. Progress'
  BY <1>1, <1>3 DEF Progress, Quiet, Begin, Change, Procedure, BeginSteps, ChangeSteps
<1>9. Saved'
  BY <1>1, <1>3 DEF Saved, Begin, Change, BeginSteps, ChangeSteps
<1>10. Made'
  BY <1>1 DEF Made
<1>11. QED
  BY <1>5, <1>7, <1>8, <1>9, <1>10, AtWorkKeeps DEF StoreInv

\* The index follows.
LEMMA CompactIndexStep ==
    ASSUME StoreInv, CompactIndex
    PROVE  StoreInv'
<1>1. /\ UNCHANGED <<data, indexRollback, dataRollback, progress, procedure, todo, at,
                     request, answer, requests, crashes>>
      /\ step = "compactIndex" /\ step' = "compacted"
      /\ index' = [index EXCEPT ![at] = CompactedIndex(index[at])]
  BY DEF CompactIndex, Goto
<1>2. step \in Change /\ step' \in Change /\ step' \in UnprotectedSteps
  BY <1>1 DEF Change, ChangeSteps, UnprotectedSteps
<1>3. /\ at \in Class /\ progress = {} /\ indexRollback[at] # Absent
      /\ dataRollback[at] \notin {Absent, Torn}
  BY <1>2, ChangeFiles
<1>4. Agree(CompactedIndex(index[at]), data[at])
  BY <1>1 DEF StoreInv, Consistent
<1>5. index'[at] = CompactedIndex(index[at])
  BY <1>1, <1>3 DEF StoreInv, Typed
<1>6. Typed'
  <2>1. CompactedIndex(index[at]) \in {Absent, Torn} \cup Index
    BY <1>4 DEF Agree
  <2>2. index' \in [Class -> {Absent, Torn} \cup Index]
    BY <1>1, <1>3, <2>1 DEF StoreInv, Typed
  <2>3. QED
    BY <1>1, <1>2, <2>2 DEF StoreInv, Typed
<1>7. AtWork
  <2>1. \A c \in Class : c # at => SameFiles(c)
    BY <1>1, <1>3 DEF SameFiles, StoreInv, Typed
  <2>2. /\ ~Misread(RolledBackIndex(at))
        /\ request.kind = "modify" => Lookup(RolledBackIndex(at), request.name) # {}
    BY <1>2 DEF StoreInv, Requested
  <2>3. RolledBackIndex(at)' = RolledBackIndex(at)
    BY <1>1, <1>3 DEF RolledBackIndex
  <2>4. Agree(index'[at], data'[at])
    BY <1>1, <1>4, <1>5
  <2>5. QED
    BY <1>1, <1>2, <1>3, <2>1, <2>2, <2>3, <2>4 DEF AtWork
<1>8. Progress'
  BY <1>1, <1>3 DEF Progress, Quiet, Begin, Change, Procedure, BeginSteps, ChangeSteps
<1>9. Saved'
  BY <1>1, <1>3 DEF Saved, Begin, Change, BeginSteps, ChangeSteps
<1>10. Made'
  BY <1>1 DEF Made
<1>11. QED
  BY <1>6, <1>7, <1>8, <1>9, <1>10, AtWorkKeeps DEF StoreInv

-----------------------------------------------------------------------------
\* What the procedures over the rollback files do not touch.
LEMMA AfterWork ==
    ASSUME step' \in Procedure \cup {"idle", "down"}, step' \in {"idle", "down"} => request' = None
    PROVE  Requested' /\ Saved' /\ Made'
<1>1. step' \notin Begin \cup Change \cup {"start", "beginFile", "removeData", "updating"}
  BY DEF Begin, Change, Procedure, BeginSteps, ChangeSteps
<1>2. Requested'
  BY <1>1 DEF Requested, Quiet
<1>3. Saved'
  BY <1>1 DEF Saved, Begin, Change, BeginSteps, ChangeSteps
<1>4. Made'
  BY <1>1 DEF Made, Change, ChangeSteps
<1>5. QED
  BY <1>2, <1>3, <1>4

\* The change is committed: what the index and the data hold is what is kept.
LEMMA CommitFileStep ==
    ASSUME StoreInv, CommitFile
    PROVE  StoreInv'
<1>1. /\ UNCHANGED <<index, data, indexRollback, dataRollback, at, request, answer,
                     requests, crashes>>
      /\ step \in {"commitFile", "compacted"} /\ step' = "each"
      /\ progress' = progress \cup {"commit"} /\ procedure' = "commit" /\ todo' = {at}
  BY DEF CommitFile, Goto
<1>2. step \in Change
  BY <1>1 DEF Change, ChangeSteps
<1>3. at \in Class /\ progress = {} /\ progress' = {"commit"}
  BY <1>1, <1>2, ChangeFiles
<1>4. Agree(index[at], data[at])
  BY <1>1 DEF StoreInv, Consistent, Made
<1>5. Typed'
  BY <1>1, <1>3 DEF StoreInv, Typed, Procedure
<1>6. Progress'
  BY <1>1, <1>3 DEF Progress, Quiet, Begin, Change, Procedure, BeginSteps, ChangeSteps,
                    StateFile
<1>7. Pending'
  <2>1. \A c \in Class : LeftOver(c)' => c = at
    BY <1>1, <1>2, FilesKept DEF StoreInv, Pending
  <2>2. \A c \in Class : dataRollback'[c] # Torn
    BY <1>1, <1>3 DEF StoreInv, Pending
  <2>3. QED
    BY <1>1, <2>1, <2>2 DEF Pending, Quiet, Begin, Change, Procedure, BeginSteps, ChangeSteps
<1>8. Consistent'
  <2>1. \A c \in Class : c # at => Recoverable(c)'
    BY <1>1, <1>2, OthersKept, FilesKept
  <2>2. Recoverable(at)'
    <3>1. Agree(index'[at], data'[at])
      BY <1>1, <1>4
    <3>2. QED
      BY <1>1, <1>3, <3>1 DEF Recoverable
  <2>3. QED
    BY <1>1, <2>1, <2>2 DEF Consistent
<1>9. QED
  BY <1>1, <1>5, <1>6, <1>7, <1>8, AfterWork DEF StoreInv, Procedure

\* A transaction that was not completed is rolled back.
LEMMA RollbackFileStep ==
    ASSUME StoreInv, RollbackFile
    PROVE  StoreInv'
<1>1. /\ UNCHANGED <<index, data, indexRollback, dataRollback, at, request, answer,
                     requests, crashes>>
      /\ step = "rollbackFile" /\ step' = "each"
      /\ progress' = progress \cup {"rollback"} /\ procedure' = "rollback" /\ todo' = {at}
  BY DEF RollbackFile, Goto
<1>2. step \in Change /\ step \notin UnprotectedSteps
  BY <1>1 DEF Change, UnprotectedSteps
<1>3. /\ at \in Class /\ progress = {} /\ progress' = {"rollback"}
      /\ Agree(RolledBackIndex(at), RolledBackData(at))
  BY <1>1, <1>2, ChangeFiles
<1>4. Typed'
  BY <1>1, <1>3 DEF StoreInv, Typed, Procedure
<1>5. Progress'
  BY <1>1, <1>3 DEF Progress, Quiet, Begin, Change, Procedure, BeginSteps, ChangeSteps,
                    StateFile
<1>6. Pending'
  <2>1. \A c \in Class : LeftOver(c)' => c = at
    BY <1>1, <1>2, FilesKept DEF StoreInv, Pending
  <2>2. \A c \in Class : dataRollback'[c] # Torn
    BY <1>1, <1>3 DEF StoreInv, Pending
  <2>3. QED
    BY <1>1, <2>1, <2>2 DEF Pending, Quiet, Begin, Change, Procedure, BeginSteps, ChangeSteps
<1>7. Consistent'
  <2>1. \A c \in Class : c # at => Recoverable(c)'
    BY <1>1, <1>2, OthersKept, FilesKept
  <2>2. Recoverable(at)'
    <3>1. RolledBackIndex(at)' = RolledBackIndex(at) /\ RolledBackData(at)' = RolledBackData(at)
      BY <1>1 DEF RolledBackIndex, RolledBackData
    <3>2. progress' # {"begin"} /\ progress' # {"commit"}
      BY <1>3
    <3>3. QED
      BY <1>1, <1>3, <3>1, <3>2 DEF Recoverable
  <2>3. QED
    BY <1>1, <2>1, <2>2 DEF Consistent
<1>8. QED
  BY <1>1, <1>4, <1>5, <1>6, <1>7, AfterWork DEF StoreInv, Procedure

\* The procedure takes the next class.
LEMMA TakeClassStep ==
    ASSUME StoreInv, NEW c \in Class, TakeClass(c)
    PROVE  StoreInv'
<1>1. /\ UNCHANGED <<index, data, indexRollback, dataRollback, progress, procedure,
                     request, answer, requests, crashes>>
      /\ step = "each" /\ step' = "index" /\ c \in todo
      /\ todo' = todo \ {c} /\ at' = c
  BY DEF TakeClass, Goto, fileVars
<1>2. Typed'
  BY <1>1 DEF StoreInv, Typed, Procedure
<1>3. Progress'
  BY <1>1 DEF StoreInv, Progress, Quiet, Begin, Change, Procedure, BeginSteps, ChangeSteps
<1>4. Pending'
  <2>1. \A d \in Class : LeftOver(d)' => d \in todo
    BY <1>1, FilesKept DEF StoreInv, Pending, Procedure
  <2>2. \A d \in Class : dataRollback'[d] = Torn => progress' = {"begin"}
    BY <1>1 DEF StoreInv, Pending
  <2>3. QED
    BY <1>1, <2>1, <2>2 DEF Pending, Quiet, Begin, Change, Procedure, BeginSteps, ChangeSteps
<1>5. Consistent'
  <2>1. \A d \in Class : Recoverable(d)
    BY <1>1 DEF StoreInv, Consistent, UnprotectedSteps
  <2>2. \A d \in Class : Recoverable(d)'
    BY <1>1, <2>1, RecoverableKept, FilesKept
  <2>3. QED
    BY <1>1, <2>2 DEF Consistent
<1>6. QED
  BY <1>1, <1>2, <1>3, <1>4, <1>5, AfterWork DEF StoreInv, Procedure

\* What a step of a procedure on the files of the class at has to see to.
AtProcedure ==
    /\ step \in Procedure \ {"each"} /\ step' \in Procedure
    /\ UNCHANGED <<progress, procedure, todo, at, request, answer, requests, crashes>>
    /\ \A c \in Class : c # at => SameFiles(c)
    /\ Recoverable(at)'
    /\ step' = "each" => ~LeftOver(at)'
    /\ step' = "rename" => procedure = "undo"
    /\ step' = "drop" => procedure = "rollback" /\ RolledBackData(at)' = data'[at]
    /\ step' \in {"data", "drop"} => indexRollback'[at] = Absent
    /\ dataRollback'[at] = Torn => dataRollback[at] = Torn

\* Such a step keeps the invariant.
LEMMA AtProcedureKeeps ==
    ASSUME StoreInv, AtProcedure, Typed'
    PROVE  StoreInv'
<1>1. /\ step \in Procedure \ {"each"} /\ step' \in Procedure
      /\ UNCHANGED <<progress, procedure, todo, at, request, answer, requests, crashes>>
      /\ at \in Class
  BY DEF AtProcedure, StoreInv, Typed
<1>2. Progress'
  <2>1. \/ progress' = {StateFile[procedure']}
        \/ procedure' = "rollback" /\ progress' = {}
    BY <1>1 DEF StoreInv, Progress
  <2>2. QED
    BY <1>1, <2>1 DEF AtProcedure, Progress, Quiet, Begin, Change, Procedure, BeginSteps,
                      ChangeSteps
<1>3. Pending'
  <2>1. \A c \in Class : c # at => LeftOver(c)' = LeftOver(c) /\ dataRollback'[c] = dataRollback[c]
    BY DEF AtProcedure, SameFiles, LeftOver
  <2>2. \A c \in Class : LeftOver(c)' => c \in todo' \/ (c = at' /\ step' # "each")
    BY <1>1, <2>1 DEF AtProcedure, StoreInv, Pending
  <2>3. \A c \in Class : dataRollback'[c] = Torn => progress' = {"begin"}
    BY <1>1, <2>1 DEF AtProcedure, StoreInv, Pending
  <2>4. step' \in {"data", "drop"} => indexRollback'[at'] = Absent
    BY <1>1 DEF AtProcedure
  <2>5. QED
    BY <1>1, <2>2, <2>3, <2>4
       DEF Pending, Quiet, Begin, Change, Procedure, BeginSteps, ChangeSteps
<1>4. Consistent'
  <2>1. \A c \in Class : Recoverable(c)
    BY <1>1 DEF StoreInv, Consistent, UnprotectedSteps, Procedure
  <2>2. \A c \in Class : c # at => Recoverable(c)'
    BY <1>1, <2>1, RecoverableKept DEF AtProcedure
  <2>3. step' = "drop" => RolledBackData(at)' = data'[at']
    BY <1>1 DEF AtProcedure
  <2>5. step' \notin {"compactIndex", "compacted", "removeData"}
    BY <1>1 DEF Procedure
  <2>6. QED
    BY <1>1, <2>2, <2>3, <2>5 DEF AtProcedure, Consistent
<1>5. QED
  BY <1>1, <1>2, <1>3, <1>4, AfterWork DEF StoreInv, Procedure

\* What the procedures meet in the files of the class at.
LEMMA ProcedureFiles ==
    ASSUME StoreInv, step \in Procedure \ {"each"}
    PROVE  /\ at \in Class /\ Recoverable(at)
           /\ procedure = "undo" => progress = {"begin"}
           /\ procedure = "commit" => progress = {"commit"}
           /\ procedure = "rollback" => progress \notin {{"begin"}, {"commit"}}
           /\ procedure = "rollback" => dataRollback[at] # Torn
           /\ procedure \in {"undo", "commit", "rollback"}
<1>1. at \in Class /\ procedure \in {"undo", "commit", "rollback"}
  BY DEF StoreInv, Typed
<1>2. Recoverable(at)
  BY <1>1 DEF StoreInv, Consistent, UnprotectedSteps, Procedure
<1>3. progress = {StateFile[procedure]} \/ (procedure = "rollback" /\ progress = {})
  BY DEF StoreInv, Progress
<1>4. /\ procedure = "undo" => progress = {"begin"}
      /\ procedure = "commit" => progress = {"commit"}
      /\ procedure = "rollback" => progress \notin {{"begin"}, {"commit"}}
  BY <1>1, <1>3 DEF StateFile
<1>5. procedure = "rollback" => dataRollback[at] # Torn
  BY <1>1, <1>4 DEF StoreInv, Pending
<1>6. QED
  BY <1>1, <1>2, <1>4, <1>5

\* The index of a class is treated.
LEMMA IndexStepStep ==
    ASSUME StoreInv, IndexStep
    PROVE  StoreInv'
<1>1. /\ UNCHANGED <<data, dataRollback, progress, procedure, todo, at, request, answer,
                     requests, crashes>>
      /\ step \in {"index", "rename"}
      /\ \/ /\ procedure = "undo" /\ indexRollback[at] # Absent
            /\ index' = [index EXCEPT ![at] = Absent] /\ indexRollback' = indexRollback
            /\ step' = "rename"
         \/ /\ procedure \in {"undo", "rollback"}
            /\ index' = [index EXCEPT ![at] = RolledBackIndex(at)]
            /\ indexRollback' = [indexRollback EXCEPT ![at] = Absent]
            /\ step' = "data"
         \/ /\ procedure = "commit" /\ index' = index
            /\ indexRollback' = [indexRollback EXCEPT ![at] = Absent]
            /\ step' = "data"
  BY DEF IndexStep, UndoIndex, CommitIndex, RollbackIndex, Goto
<1>2. step \in Procedure \ {"each"} /\ step' \in Procedure /\ step' \notin {"each", "drop"}
  BY <1>1 DEF Procedure
<1>3. /\ at \in Class /\ Recoverable(at)
      /\ procedure = "commit" => progress = {"commit"}
      /\ procedure # "commit" => progress # {"commit"}
  BY <1>2, ProcedureFiles
<1>4. RolledBackIndex(at) \in {Absent, Torn} \cup Index
  BY <1>3, FilesType DEF StoreInv
<1>5. Typed'
  <2>1. index' \in [Class -> {Absent, Torn} \cup Index]
    BY <1>1, <1>3, <1>4 DEF StoreInv, Typed
  <2>2. indexRollback' \in [Class -> {Absent} \cup Index]
    BY <1>1, <1>3 DEF StoreInv, Typed
  <2>3. QED
    BY <1>1, <1>2, <2>1, <2>2 DEF StoreInv, Typed
<1>6. Recoverable(at)'
  <2>1. RolledBackData(at)' = RolledBackData(at)
    BY <1>1 DEF RolledBackData
  <2>2. CASE procedure = "commit"
    <3>1. index'[at] = index[at] /\ data'[at] = data[at] /\ progress = {"commit"}
      BY <1>1, <1>3, <2>2
    <3>2. QED
      BY <1>1, <1>3, <3>1 DEF Recoverable
  <2>3. CASE procedure # "commit"
    <3>1. RolledBackIndex(at)' = RolledBackIndex(at)
      BY <1>1, <1>3, <2>3 DEF RolledBackIndex, StoreInv, Typed
    <3>2. QED
      BY <1>1, <1>3, <2>1, <2>3, <3>1 DEF Recoverable
  <2>4. QED
    BY <2>2, <2>3
<1>7. AtProcedure
  <2>1. \A c \in Class : c # at => SameFiles(c)
    BY <1>1, <1>3 DEF SameFiles, StoreInv, Typed
  <2>2. step' = "data" => indexRollback'[at] = Absent
    BY <1>1, <1>3 DEF StoreInv, Typed
  <2>3. step' = "rename" => procedure = "undo"
    BY <1>1
  <2>4. QED
    BY <1>1, <1>2, <1>6, <2>1, <2>2, <2>3 DEF AtProcedure
<1>8. QED
  BY <1>5, <1>7, AtProcedureKeeps

\* The saved size of the data goes.
LEMMA DropDataRollbackStep ==
    ASSUME StoreInv, DropDataRollback
    PROVE  StoreInv'
<1>1. /\ UNCHANGED <<index, data, indexRollback, progress, procedure, todo, at, request,
                     answer, requests, crashes>>
      /\ step \in {"data", "drop"} /\ step' = "each"
      /\ step = "data" => procedure # "rollback" \/ dataRollback[at] = Absent
      /\ dataRollback' = [dataRollback EXCEPT ![at] = Absent]
  BY DEF DropDataRollback, Goto
<1>2. step \in Procedure \ {"each"}
  BY <1>1 DEF Procedure
<1>3. /\ at \in Class /\ Recoverable(at)
      /\ procedure = "undo" => progress = {"begin"}
      /\ procedure = "commit" => progress = {"commit"}
      /\ procedure = "rollback" => progress \notin {{"begin"}, {"commit"}}
      /\ procedure \in {"undo", "commit", "rollback"}
  BY <1>2, ProcedureFiles
<1>4. Typed'
  BY <1>1, <1>3 DEF StoreInv, Typed, Procedure
<1>5. dataRollback'[at] = Absent
  BY <1>1, <1>3 DEF StoreInv, Typed
<1>6. Recoverable(at)'
  <2>1. RolledBackIndex(at)' = RolledBackIndex(at)
    BY <1>1 DEF RolledBackIndex
  <2>2. RolledBackData(at)' = data[at]
    BY <1>1, <1>5 DEF RolledBackData
  <2>3. CASE procedure # "rollback"
    <3>1. progress = {"begin"} \/ progress = {"commit"}
      BY <1>3, <2>3
    <3>2. QED
      BY <1>1, <1>3, <2>1, <3>1 DEF Recoverable
  <2>4. CASE procedure = "rollback"
    <3>1. RolledBackData(at) = data[at]
      <4>1. CASE step = "drop"
        BY <4>1 DEF StoreInv, Consistent
      <4>2. CASE step = "data"
        BY <1>1, <2>4, <4>2 DEF RolledBackData
      <4>3. QED
        BY <1>1, <4>1, <4>2
    <3>2. progress # {"begin"} /\ progress # {"commit"}
      BY <1>3, <2>4
    <3>3. QED
      BY <1>1, <1>3, <2>1, <2>2, <3>1, <3>2 DEF Recoverable
  <2>5. QED
    BY <2>3, <2>4
<1>7. AtProcedure
  <2>1. \A c \in Class : c # at => SameFiles(c)
    BY <1>1, <1>3 DEF SameFiles, StoreInv, Typed
  <2>2. indexRollback[at] = Absent
    BY <1>1 DEF StoreInv, Pending
  <2>3. ~LeftOver(at)'
    BY <1>1, <1>5, <2>2 DEF LeftOver
  <2>4. dataRollback'[at] # Torn
    BY <1>5, MarkAssumption
  <2>5. QED
    BY <1>1, <1>2, <1>6, <2>1, <2>2, <2>3, <2>4 DEF AtProcedure, Procedure
<1>8. QED
  BY <1>4, <1>7, AtProcedureKeeps

\* The data is truncated: the procedure can do so.
LEMMA RollbackDataStep ==
    ASSUME StoreInv, RollbackData
    PROVE  StoreInv'
<1>1. step = "data" /\ procedure = "rollback" /\ step \in Procedure \ {"each"}
  BY DEF RollbackData, Procedure
<1>2. at \in Class /\ Recoverable(at) /\ dataRollback[at] # Torn
      /\ progress # {"begin"} /\ progress # {"commit"}
  BY <1>1, ProcedureFiles
<1>3. /\ UNCHANGED <<index, indexRollback, dataRollback, progress, procedure, todo, at,
                     request, answer, requests, crashes>>
      /\ step' = "drop" /\ data' = [data EXCEPT ![at] = RolledBackData(at)]
      /\ dataRollback[at] # Absent
  BY <1>1, <1>2 DEF RollbackData, Goto
<1>4. RolledBackData(at) \in {Absent} \cup Seq(Block)
  BY <1>2, FilesType DEF StoreInv
<1>5. Typed'
  <2>1. data' \in [Class -> {Absent} \cup Seq(Block)]
    BY <1>2, <1>3, <1>4 DEF StoreInv, Typed
  <2>2. QED
    BY <1>3, <2>1 DEF StoreInv, Typed, Procedure
<1>6. data'[at] = RolledBackData(at)
  BY <1>2, <1>3 DEF StoreInv, Typed
<1>7. RolledBackData(at)' = RolledBackData(at)
  <2>1. /\ data[at] \in {Absent} \cup Seq(Block) /\ dataRollback[at] \in Nat
        /\ dataRollback[at] \notin {Absent, Torn}
    BY <1>2, <1>3, FilesType DEF StoreInv
  <2>2. RolledBackData(at) = Truncated(data[at], dataRollback[at])
    BY <2>1 DEF RolledBackData
  <2>3. RolledBackData(at)' = Truncated(data'[at], dataRollback[at])
    BY <1>3, <2>1 DEF RolledBackData
  <2>4. QED
    BY <1>6, <2>1, <2>2, <2>3, TruncatedTwice
<1>8. Recoverable(at)'
  <2>1. RolledBackIndex(at)' = RolledBackIndex(at)
    BY <1>3 DEF RolledBackIndex
  <2>2. QED
    BY <1>2, <1>3, <1>7, <2>1 DEF Recoverable
<1>9. AtProcedure
  <2>1. \A c \in Class : c # at => SameFiles(c)
    BY <1>2, <1>3 DEF SameFiles, StoreInv, Typed
  <2>2. indexRollback[at] = Absent
    BY <1>1 DEF StoreInv, Pending
  <2>3. QED
    BY <1>1, <1>2, <1>3, <1>6, <1>7, <1>8, <2>1, <2>2 DEF AtProcedure, Procedure
<1>10. QED
  BY <1>5, <1>9, AtProcedureKeeps

\* The state file goes.
LEMMA EndProcedureStep ==
    ASSUME StoreInv, EndProcedure
    PROVE  StoreInv'
<1>1. /\ UNCHANGED <<index, data, indexRollback, dataRollback, procedure, todo, at,
                     requests, crashes>>
      /\ step = "each" /\ todo = {} /\ step' = "idle" /\ request' = None
      /\ progress' = progress \ {StateFile[procedure]}
      /\ answer' \in {"none", "ok", "failed"}
  BY DEF EndProcedure
<1>2. progress' = {}
  BY <1>1 DEF StoreInv, Progress, Procedure
<1>3. \A c \in Class : ~LeftOver(c)
  BY <1>1 DEF StoreInv, Pending, Procedure
<1>4. Typed'
  BY <1>1, <1>2 DEF StoreInv, Typed, Quiet
<1>5. Progress'
  BY <1>1, <1>2 DEF Progress, Quiet, Begin, Change, Procedure, BeginSteps, ChangeSteps
<1>6. Pending'
  <2>1. \A c \in Class : ~LeftOver(c)'
    BY <1>1, <1>3, FilesKept
  <2>2. \A c \in Class : dataRollback'[c] # Torn
    BY <2>1, MarkAssumption DEF LeftOver
  <2>3. QED
    BY <1>1, <2>1, <2>2 DEF Pending, Begin, Change, Procedure, BeginSteps, ChangeSteps
<1>7. Consistent'
  <2>1. \A c \in Class : Recoverable(c)
    BY <1>1 DEF StoreInv, Consistent, UnprotectedSteps
  <2>2. \A c \in Class : Recoverable(c)'
    BY <1>1, <1>3, <2>1, RecoverableKept, FilesKept
  <2>3. QED
    BY <1>1, <2>2 DEF Consistent
<1>8. QED
  BY <1>1, <1>4, <1>5, <1>6, <1>7, AfterWork DEF StoreInv

-----------------------------------------------------------------------------
\* A file operation fails.
LEMMA FailStep ==
    ASSUME Protected, StoreInv, Fail
    PROVE  StoreInv'
<1>1. /\ UNCHANGED <<index, data, progress, at, requests, crashes>>
      /\ at \in Class
  BY DEF Fail, StoreInv, Typed
<1>2. CASE /\ step = "beginFile" /\ Refused
           /\ UNCHANGED <<indexRollback, dataRollback, procedure, todo>>
  <2>1. step \in Quiet /\ step' = "idle" /\ request' = None /\ answer' = "failed"
    BY <1>2 DEF Refused, Quiet
  <2>2. Typed'
    BY <1>1, <1>2, <2>1 DEF StoreInv, Typed, Quiet
  <2>3. Progress'
    BY <1>1, <2>1 DEF StoreInv, Progress, Quiet, Begin, Change, Procedure, BeginSteps,
                      ChangeSteps
  <2>4. Pending'
    <3>1. \A c \in Class : ~LeftOver(c)' /\ dataRollback'[c] # Torn
      BY <1>1, <1>2, <2>1, QuietFiles DEF LeftOver
    <3>2. QED
      BY <2>1, <3>1 DEF Pending, Begin, Change, Procedure, BeginSteps, ChangeSteps
  <2>5. Consistent'
    <3>1. \A c \in Class : Recoverable(c)
      BY <1>2, <2>1, QuietFiles
    <3>2. \A c \in Class : Recoverable(c)'
      BY <1>1, <1>2, <3>1, RecoverableKept, FilesKept
    <3>3. QED
      BY <2>1, <3>2 DEF Consistent
  <2>6. QED
    BY <2>1, <2>2, <2>3, <2>4, <2>5, AfterWork DEF StoreInv
<1>3. CASE /\ step \in BeginSteps
           /\ indexRollback' = IF step = "header"
                               THEN [indexRollback EXCEPT ![at] = Absent]
                               ELSE indexRollback
           /\ dataRollback' = [dataRollback EXCEPT ![at] = Absent]
           /\ procedure' = "undo" /\ todo' = {at} /\ Goto("each")
  <2>1. step \in Begin /\ step' = "each" /\ UNCHANGED <<request, answer>>
    BY <1>3 DEF Begin, Goto
  <2>2. progress = {"begin"} /\ Agree(RolledBackIndex(at), data[at])
    BY <2>1, BeginFiles
  <2>3. Typed'
    BY <1>1, <1>3, <2>1 DEF StoreInv, Typed, Procedure
  <2>4. Progress'
    BY <1>1, <1>3, <2>1, <2>2
       DEF Progress, Quiet, Begin, Change, Procedure, BeginSteps, ChangeSteps, StateFile
  <2>5. \A c \in Class : c # at => SameFiles(c)
    BY <1>1, <1>3 DEF SameFiles, StoreInv, Typed
  <2>6. \A c \in Class : c # at => Recoverable(c)' /\ ~LeftOver(c)'
    BY <2>1, <2>5, OthersKept
  <2>7. Pending'
    BY <1>1, <1>3, <2>1, <2>2, <2>6
       DEF Pending, Quiet, Begin, Change, Procedure, BeginSteps, ChangeSteps
  <2>8. Consistent'
    <3>1. Agree(RolledBackIndex(at)', data[at])
      <4>1. CASE step = "header"
        <5>1. index[at] = Absent /\ FileLength(data[at]) = 0
          BY <4>1, HeaderFiles
        <5>2. RolledBackIndex(at)' = Absent
          BY <1>1, <1>3, <4>1, <5>1 DEF RolledBackIndex, StoreInv, Typed
        <5>3. QED
          BY <5>1, <5>2 DEF Agree
      <4>2. CASE step # "header"
        <5>1. RolledBackIndex(at)' = RolledBackIndex(at)
          BY <1>1, <1>3, <4>2 DEF RolledBackIndex
        <5>2. QED
          BY <2>2, <5>1
      <4>3. QED
        BY <4>1, <4>2
    <3>2. Recoverable(at)'
      BY <1>1, <2>2, <3>1 DEF Recoverable
    <3>3. QED
      BY <1>1, <2>1, <2>6, <3>2 DEF Consistent
  <2>9. QED
    BY <2>1, <2>3, <2>4, <2>7, <2>8, AfterWork DEF StoreInv, Procedure
<1>4. CASE /\ step \in ChangeSteps
           /\ Goto("rollbackFile")
           /\ UNCHANGED <<indexRollback, dataRollback, procedure, todo>>
  <2>1. /\ step \in Change /\ step' = "rollbackFile" /\ step' \in Change
        /\ step \notin UnprotectedSteps /\ UNCHANGED <<request, answer>>
    BY <1>4 DEF Change, ChangeSteps, UnprotectedSteps, Goto
  <2>2. /\ progress = {} /\ Recoverable(at) /\ indexRollback[at] # Absent
        /\ dataRollback[at] \notin {Absent, Torn}
    BY <2>1, ChangeFiles
  <2>3. Typed'
    BY <1>1, <1>4, <2>1 DEF StoreInv, Typed
  <2>4. AtWork
    <3>1. \A c \in Class : SameFiles(c)
      BY <1>1, <1>4 DEF SameFiles
    <3>2. Recoverable(at)'
      BY <1>1, <2>2, <3>1, RecoverableKept
    <3>3. /\ ~Misread(RolledBackIndex(at))
          /\ request.kind = "modify" => Lookup(RolledBackIndex(at), request.name) # {}
      BY <2>1 DEF StoreInv, Requested
    <3>4. RolledBackIndex(at)' = RolledBackIndex(at)
      BY <1>1, <1>4 DEF RolledBackIndex
    <3>5. QED
      BY <1>1, <1>4, <2>1, <2>2, <3>1, <3>2, <3>3, <3>4 DEF AtWork
  <2>5. Progress'
    BY <1>1, <2>1, <2>2 DEF Progress, Quiet, Begin, Change, Procedure, BeginSteps, ChangeSteps
  <2>6. Saved'
    BY <1>1, <1>4, <2>1, <2>2 DEF Saved, Begin, Change, BeginSteps, ChangeSteps
  <2>7. Made'
    BY <2>1 DEF Made
  <2>8. QED
    BY <2>3, <2>4, <2>5, <2>6, <2>7, AtWorkKeeps DEF StoreInv
<1>5. QED
  BY <1>2, <1>3, <1>4 DEF Fail, Protected, UnprotectedSteps

\* The server crashes.
LEMMA CrashStep ==
    ASSUME Protected, StoreInv, Crash
    PROVE  StoreInv'
<1>1. /\ UNCHANGED <<index, data, indexRollback, dataRollback, progress, procedure, todo, at,
                     requests>>
      /\ step # "down" /\ step \notin UnprotectedSteps /\ step' = "down" /\ request' = None
      /\ answer' = "none" /\ crashes < MaxCrashes /\ crashes' = crashes + 1
  BY DEF Crash, Protected, fileVars
<1>2. Typed'
  BY <1>1, BoundAssumption DEF StoreInv, Typed
<1>3. Progress'
  <2>1. progress \in {{}, {"begin"}, {"commit"}, {"rollback"}}
    BY DEF StoreInv, Typed, Progress, StateFile
  <2>2. QED
    BY <1>1, <2>1 DEF Progress, Quiet, Begin, Change, Procedure, BeginSteps, ChangeSteps
<1>4. Pending'
  <2>1. \A c \in Class : dataRollback'[c] = Torn => progress' = {"begin"}
    BY <1>1 DEF StoreInv, Pending
  <2>2. QED
    BY <1>1, <2>1 DEF Pending, Quiet, Begin, Change, Procedure, BeginSteps, ChangeSteps
<1>5. Consistent'
  <2>1. \A c \in Class : Recoverable(c)
    BY <1>1 DEF StoreInv, Consistent
  <2>2. \A c \in Class : Recoverable(c)'
    BY <1>1, <2>1, RecoverableKept, FilesKept
  <2>3. QED
    BY <1>1, <2>2 DEF Consistent
<1>6. QED
  BY <1>1, <1>2, <1>3, <1>4, <1>5, AfterWork DEF StoreInv

\* The constructor of the store goes by the state file it finds.
LEMMA RestartStep ==
    ASSUME StoreInv, Restart
    PROVE  StoreInv'
<1>1. /\ UNCHANGED <<index, data, indexRollback, dataRollback, progress, at, request, answer,
                     requests, crashes>>
      /\ step = "down" /\ step' = "each" /\ procedure' = Recovery
      /\ todo' = IF progress # {} THEN Class ELSE {c \in Class : LeftOver(c)}
  BY DEF Restart, Goto, fileVars
<1>2. progress \in {{}, {"begin"}, {"commit"}, {"rollback"}}
  BY <1>1 DEF StoreInv, Progress
<1>3. /\ procedure' \in {"undo", "commit", "rollback"}
      /\ progress = {StateFile[procedure']} \/ (procedure' = "rollback" /\ progress = {})
  <2>1. CASE progress = {"begin"}
    BY <1>1, <2>1 DEF Recovery, StateFile
  <2>2. CASE progress = {"commit"}
    BY <1>1, <2>2 DEF Recovery, StateFile
  <2>3. CASE progress = {"rollback"}
    BY <1>1, <2>3 DEF Recovery, StateFile
  <2>4. CASE progress = {}
    BY <1>1, <2>4 DEF Recovery, StateFile
  <2>5. QED
    BY <1>2, <2>1, <2>2, <2>3, <2>4
<1>4. Typed'
  BY <1>1, <1>3 DEF StoreInv, Typed, Procedure
<1>5. Progress'
  BY <1>1, <1>3 DEF Progress, Quiet, Begin, Change, Procedure, BeginSteps, ChangeSteps
<1>6. Pending'
  <2>1. \A c \in Class : LeftOver(c)' => c \in todo'
    BY <1>1, FilesKept
  <2>2. \A c \in Class : dataRollback'[c] = Torn => progress' = {"begin"}
    BY <1>1 DEF StoreInv, Pending
  <2>3. QED
    BY <1>1, <2>1, <2>2 DEF Pending, Quiet, Begin, Change, Procedure, BeginSteps, ChangeSteps
<1>7. Consistent'
  <2>1. \A c \in Class : Recoverable(c)
    BY <1>1 DEF StoreInv, Consistent, UnprotectedSteps
  <2>2. \A c \in Class : Recoverable(c)'
    BY <1>1, <2>1, RecoverableKept, FilesKept
  <2>3. QED
    BY <1>1, <2>2 DEF Consistent
<1>8. QED
  BY <1>1, <1>4, <1>5, <1>6, <1>7, AfterWork DEF StoreInv, Procedure

\* No step changes anything.
LEMMA StutterStep ==
    ASSUME StoreInv, UNCHANGED vars
    PROVE  StoreInv'
<1>1. UNCHANGED <<index, data, indexRollback, dataRollback, progress, step, procedure, todo,
                  at, request, answer, requests, crashes>>
  BY DEF vars, fileVars, workVars
<1>2. /\ \A c \in Class : LeftOver(c)' = LeftOver(c)
      /\ \A c \in Class : Recoverable(c)' = Recoverable(c)
      /\ RolledBackIndex(at)' = RolledBackIndex(at)
      /\ RolledBackData(at)' = RolledBackData(at)
  BY <1>1 DEF LeftOver, Recoverable, RolledBackIndex, RolledBackData
<1>3. Typed' /\ Progress'
  BY <1>1 DEF StoreInv, Typed, Progress
<1>4. Pending'
  <2>1. LeftOver(at)' = LeftOver(at)
    BY <1>1 DEF LeftOver
  <2>2. QED
    BY <1>1, <1>2, <2>1 DEF StoreInv, Pending
<1>5. Consistent'
  BY <1>1, <1>2 DEF StoreInv, Consistent
<1>6. Requested'
  BY <1>1, <1>2 DEF StoreInv, Requested
<1>7. Saved'
  BY <1>1 DEF StoreInv, Saved
<1>8. Made'
  BY <1>1, <1>2 DEF StoreInv, Made
<1>9. QED
  BY <1>3, <1>4, <1>5, <1>6, <1>7, <1>8 DEF StoreInv

\* Every step preserves the invariant.
LEMMA StepInv ==
    ASSUME Protected
    PROVE  StoreInv /\ [Next]_vars => StoreInv'
<1>1. SUFFICES ASSUME StoreInv, [Next]_vars PROVE StoreInv'
  OBVIOUS
<1>2. ASSUME NEW r \in Request, Submit(r) PROVE StoreInv'
  BY <1>1, <1>2, SubmitStep
<1>3. ASSUME Work PROVE StoreInv'
  <2>1. CASE DeleteClass \/ RemoveData \/ Construct
    BY <1>1, <2>1, DeleteClassStep, RemoveDataStep, ConstructStep
  <2>2. CASE BeginFile \/ BeginIndex \/ CopyIndex \/ BeginData \/ BeginDone
    BY <1>1, <2>2, BeginFileStep, BeginIndexStep, CopyIndexStep, BeginDataStep, BeginDoneStep
  <2>3. CASE AppendInstance \/ UpdateIndex \/ CompactData \/ CompactIndex
    BY <1>1, <2>3, AppendInstanceStep, UpdateIndexStep, CompactDataStep, CompactIndexStep
  <2>4. CASE CommitFile \/ RollbackFile
    BY <1>1, <2>4, CommitFileStep, RollbackFileStep
  <2>5. ASSUME NEW c \in Class, TakeClass(c) PROVE StoreInv'
    BY <1>1, <2>5, TakeClassStep
  <2>6. CASE IndexStep \/ DropDataRollback \/ RollbackData \/ EndProcedure
    BY <1>1, <2>6, IndexStepStep, DropDataRollbackStep, RollbackDataStep, EndProcedureStep
  <2>7. CASE Restart
    BY <1>1, <2>7, RestartStep
  <2>8. QED
    BY <1>3, <2>1, <2>2, <2>3, <2>4, <2>5, <2>6, <2>7 DEF Work
<1>4. CASE Fail
  BY <1>1, <1>4, FailStep
<1>5. CASE Crash
  BY <1>1, <1>5, CrashStep
<1>6. CASE UNCHANGED vars
  BY <1>1, <1>6, StutterStep
<1>7. QED
  BY <1>1, <1>2, <1>3, <1>4, <1>5, <1>6 DEF Next

\* Every reachable state satisfies the invariant.
LEMMA Invariant ==
    ASSUME Protected
    PROVE  Spec => []StoreInv
BY InitInv, StepInv, PTL DEF Spec

\* The variables keep their types.
THEOREM TypeCorrect ==
    ASSUME Protected
    PROVE  Spec => []TypeOK
<1>1. StoreInv => TypeOK
  BY DEF StoreInv, Typed, TypeOK, Quiet, Begin, Change, Procedure, BeginSteps, ChangeSteps,
         StateFile
<1>2. QED
  BY <1>1, Invariant, PTL

\* The next start of the server comes to its end, whenever the server crashed.
THEOREM StartupComplete ==
    ASSUME Protected
    PROVE  Spec => []StartupSucceeds
<1>1. StoreInv => StartupSucceeds
  BY DEF StoreInv, Typed, StartupSucceeds, Quiet, Begin, Change, Procedure, BeginSteps,
         ChangeSteps
<1>2. QED
  BY <1>1, Invariant, PTL

\* Between requests no rollback file and no state file is left.
THEOREM NothingLeft ==
    ASSUME Protected
    PROVE  Spec => []NothingPending
<1>1. StoreInv => NothingPending
  BY DEF StoreInv, Progress, Pending, NothingPending, Quiet
<1>2. QED
  BY <1>1, Invariant, PTL

\* Between requests the entries of an index lie over the whole data file, and its count of
\* the free ones is right.
THEOREM EntriesContiguous ==
    ASSUME Protected
    PROVE  Spec => []Contiguous
<1>1. StoreInv => Contiguous
  <2>1. SUFFICES ASSUME StoreInv, step = "idle", NEW c \in Class
                 PROVE  IF index[c] = Absent THEN FileLength(data[c]) = 0
                        ELSE /\ Len(index[c].entries) = FileLength(data[c])
                             /\ \A i \in DOMAIN index[c].entries : index[c].entries[i].at = i
                             /\ index[c].freeCount = Cardinality(Free(index[c]))
    BY DEF Contiguous
  <2>2. Agree(index[c], data[c])
    BY <2>1, QuietFiles DEF Quiet
  <2>3. QED
    BY <2>2, MarkAssumption DEF Agree
<1>2. QED
  BY <1>1, Invariant, PTL

-----------------------------------------------------------------------------
\* The contents of the atomic store.
Shown == [c \in Class |-> Effective(c)]

\* The instances that are shown are the same if those of every class are.
LEMMA ShownSame ==
    ASSUME \A c \in Class : Effective(c)' = Effective(c)
    PROVE  Shown' = Shown
BY DEF Shown

\* The steps of the atomic store, in terms of what the files show.
Asks(r) ==
    /\ request = None /\ request' = r /\ answer' = "none"
    /\ Shown' = Shown /\ ~Done /\ ~Done'

Performs ==
    /\ request # None /\ request' = request /\ answer' = answer
    /\ ~Done /\ Done'
    /\ Atomic!Allowed(request) /\ Shown' \in Atomic!Outcomes(request)

Turns(old, new) ==
    /\ request # None /\ request' = request /\ answer' = answer
    /\ ~Done /\ ~Done'
    /\ \A n \in Name : Shown[request.class][n] = old
    /\ Shown' = Atomic!Filled(request.class, new)

Answers ==
    /\ request # None /\ request' = None
    /\ answer' = IF Done THEN "ok" ELSE "failed"
    /\ Shown' = Shown /\ ~Done'

Forgets == request' = None /\ answer' = "none" /\ Shown' = Shown /\ ~Done'

Keeps ==
    /\ request' = request /\ answer' = answer
    /\ Shown' = Shown
    /\ (Done /\ Done') \/ (~Done /\ ~Done')

\* What is not done stays so.
LEMMA NotDoneSame ==
    ASSUME ~Done, ~Done'
    PROVE  Done' = Done
<1>1. Done' = FALSE /\ Done = FALSE
  OBVIOUS
<1>2. QED
  BY <1>1

\* They are its steps.
LEMMA AtomicAsks ==
    ASSUME NEW r \in Request, Asks(r)
    PROVE  Atomic!Next
<1>1. r \in Atomic!Request
  BY DEF Request, Atomic!Request
<1>2. Atomic!Submit(r)
  <2>1. Done' = FALSE /\ Done = FALSE
    BY DEF Asks
  <2>2. QED
    BY <2>1 DEF Asks, Shown, Atomic!Submit
<1>3. QED
  BY <1>1, <1>2 DEF Atomic!Next

\* A request that takes effect.
LEMMA AtomicPerforms ==
    ASSUME Performs
    PROVE  Atomic!Next
<1>1. Done' = TRUE
  BY DEF Performs
<1>2. Atomic!Perform
  BY <1>1 DEF Performs, Shown, Atomic!Perform
<1>3. QED
  BY <1>2 DEF Atomic!Next

\* A class without instances that becomes blank, or is so no more.
LEMMA AtomicTurns ==
    ASSUME Turns(None, Blank) \/ Turns(Blank, None)
    PROVE  Atomic!Next
<1>1. Done' = Done
  BY NotDoneSame DEF Turns
<1>2. CASE Turns(None, Blank)
  <2>1. Atomic!Expose
    BY <1>1, <1>2 DEF Turns, Shown, Atomic!Expose
  <2>2. QED
    BY <2>1 DEF Atomic!Next
<1>3. CASE Turns(Blank, None)
  <2>1. Atomic!Restore
    BY <1>1, <1>3 DEF Turns, Shown, Atomic!Restore
  <2>2. QED
    BY <2>1 DEF Atomic!Next
<1>4. QED
  BY <1>2, <1>3

\* A request that is answered.
LEMMA AtomicAnswers ==
    ASSUME Answers
    PROVE  Atomic!Next
<1>1. Done' = FALSE
  BY DEF Answers
<1>2. Atomic!Answer
  BY <1>1 DEF Answers, Shown, Atomic!Answer
<1>3. QED
  BY <1>2 DEF Atomic!Next

\* A request whose answer is lost.
LEMMA AtomicForgets ==
    ASSUME Forgets
    PROVE  Atomic!Next
<1>1. Done' = FALSE
  BY DEF Forgets
<1>2. Atomic!Crash
  BY <1>1 DEF Forgets, Shown, Atomic!Crash
<1>3. QED
  BY <1>2 DEF Atomic!Next

\* A step that the atomic store does not see.
LEMMA AtomicKeeps ==
    ASSUME Keeps
    PROVE  UNCHANGED Atomic!vars
<1>1. Done' = Done
  <2>1. CASE Done /\ Done'
    <3>1. Done' = TRUE /\ Done = TRUE
      BY <2>1
    <3>2. QED
      BY <3>1
  <2>2. CASE ~Done /\ ~Done'
    <3>1. Done' = FALSE /\ Done = FALSE
      BY <2>2
    <3>2. QED
      BY <3>1
  <2>3. QED
    BY <2>1, <2>2 DEF Keeps
<1>2. QED
  BY <1>1 DEF Keeps, Shown, Atomic!vars

-----------------------------------------------------------------------------
\* A change that is made is what the request asks for.
LEMMA ChangePerformed ==
    ASSUME request \in Request, request.kind # "deleteClass", request.class = at, at' = at,
           \A c \in Class : c # at => Effective(c)' = Effective(c),
           Fits(request, Effective(at)), Changes(request, Effective(at), Effective(at)')
    PROVE  Atomic!Allowed(request) /\ Shown' \in Atomic!Outcomes(request)
<1>1. /\ request.kind \in {"create", "modify", "delete"} /\ at \in Class
      /\ request.name \in Name
  BY RequestType
<1>2. Shown[at] = Effective(at) /\ Shown = [c \in Class |-> Effective(c)]
  BY <1>1 DEF Shown
<1>3. Atomic!Allowed(request)
  BY <1>1, <1>2 DEF Fits, Atomic!Allowed, Atomic!Absence, Shown
<1>4. PICK result : result = Effective(at)'
  OBVIOUS
<1>5. Shown' = [Shown EXCEPT ![at] = result]
  <2>1. Shown' = [c \in Class |-> Effective(c)']
    BY DEF Shown
  <2>2. QED
    BY <1>1, <1>2, <1>4, <2>1
<1>6. CASE Effective(at)[request.name] = Blank
  <2>1. request.kind \notin {"delete", "deleteClass"}
    BY <1>1, <1>6 DEF Fits
  <2>2. \/ result = [n \in Name |-> Torn]
        \/ result = [[n \in Name |-> None] EXCEPT ![request.name] = request.value]
    BY <1>4, <1>6 DEF Changes, Changed
  <2>3. Atomic!Outcomes(request) =
            {Atomic!Filled(at, Torn),
             [Atomic!Filled(at, None) EXCEPT ![at][request.name] = request.value]}
    BY <1>2, <1>6, <2>1 DEF Atomic!Outcomes, Shown
  <2>4. /\ Atomic!Filled(at, Torn) = [Shown EXCEPT ![at] = [n \in Name |-> Torn]]
        /\ Atomic!Filled(at, None) = [Shown EXCEPT ![at] = [n \in Name |-> None]]
    BY DEF Atomic!Filled, Shown
  <2>5. [Atomic!Filled(at, None) EXCEPT ![at][request.name] = request.value] =
        [Shown EXCEPT ![at] = [[n \in Name |-> None] EXCEPT ![request.name] = request.value]]
    BY <1>1, <1>2, <2>4
  <2>6. QED
    BY <1>3, <1>5, <2>2, <2>3, <2>4, <2>5
<1>7. CASE Effective(at)[request.name] # Blank
  <2>1. PICK new : new = IF request.kind = "delete" THEN None ELSE request.value
    OBVIOUS
  <2>2. result = [Shown[at] EXCEPT ![request.name] = new]
    BY <1>2, <1>4, <1>7, <2>1 DEF Changes, Changed
  <2>3. Atomic!Outcomes(request) =
            {[Shown EXCEPT ![at] = [Shown[at] EXCEPT ![request.name] = new]]}
    <3>1. CASE request.kind = "delete"
      BY <2>1, <3>1 DEF Atomic!Outcomes, Shown
    <3>2. CASE request.kind # "delete"
      <4>1. /\ request.kind \notin {"delete", "deleteClass"}
            /\ Shown[request.class][request.name] # Blank
        BY <1>1, <1>2, <1>7, <3>2
      <4>2. Atomic!Outcomes(request) =
                {[Shown EXCEPT ![request.class][request.name] = request.value]}
        BY <4>1 DEF Atomic!Outcomes, Shown
      <4>3. QED
        BY <1>2, <2>1, <3>2, <4>2
    <3>3. QED
      BY <3>1, <3>2
  <2>4. QED
    BY <1>3, <1>5, <2>2, <2>3
<1>8. QED
  BY <1>6, <1>7

\* But for the class that is compacted, what is shown is what would be recovered.
LEMMA EffectiveRecovered ==
    ASSUME NEW c \in Class, c # at \/ step \notin {"compactIndex", "compacted"}
    PROVE  Effective(c) = Recovered(c)
BY DEF Effective

\* What would be recovered goes by the state file.
LEMMA RecoveredCases ==
    ASSUME NEW c \in Class
    PROVE  /\ progress = {"begin"} => Recovered(c) = Contents(RolledBackIndex(c), data[c])
           /\ progress = {"commit"} => Recovered(c) = Contents(index[c], data[c])
           /\ progress \in {{}, {"rollback"}} =>
                 Recovered(c) = Contents(RolledBackIndex(c), RolledBackData(c))
<1>1. ASSUME progress = {"begin"}
      PROVE  Recovered(c) = Contents(RolledBackIndex(c), data[c])
  BY <1>1 DEF Recovered
<1>2. ASSUME progress = {"commit"} PROVE Recovered(c) = Contents(index[c], data[c])
  BY <1>2 DEF Recovered
<1>3. ASSUME progress \in {{}, {"rollback"}}
      PROVE  Recovered(c) = Contents(RolledBackIndex(c), RolledBackData(c))
  BY <1>3 DEF Recovered
<1>4. QED
  BY <1>1, <1>2, <1>3

\* The state files say one thing at a time.
LEMMA OneProgress ==
    ASSUME StoreInv
    PROVE  progress \in {{}, {"begin"}, {"commit"}, {"rollback"}}
BY DEF StoreInv, Typed, Progress, StateFile

\* What would be recovered of a class whose files are left stays; without rollback files
\* whatever the state files say.
LEMMA RecoveredKept ==
    ASSUME StoreInv, StoreInv', NEW c \in Class, SameFiles(c),
           progress' = progress \/ ~LeftOver(c)
    PROVE  Recovered(c)' = Recovered(c)
<1>1. RolledBackIndex(c)' = RolledBackIndex(c) /\ RolledBackData(c)' = RolledBackData(c)
  BY DEF SameFiles, RolledBackIndex, RolledBackData
<1>2. index'[c] = index[c] /\ data'[c] = data[c]
  BY DEF SameFiles
<1>3. CASE progress' = progress
  BY <1>1, <1>2, <1>3 DEF Recovered
<1>4. CASE ~LeftOver(c)
  <2>1. RolledBackIndex(c) = index[c] /\ RolledBackData(c) = data[c]
    BY <1>4, NotLeftOver
  <2>2. Recovered(c) = Contents(index[c], data[c])
    BY <2>1 DEF Recovered
  <2>3. Recovered(c)' = Contents(index'[c], data'[c])
    BY <1>1, <1>2, <2>1 DEF Recovered
  <2>4. QED
    BY <1>2, <2>2, <2>3
<1>5. QED
  BY <1>3, <1>4

\* A step leaves all files, and changes a state file only while no class has rollback files.
LEMMA FilesShown ==
    ASSUME StoreInv, StoreInv', \A c \in Class : SameFiles(c),
           \A c \in Class : progress' = progress \/ ~LeftOver(c),
           step \notin {"compactIndex", "compacted"}, step' \notin {"compactIndex", "compacted"}
    PROVE  Shown' = Shown
<1>1. ASSUME NEW c \in Class PROVE Effective(c)' = Effective(c)
  <2>1. Recovered(c)' = Recovered(c)
    BY RecoveredKept
  <2>2. Effective(c) = Recovered(c) /\ Effective(c)' = Recovered(c)'
    BY DEF Effective
  <2>3. QED
    BY <2>1, <2>2
<1>2. QED
  BY <1>1, ShownSame

\* A step works on the files of the class at and shows the same of it.
LEMMA OthersShown ==
    ASSUME StoreInv, StoreInv', at' = at, \A c \in Class : c # at => SameFiles(c),
           \A c \in Class : c # at => progress' = progress \/ ~LeftOver(c)
    PROVE  \A c \in Class : c # at => Effective(c)' = Effective(c)
<1>1. ASSUME NEW c \in Class, c # at PROVE Effective(c)' = Effective(c)
  <2>1. Recovered(c)' = Recovered(c)
    BY <1>1, RecoveredKept
  <2>2. Effective(c) = Recovered(c) /\ Effective(c)' = Recovered(c)'
    BY <1>1 DEF Effective
  <2>3. QED
    BY <2>1, <2>2
<1>2. QED
  BY <1>1

\* The initial states.
LEMMA AtomicInit == Init => Atomic!Init
<1>1. SUFFICES ASSUME Init PROVE Atomic!Init
  OBVIOUS
<1>2. ASSUME NEW c \in Class PROVE Effective(c) = [n \in Name |-> None]
  <2>1. /\ index[c] = Absent /\ data[c] = Absent /\ indexRollback[c] = Absent
        /\ dataRollback[c] = Absent /\ progress = {} /\ step = "idle"
    BY <1>1 DEF Init
  <2>2. Effective(c) = Contents(RolledBackIndex(c), RolledBackData(c))
    BY <2>1, RecoveredCases DEF Effective
  <2>3. RolledBackIndex(c) = Absent /\ RolledBackData(c) = Absent
    BY <2>1 DEF RolledBackIndex, RolledBackData
  <2>4. QED
    BY <2>2, <2>3, NewIndexShown
<1>3. Done = FALSE
  BY <1>1 DEF Init, Done
<1>4. QED
  BY <1>1, <1>2, <1>3 DEF Init, Atomic!Init

-----------------------------------------------------------------------------
\* Nothing is done yet.
LEMMA NotDone ==
    ASSUME request = None \/ (step \notin UnprotectedSteps /\ "commit" \notin progress)
    PROVE  ~Done
BY DEF Done

\* A request is submitted.
LEMMA SubmitMaps ==
    ASSUME StoreInv, StoreInv', NEW r \in Request, Submit(r)
    PROVE  Atomic!Next
<1>1. /\ step = "idle" /\ step' = "start" /\ request' = r /\ answer' = "none"
      /\ UNCHANGED <<index, data, indexRollback, dataRollback, progress>>
  BY DEF Submit, fileVars
<1>2. request = None /\ progress = {}
  BY <1>1 DEF StoreInv, Requested, Progress, Quiet
<1>3. Shown' = Shown
  BY <1>1, FilesKept, FilesShown
<1>4. ~Done
  BY <1>2, NotDone
<1>5. ~Done'
  BY <1>1, <1>2 DEF Done, UnprotectedSteps
<1>6. QED
  BY <1>1, <1>2, <1>3, <1>4, <1>5, AtomicAsks DEF Asks

\* All instances of the class at show the same.
LEMMA ShownFilled ==
    ASSUME NEW new, at' = at, at \in Class,
           \A c \in Class : c # at => Effective(c)' = Effective(c),
           Effective(at)' = [n \in Name |-> new]
    PROVE  Shown' = Atomic!Filled(at, new)
<1>1. Shown' = [c \in Class |-> Effective(c)'] /\ Shown = [c \in Class |-> Effective(c)]
  BY DEF Shown
<1>2. PICK all : all = [n \in Name |-> new]
  OBVIOUS
<1>3. Shown' = [Shown EXCEPT ![at] = all]
  BY <1>1, <1>2
<1>4. Atomic!Filled(at, new) = [Shown EXCEPT ![at] = [n \in Name |-> new]]
  BY DEF Atomic!Filled, Shown
<1>5. QED
  BY <1>2, <1>3, <1>4

\* A class is deleted: its index goes, and then there is no way back.
LEMMA DeleteClassMaps ==
    ASSUME StoreInv, StoreInv', DeleteClass
    PROVE  Atomic!Next
<1>1. /\ step = "start" /\ step \in Quiet /\ request.kind = "deleteClass"
      /\ UNCHANGED <<data, indexRollback, dataRollback, progress, at>>
  BY DEF DeleteClass, Quiet
<1>2. /\ progress = {} /\ request # None /\ request.class = at /\ request \in Request
      /\ at \in Class
  BY <1>1 DEF StoreInv, Requested, Progress, Quiet, Typed
<1>3. ~Done
  BY <1>1, <1>2, NotDone DEF UnprotectedSteps
<1>4. CASE \E n \in Name : Lookup(index[at], n) # {}
  <2>1. index' = index /\ step' = "idle" /\ request' = None /\ answer' = "failed"
    BY <1>4 DEF DeleteClass, Refused
  <2>2. Shown' = Shown
    BY <1>1, <2>1, FilesKept, FilesShown
  <2>3. ~Done'
    BY <2>1 DEF Done
  <2>4. QED
    BY <1>2, <1>3, <2>1, <2>2, <2>3, AtomicAnswers DEF Answers
<1>5. CASE \A n \in Name : Lookup(index[at], n) = {}
  <2>1. /\ index' = [index EXCEPT ![at] = Absent] /\ step' = "removeData"
        /\ request' = request /\ answer' = answer
    BY <1>5 DEF DeleteClass, Goto
  <2>2. /\ ~LeftOver(at) /\ RolledBackIndex(at) = index[at]
        /\ Agree(index[at], data[at])
    BY <1>1, <1>2, QuietFiles
  <2>3. index[at] \in {Absent} \cup Index
    BY <2>2 DEF Agree
  <2>4. PICK old \in {None, Blank} : Effective(at) = [n \in Name |-> old]
    <3>1. Effective(at) = Contents(RolledBackIndex(at), RolledBackData(at))
      BY <1>1, <1>2, RecoveredCases DEF Effective
    <3>2. ~Misread(index[at])
      BY <1>1, <2>2 DEF StoreInv, Requested
    <3>3. CASE Headless(index[at])
      BY <2>2, <2>3, <3>1, <3>2, <3>3, BlankShown DEF Headless
    <3>4. CASE ~Headless(index[at])
      BY <1>5, <2>2, <2>3, <3>1, <3>4, NothingShown
    <3>5. QED
      BY <3>3, <3>4
  <2>5. Effective(at)' = [n \in Name |-> None]
    <3>1. index'[at] = Absent
      BY <1>2, <2>1 DEF StoreInv, Typed
    <3>2. RolledBackIndex(at)' = Absent
      BY <1>1, <2>2, <3>1 DEF RolledBackIndex, LeftOver
    <3>3. Recovered(at)' = Contents(Absent, RolledBackData(at)')
      BY <1>1, <1>2, <3>2 DEF Recovered
    <3>4. Recovered(at)' = [n \in Name |-> None]
      BY <3>3, NewIndexShown
    <3>5. Effective(at)' = Recovered(at)'
      BY <2>1 DEF Effective
    <3>6. QED
      BY <3>4, <3>5
  <2>6. Shown' = Atomic!Filled(at, None)
    <3>1. \A c \in Class : c # at => SameFiles(c)
      BY <1>1, <1>2, <2>1 DEF SameFiles, StoreInv, Typed
    <3>2. \A c \in Class : c # at => Effective(c)' = Effective(c)
      BY <1>1, <3>1, OthersShown
    <3>3. QED
      BY <1>1, <1>2, <2>5, <3>2, ShownFilled
  <2>7. Atomic!Allowed(request)
    <3>1. \A n \in Name : Shown[at][n] \in {None, Blank}
      BY <1>2, <2>4 DEF Shown
    <3>2. QED
      BY <1>1, <1>2, <3>1 DEF Atomic!Allowed, Atomic!Absence, Shown
  <2>8. Atomic!Outcomes(request) = {Atomic!Filled(at, None)}
    BY <1>1, <1>2 DEF Atomic!Outcomes
  <2>9. Done'
    BY <1>2, <2>1 DEF Done, UnprotectedSteps
  <2>10. QED
    BY <1>2, <1>3, <2>1, <2>6, <2>7, <2>8, <2>9, AtomicPerforms DEF Performs
<1>6. QED
  BY <1>4, <1>5

\* The data of the class goes.
LEMMA RemoveDataMaps ==
    ASSUME StoreInv, StoreInv', RemoveData
    PROVE  Atomic!Next
<1>1. /\ step = "removeData" /\ step \in Quiet /\ step' = "idle"
      /\ data' = [data EXCEPT ![at] = Absent]
      /\ request' = None /\ answer' = "ok"
      /\ UNCHANGED <<index, indexRollback, dataRollback, progress, at>>
  BY DEF RemoveData, Quiet
<1>2. /\ progress = {} /\ request # None /\ at \in Class /\ index[at] = Absent
      /\ indexRollback[at] = Absent
  <2>1. at \in Class
    BY DEF StoreInv, Typed
  <2>2. QED
    BY <1>1, <2>1, QuietFiles DEF StoreInv, Requested, Progress, Quiet, Consistent, LeftOver
<1>3. Done /\ ~Done'
  BY <1>1, <1>2 DEF Done, UnprotectedSteps
<1>4. Shown' = Shown
  <2>1. \A c \in Class : c # at => SameFiles(c)
    BY <1>1, <1>2 DEF SameFiles, StoreInv, Typed
  <2>2. \A c \in Class : c # at => Effective(c)' = Effective(c)
    BY <1>1, <2>1, OthersShown
  <2>3. RolledBackIndex(at) = Absent /\ RolledBackIndex(at)' = Absent
    BY <1>1, <1>2 DEF RolledBackIndex
  <2>5. \A dat : Contents(Absent, dat) = [n \in Name |-> None]
    BY NewIndexShown
  <2>6. Recovered(at) = [n \in Name |-> None]
    BY <1>2, <2>3, <2>5 DEF Recovered
  <2>7. Recovered(at)' = [n \in Name |-> None]
    BY <1>1, <1>2, <2>3, <2>5 DEF Recovered
  <2>8. Effective(at)' = Effective(at)
    BY <1>1, <2>6, <2>7 DEF Effective
  <2>9. QED
    BY <1>1, <2>2, <2>8, ShownSame
<1>5. QED
  BY <1>1, <1>2, <1>3, <1>4, AtomicAnswers DEF Answers

\* A transaction is constructed, or refused.
LEMMA ConstructMaps ==
    ASSUME StoreInv, StoreInv', Construct
    PROVE  [Atomic!Next]_Atomic!vars
<1>1. /\ UNCHANGED <<index, data, indexRollback, dataRollback, progress, procedure, todo,
                     at, requests, crashes>>
      /\ step = "start"
      /\ \/ step' = "idle" /\ request' = None /\ answer' = "failed"
         \/ step' = "beginFile" /\ UNCHANGED <<request, answer>>
  BY ConstructFiles
<1>2. progress = {} /\ request # None
  BY <1>1 DEF StoreInv, Requested, Progress, Quiet
<1>3. ~Done /\ ~Done'
  BY <1>1, <1>2 DEF Done, UnprotectedSteps
<1>4. Shown' = Shown
  BY <1>1, FilesKept, FilesShown
<1>5. Answers \/ Keeps
  BY <1>1, <1>2, <1>3, <1>4 DEF Answers, Keeps
<1>6. QED
  BY <1>5, AtomicAnswers, AtomicKeeps

\* The transaction begins: nothing is seen of it.
LEMMA BeginFileMaps ==
    ASSUME StoreInv, StoreInv', BeginFile
    PROVE  UNCHANGED Atomic!vars
<1>1. /\ UNCHANGED <<index, data, indexRollback, dataRollback, request, answer>>
      /\ step = "beginFile" /\ step \in Quiet /\ step' = "beginIndex"
      /\ progress' = progress \cup {"begin"}
  BY DEF BeginFile, Goto, Quiet
<1>2. progress = {} /\ progress' = {"begin"}
  BY <1>1 DEF StoreInv, Progress
<1>3. ~Done /\ ~Done'
  BY <1>1, <1>2 DEF Done, UnprotectedSteps
<1>4. Shown' = Shown
  BY <1>1, QuietFiles, FilesKept, FilesShown
<1>5. QED
  BY <1>1, <1>3, <1>4, AtomicKeeps DEF Keeps

\* A step that shows the same of the class at is not seen.
AtShown ==
    /\ at' = at /\ at \in Class /\ request' = request /\ answer' = answer
    /\ \A c \in Class : c # at => SameFiles(c)
    /\ \A c \in Class : c # at => progress' = progress \/ ~LeftOver(c)
    /\ Effective(at)' = Effective(at)
    /\ (Done /\ Done') \/ (~Done /\ ~Done')

\* It maps to a stuttering step.
LEMMA AtShownMaps ==
    ASSUME StoreInv, StoreInv', AtShown
    PROVE  UNCHANGED Atomic!vars
<1>1. \A c \in Class : c # at => Effective(c)' = Effective(c)
  BY OthersShown DEF AtShown
<1>2. \A c \in Class : Effective(c)' = Effective(c)
  BY <1>1 DEF AtShown
<1>3. Shown' = Shown
  BY <1>2, ShownSame
<1>4. QED
  BY <1>3, AtomicKeeps DEF AtShown, Keeps

\* A step turns a class without instances into a blank one, back, or leaves it so.
LEMMA TurnMaps ==
    ASSUME StoreInv, StoreInv', at' = at, at \in Class,
           request # None, request.class = at, UNCHANGED <<progress, request, answer>>,
           \A c \in Class : c # at => SameFiles(c),
           ~Done, ~Done',
           NEW old \in {None, Blank}, NEW new \in {None, Blank},
           Effective(at) = [n \in Name |-> old], Effective(at)' = [n \in Name |-> new]
    PROVE  [Atomic!Next]_Atomic!vars
<1>1. CASE old = new
  <2>1. AtShown
    BY <1>1 DEF AtShown
  <2>2. QED
    BY <2>1, AtShownMaps
<1>2. CASE old # new
  <2>1. \A c \in Class : c # at => Effective(c)' = Effective(c)
    BY OthersShown
  <2>2. Shown' = Atomic!Filled(at, new)
    BY <2>1, ShownFilled
  <2>3. \A n \in Name : Shown[request.class][n] = old
    BY DEF Shown
  <2>4. Turns(old, new)
    BY <2>2, <2>3 DEF Turns
  <2>5. QED
    BY <1>2, <2>4, AtomicTurns
<1>3. QED
  BY <1>1, <1>2

\* While the transaction begins nothing is done, and the class shows what is rolled back to.
LEMMA BeginShown ==
    ASSUME StoreInv, step \in Begin
    PROVE  /\ Effective(at) = Contents(RolledBackIndex(at), data[at])
           /\ ~Done /\ request # None /\ request.class = at
<1>1. /\ at \in Class /\ progress = {"begin"}
      /\ step \notin UnprotectedSteps
  BY BeginFiles DEF Begin, BeginSteps, UnprotectedSteps
<1>2. Recovered(at) = Contents(RolledBackIndex(at), data[at])
  BY <1>1, RecoveredCases
<1>3. Effective(at) = Recovered(at)
  BY <1>1 DEF Effective, UnprotectedSteps
<1>4. ~Done
  BY <1>1 DEF Done
<1>5. request # None /\ request.class = at
  BY DEF StoreInv, Requested
<1>6. QED
  BY <1>2, <1>3, <1>4, <1>5

\* The same after a step.
LEMMA BeginShownThen ==
    ASSUME StoreInv', step' \in Begin, at' = at, data' = data, progress' = {"begin"}
    PROVE  /\ Effective(at)' = Contents(RolledBackIndex(at)', data[at])
           /\ ~Done'
<1>1. step' \notin UnprotectedSteps
  BY DEF Begin, BeginSteps, UnprotectedSteps
<1>2. Recovered(at)' = Contents(RolledBackIndex(at)', data[at])
  BY DEF Recovered
<1>3. Effective(at)' = Recovered(at)'
  BY <1>1 DEF Effective, UnprotectedSteps
<1>4. ~Done'
  BY <1>1 DEF Done
<1>5. QED
  BY <1>2, <1>3, <1>4

\* The index is saved: a class without an index is blank until the header is written, and
\* stays so if it is not; of any other class nothing is seen.
LEMMA BeginIndexMaps ==
    ASSUME StoreInv, StoreInv', BeginIndex
    PROVE  [Atomic!Next]_Atomic!vars
<1>1. /\ step \in Begin /\ step' \in Begin /\ at \in Class
      /\ UNCHANGED <<data, dataRollback, progress, at, request, answer>>
      /\ \A c \in Class : c # at => SameFiles(c)
  <2>1. at \in Class
    BY DEF StoreInv, Typed
  <2>2. QED
    BY <2>1 DEF BeginIndex, Goto, Begin, BeginSteps, SameFiles, StoreInv, Typed
<1>2. progress = {"begin"} /\ progress' = {"begin"}
  BY <1>1, BeginFiles
<1>3. /\ Effective(at) = Contents(RolledBackIndex(at), data[at])
      /\ Effective(at)' = Contents(RolledBackIndex(at)', data[at])
      /\ ~Done /\ ~Done' /\ request # None /\ request.class = at
  BY <1>1, <1>2, BeginShown, BeginShownThen
<1>4. step = "beginIndex" => RolledBackIndex(at) = index[at]
  <2>1. step = "beginIndex" => ~LeftOver(at)
    BY DEF StoreInv, Pending
  <2>2. QED
    BY <1>1, <2>1, NotLeftOver
<1>5. BlankIndex # Absent /\ EmptyIndex # Absent
  BY NewIndexShown
<1>6. CASE step = "beginIndex" /\ index[at] = Absent
  <2>1. indexRollback'[at] = BlankIndex
    BY <1>1, <1>6 DEF BeginIndex, StoreInv, Typed
  <2>2. RolledBackIndex(at) = Absent /\ RolledBackIndex(at)' = BlankIndex
    BY <1>1, <1>4, <1>5, <1>6, <2>1 DEF RolledBackIndex
  <2>3. /\ Effective(at) = [n \in Name |-> None]
        /\ Effective(at)' = [n \in Name |-> Blank]
    BY <1>3, <2>2, NewIndexShown
  <2>4. QED
    BY <1>1, <1>3, <2>3, TurnMaps
<1>7. CASE step = "header"
  <2>1. RolledBackIndex(at) = BlankIndex
    BY <1>7, HeaderFiles
  <2>2. RolledBackIndex(at)' \in {EmptyIndex, BlankIndex}
    <3>1. indexRollback'[at] \in {EmptyIndex, BlankIndex}
      BY <1>1, <1>7 DEF BeginIndex, StoreInv, Typed
    <3>2. QED
      BY <1>1, <1>5, <3>1 DEF RolledBackIndex
  <2>3. PICK new \in {None, Blank} : Effective(at)' = [n \in Name |-> new]
    BY <1>3, <2>2, NewIndexShown
  <2>4. Effective(at) = [n \in Name |-> Blank]
    BY <1>3, <2>1, NewIndexShown
  <2>5. QED
    BY <1>1, <1>3, <2>3, <2>4, TurnMaps
<1>8. CASE step = "beginIndex" /\ index[at] # Absent
  <2>1. indexRollback'[at] = index[at]
    BY <1>1, <1>8 DEF BeginIndex, StoreInv, Typed
  <2>2. RolledBackIndex(at)' = index[at]
    BY <1>1, <1>8, <2>1 DEF RolledBackIndex
  <2>3. Effective(at)' = Effective(at)
    BY <1>3, <1>4, <1>8, <2>2
  <2>4. AtShown
    BY <1>1, <1>3, <2>3 DEF AtShown
  <2>5. QED
    BY <2>4, AtShownMaps
<1>9. QED
  BY <1>6, <1>7, <1>8 DEF BeginIndex

\* While the transaction begins the state file protects the index and the data.
LEMMA BeginMaps ==
    ASSUME StoreInv, StoreInv', CopyIndex \/ BeginData
    PROVE  UNCHANGED Atomic!vars
<1>1. /\ step \in Begin /\ step' \in Begin /\ step # "beginIndex" /\ at \in Class
      /\ UNCHANGED <<data, indexRollback, progress, at, request, answer>>
      /\ index' = index \/ indexRollback[at] # Absent
      /\ \A c \in Class : c # at => SameFiles(c)
  <2>1. at \in Class
    BY DEF StoreInv, Typed
  <2>2. CASE CopyIndex
    <3>1. step \in Begin \ {"beginIndex"}
      BY <2>2 DEF CopyIndex, Begin, BeginSteps
    <3>2. indexRollback[at] # Absent
      BY <3>1 DEF StoreInv, Saved
    <3>3. QED
      BY <2>1, <2>2, <3>1, <3>2
         DEF CopyIndex, Goto, Begin, BeginSteps, SameFiles, StoreInv, Typed
  <2>3. CASE BeginData
    BY <2>1, <2>3 DEF BeginData, Goto, Begin, BeginSteps, SameFiles, StoreInv, Typed
  <2>4. QED
    BY <2>2, <2>3
<1>2. progress = {"begin"} /\ progress' = {"begin"}
  BY <1>1, BeginFiles
<1>3. RolledBackIndex(at)' = RolledBackIndex(at)
  BY <1>1 DEF RolledBackIndex
<1>4. Effective(at)' = Effective(at) /\ ~Done /\ ~Done'
  BY <1>1, <1>2, <1>3, BeginShown, BeginShownThen
<1>5. AtShown
  BY <1>1, <1>4 DEF AtShown
<1>6. QED
  BY <1>5, AtShownMaps

\* The state file goes: the rollback files hold what the files hold.
LEMMA BeginDoneMaps ==
    ASSUME StoreInv, StoreInv', BeginDone
    PROVE  UNCHANGED Atomic!vars
<1>1. /\ UNCHANGED <<index, data, indexRollback, dataRollback, at, request, answer>>
      /\ step = "begun" /\ step \in Begin
      /\ progress' = progress \ {"begin"} /\ step' \in {"append", "rollbackFile", "updateIndex"}
  BY DEF BeginDone, Goto, Begin, AfterBegin
<1>2. /\ at \in Class /\ progress = {"begin"} /\ progress' = {}
      /\ \A c \in Class : c # at => ~LeftOver(c)
  BY <1>1, BeginFiles
<1>3. Effective(at)' = Effective(at)
  <2>1. Recovered(at) = Contents(RolledBackIndex(at), data[at])
    BY <1>2, RecoveredCases
  <2>2. RolledBackIndex(at)' = RolledBackIndex(at) /\ RolledBackData(at)' = RolledBackData(at)
    BY <1>1 DEF RolledBackIndex, RolledBackData
  <2>3. Recovered(at)' = Contents(RolledBackIndex(at), RolledBackData(at))
    BY <1>1, <1>2, <2>2 DEF Recovered
  <2>4. Contents(RolledBackIndex(at), RolledBackData(at)) = Contents(RolledBackIndex(at), data[at])
    BY <1>1, BegunFiles
  <2>5. Effective(at) = Recovered(at) /\ Effective(at)' = Recovered(at)'
    BY <1>1 DEF Effective
  <2>6. QED
    BY <2>1, <2>3, <2>4, <2>5
<1>4. ~Done /\ ~Done'
  BY <1>1, <1>2 DEF Done, UnprotectedSteps
<1>5. AtShown
  BY <1>1, <1>2, <1>3, <1>4 DEF AtShown, SameFiles
<1>6. QED
  BY <1>5, AtShownMaps

\* While the files are changed, the rollback files hold what is shown.
LEMMA ChangeMaps ==
    ASSUME StoreInv, StoreInv', AppendInstance \/ UpdateIndex
    PROVE  UNCHANGED Atomic!vars
<1>1. /\ step \in Change \ UnprotectedSteps /\ step' \in Change \ UnprotectedSteps
      /\ UNCHANGED <<indexRollback, dataRollback, progress, at, request, answer>>
      /\ at \in Class
      /\ \A c \in Class : c # at => SameFiles(c)
  <2>1. at \in Class
    BY DEF StoreInv, Typed
  <2>2. CASE AppendInstance
    BY <2>1, <2>2
       DEF AppendInstance, Goto, Change, ChangeSteps, UnprotectedSteps, SameFiles, StoreInv, Typed
  <2>3. CASE UpdateIndex
    BY <2>1, <2>3
       DEF UpdateIndex, Goto, Change, ChangeSteps, UnprotectedSteps, SameFiles, StoreInv, Typed
  <2>4. QED
    BY <2>2, <2>3
<1>2. /\ progress = {} /\ indexRollback[at] # Absent
      /\ dataRollback[at] \notin {Absent, Torn}
      /\ RolledBackData(at) = Truncated(data[at], dataRollback[at])
  BY <1>1, ChangeFiles
<1>3. RolledBackIndex(at)' = RolledBackIndex(at)
  BY <1>1, <1>2 DEF RolledBackIndex
<1>4. RolledBackData(at)' = RolledBackData(at)
  <2>1. Truncated(data'[at], dataRollback[at]) = Truncated(data[at], dataRollback[at])
    BY AppendFiles DEF UpdateIndex
  <2>2. QED
    BY <1>1, <1>2, <2>1 DEF RolledBackData
<1>5. Effective(at)' = Effective(at)
  <2>1. Recovered(at)' = Recovered(at)
    BY <1>1, <1>2, <1>3, <1>4 DEF Recovered
  <2>2. QED
    BY <1>1, <2>1 DEF Effective, UnprotectedSteps
<1>6. ~Done /\ ~Done'
  BY <1>1, <1>2 DEF Done
<1>7. AtShown
  BY <1>1, <1>5, <1>6 DEF AtShown
<1>8. QED
  BY <1>7, AtShownMaps

\* The data is compacted: the change takes effect.
LEMMA CompactDataMaps ==
    ASSUME StoreInv, StoreInv', CompactData
    PROVE  Atomic!Next
<1>1. /\ UNCHANGED <<index, indexRollback, dataRollback, progress, at, request, answer>>
      /\ step = "compactData" /\ step' = "compactIndex" /\ step \in Change
      /\ step \notin UnprotectedSteps /\ step' \in UnprotectedSteps
      /\ data' = [data EXCEPT ![at] = CompactedData(index[at], data[at])]
  BY DEF CompactData, Goto, Change, ChangeSteps, UnprotectedSteps
<1>2. at \in Class /\ progress = {}
  BY <1>1, ChangeFiles
<1>3. /\ request \in Request /\ request # None /\ request.class = at
      /\ request.kind # "deleteClass"
  BY <1>1 DEF StoreInv, Typed, Requested
<1>4. ~Done /\ Done'
  BY <1>1, <1>2, <1>3 DEF Done
<1>5. \A c \in Class : c # at => Effective(c)' = Effective(c)
  <2>1. \A c \in Class : c # at => SameFiles(c)
    BY <1>1, <1>2 DEF SameFiles, StoreInv, Typed
  <2>2. QED
    BY <1>1, <2>1, OthersShown
<1>6. Effective(at) = Contents(RolledBackIndex(at), RolledBackData(at))
  BY <1>1, <1>2, RecoveredCases DEF Effective
<1>7. Effective(at)' = Contents(index[at], data[at])
  <2>1. data'[at] = CompactedData(index[at], data[at])
    BY <1>1, <1>2 DEF StoreInv, Typed
  <2>2. Effective(at)' = Contents(CompactedIndex(index[at]), CompactedData(index[at], data[at]))
    BY <1>1, <2>1 DEF Effective
  <2>3. QED
    BY <1>1, <2>2, CompactFiles
<1>8. /\ Fits(request, Effective(at))
      /\ Changes(request, Effective(at), Effective(at)')
  BY <1>1, <1>6, <1>7 DEF StoreInv, Made
<1>9. Atomic!Allowed(request) /\ Shown' \in Atomic!Outcomes(request)
  BY <1>1, <1>3, <1>5, <1>8, ChangePerformed
<1>10. QED
  BY <1>1, <1>3, <1>4, <1>9, AtomicPerforms DEF Performs

\* The index follows: nothing is seen of it.
LEMMA CompactIndexMaps ==
    ASSUME StoreInv, StoreInv', CompactIndex
    PROVE  UNCHANGED Atomic!vars
<1>1. /\ UNCHANGED <<data, indexRollback, dataRollback, progress, at, request, answer>>
      /\ step = "compactIndex" /\ step' = "compacted" /\ step \in Change
      /\ index' = [index EXCEPT ![at] = CompactedIndex(index[at])]
  BY DEF CompactIndex, Goto, Change
<1>2. at \in Class /\ request # None
  BY <1>1 DEF StoreInv, Typed, Requested
<1>3. Done /\ Done'
  BY <1>1, <1>2 DEF Done, UnprotectedSteps
<1>4. Effective(at)' = Effective(at)
  <2>1. index'[at] = CompactedIndex(index[at])
    BY <1>1, <1>2 DEF StoreInv, Typed
  <2>2. QED
    BY <1>1, <2>1 DEF Effective
<1>5. \A c \in Class : c # at => SameFiles(c)
  BY <1>1, <1>2 DEF SameFiles, StoreInv, Typed
<1>6. AtShown
  BY <1>1, <1>2, <1>3, <1>4, <1>5 DEF AtShown
<1>7. QED
  BY <1>6, AtShownMaps

\* The commit: a change that is not compacted takes effect.
LEMMA CommitFileMaps ==
    ASSUME StoreInv, StoreInv', CommitFile
    PROVE  [Atomic!Next]_Atomic!vars
<1>1. /\ UNCHANGED <<index, data, indexRollback, dataRollback, at, request, answer>>
      /\ step \in {"commitFile", "compacted"} /\ step' = "each" /\ step \in Change
      /\ progress' = progress \cup {"commit"} /\ procedure' = "commit"
  BY DEF CommitFile, Goto, Change, ChangeSteps
<1>2. at \in Class /\ progress = {} /\ progress' = {"commit"}
  BY <1>1, ChangeFiles
<1>3. /\ request \in Request /\ request # None /\ request.class = at
      /\ request.kind # "deleteClass"
  BY <1>1 DEF StoreInv, Typed, Requested
<1>4. Done'
  BY <1>1, <1>2, <1>3 DEF Done
<1>5. \A c \in Class : c # at => SameFiles(c) /\ ~LeftOver(c)
  BY <1>1 DEF StoreInv, Pending, SameFiles
<1>6. Effective(at)' = Contents(index[at], data[at])
  <2>1. Recovered(at)' = Contents(index'[at], data'[at])
    BY <1>1, <1>2 DEF Recovered
  <2>2. QED
    BY <1>1, <2>1 DEF Effective
<1>7. CASE step = "commitFile"
  <2>1. Effective(at) = Contents(RolledBackIndex(at), RolledBackData(at))
    BY <1>2, <1>7, RecoveredCases DEF Effective
  <2>2. /\ Fits(request, Effective(at))
        /\ Changes(request, Effective(at), Effective(at)')
    BY <1>6, <1>7, <2>1 DEF StoreInv, Made
  <2>3. \A c \in Class : c # at => Effective(c)' = Effective(c)
    BY <1>1, <1>5, OthersShown
  <2>4. Atomic!Allowed(request) /\ Shown' \in Atomic!Outcomes(request)
    BY <1>1, <1>3, <2>2, <2>3, ChangePerformed
  <2>5. ~Done
    BY <1>2, <1>7 DEF Done, UnprotectedSteps
  <2>6. QED
    BY <1>1, <1>3, <1>4, <2>4, <2>5, AtomicPerforms DEF Performs
<1>8. CASE step = "compacted"
  <2>1. Effective(at)' = Effective(at)
    BY <1>6, <1>8 DEF Effective
  <2>2. Done
    BY <1>3, <1>8 DEF Done, UnprotectedSteps
  <2>3. AtShown
    BY <1>1, <1>2, <1>4, <1>5, <2>1, <2>2 DEF AtShown
  <2>4. QED
    BY <2>3, AtShownMaps
<1>9. QED
  BY <1>1, <1>7, <1>8

\* The rollback begins: it is what would be done.
LEMMA RollbackFileMaps ==
    ASSUME StoreInv, StoreInv', RollbackFile
    PROVE  UNCHANGED Atomic!vars
<1>1. /\ UNCHANGED <<index, data, indexRollback, dataRollback, at, request, answer>>
      /\ step = "rollbackFile" /\ step' = "each" /\ step \in Change
      /\ progress' = progress \cup {"rollback"} /\ procedure' = "rollback"
  BY DEF RollbackFile, Goto, Change
<1>2. at \in Class /\ progress = {} /\ progress' = {"rollback"}
  BY <1>1, ChangeFiles
<1>3. ~Done /\ ~Done'
  BY <1>1, <1>2 DEF Done, UnprotectedSteps
<1>4. Effective(at)' = Effective(at)
  <2>1. RolledBackIndex(at)' = RolledBackIndex(at) /\ RolledBackData(at)' = RolledBackData(at)
    BY <1>1 DEF RolledBackIndex, RolledBackData
  <2>2. Recovered(at)' = Recovered(at)
    BY <1>1, <1>2, <2>1 DEF Recovered
  <2>3. QED
    BY <1>1, <2>2 DEF Effective
<1>5. \A c \in Class : c # at => SameFiles(c) /\ ~LeftOver(c)
  BY <1>1 DEF StoreInv, Pending, SameFiles
<1>6. AtShown
  BY <1>1, <1>2, <1>3, <1>4, <1>5 DEF AtShown
<1>7. QED
  BY <1>6, AtShownMaps

\* The procedure takes the next class: nothing is seen of it.
LEMMA TakeClassMaps ==
    ASSUME StoreInv, StoreInv', NEW c \in Class, TakeClass(c)
    PROVE  UNCHANGED Atomic!vars
<1>1. /\ UNCHANGED <<index, data, indexRollback, dataRollback, progress, procedure,
                     request, answer>>
      /\ step = "each" /\ step' = "index"
  BY DEF TakeClass, Goto, fileVars
<1>2. Shown' = Shown
  BY <1>1, FilesKept, FilesShown
<1>3. (Done /\ Done') \/ (~Done /\ ~Done')
  BY <1>1 DEF Done, UnprotectedSteps
<1>4. QED
  BY <1>1, <1>2, <1>3, AtomicKeeps DEF Keeps

\* A step of a procedure that leaves what would be recovered is not seen.
LEMMA ProcedureShown ==
    ASSUME StoreInv, StoreInv', step \in Procedure, step' \in Procedure,
           UNCHANGED <<progress, procedure, at, request, answer>>,
           \A c \in Class : c # at => SameFiles(c), Recovered(at)' = Recovered(at)
    PROVE  UNCHANGED Atomic!vars
<1>1. at \in Class
  BY DEF StoreInv, Typed
<1>2. (Done /\ Done') \/ (~Done /\ ~Done')
  BY DEF Done, UnprotectedSteps, Procedure
<1>3. Effective(at)' = Effective(at)
  <2>1. Effective(at) = Recovered(at) /\ Effective(at)' = Recovered(at)'
    BY DEF Effective, Procedure
  <2>2. QED
    BY <2>1
<1>4. AtShown
  BY <1>1, <1>2, <1>3 DEF AtShown
<1>5. QED
  BY <1>4, AtShownMaps

\* The index of a class is treated: what would be done is done.
LEMMA IndexStepMaps ==
    ASSUME StoreInv, StoreInv', IndexStep
    PROVE  UNCHANGED Atomic!vars
<1>1. /\ UNCHANGED <<data, dataRollback, progress, procedure, at, request, answer>>
      /\ step \in {"index", "rename"}
      /\ \/ /\ procedure = "undo" /\ indexRollback[at] # Absent
            /\ index' = [index EXCEPT ![at] = Absent] /\ indexRollback' = indexRollback
            /\ step' = "rename"
         \/ /\ procedure \in {"undo", "rollback"}
            /\ index' = [index EXCEPT ![at] = RolledBackIndex(at)]
            /\ indexRollback' = [indexRollback EXCEPT ![at] = Absent]
            /\ step' = "data"
         \/ /\ procedure = "commit" /\ index' = index
            /\ indexRollback' = [indexRollback EXCEPT ![at] = Absent]
            /\ step' = "data"
  BY DEF IndexStep, UndoIndex, CommitIndex, RollbackIndex, Goto
<1>2. step \in Procedure \ {"each"} /\ step' \in Procedure
  BY <1>1 DEF Procedure
<1>3. /\ at \in Class
      /\ procedure = "commit" => progress = {"commit"}
      /\ procedure # "commit" => progress # {"commit"}
  BY <1>2, ProcedureFiles
<1>4. \A c \in Class : c # at => SameFiles(c)
  BY <1>1, <1>3 DEF SameFiles, StoreInv, Typed
<1>5. Recovered(at)' = Recovered(at)
  <2>1. RolledBackData(at)' = RolledBackData(at)
    BY <1>1 DEF RolledBackData
  <2>2. CASE procedure = "commit"
    <3>1. index'[at] = index[at] /\ data'[at] = data[at] /\ progress = {"commit"}
      BY <1>1, <1>3, <2>2
    <3>2. QED
      BY <1>1, <3>1 DEF Recovered
  <2>3. CASE procedure # "commit"
    <3>1. RolledBackIndex(at)' = RolledBackIndex(at)
      BY <1>1, <1>3, <2>3 DEF RolledBackIndex, StoreInv, Typed
    <3>2. progress \in {{}, {"begin"}, {"rollback"}}
      BY <1>3, <2>3, OneProgress
    <3>3. QED
      BY <1>1, <2>1, <3>1, <3>2 DEF Recovered
  <2>4. QED
    BY <2>2, <2>3
<1>6. QED
  BY <1>1, <1>2, <1>4, <1>5, ProcedureShown

\* The saved size of the data goes: it was needed no more.
LEMMA DropDataRollbackMaps ==
    ASSUME StoreInv, StoreInv', DropDataRollback
    PROVE  UNCHANGED Atomic!vars
<1>1. /\ UNCHANGED <<index, data, indexRollback, progress, procedure, at, request, answer>>
      /\ step \in {"data", "drop"} /\ step' = "each"
      /\ step = "data" => procedure # "rollback" \/ dataRollback[at] = Absent
      /\ dataRollback' = [dataRollback EXCEPT ![at] = Absent]
  BY DEF DropDataRollback, Goto
<1>2. step \in Procedure \ {"each"} /\ step' \in Procedure
  BY <1>1 DEF Procedure
<1>3. /\ at \in Class
      /\ procedure = "undo" => progress = {"begin"}
      /\ procedure = "commit" => progress = {"commit"}
      /\ procedure = "rollback" => progress \notin {{"begin"}, {"commit"}}
      /\ procedure \in {"undo", "commit", "rollback"}
  BY <1>2, ProcedureFiles
<1>4. \A c \in Class : c # at => SameFiles(c)
  BY <1>1, <1>3 DEF SameFiles, StoreInv, Typed
<1>5. Recovered(at)' = Recovered(at)
  <2>1. RolledBackIndex(at)' = RolledBackIndex(at)
    BY <1>1 DEF RolledBackIndex
  <2>2. RolledBackData(at)' = data[at]
    BY <1>1, <1>3 DEF RolledBackData, StoreInv, Typed
  <2>3. CASE procedure # "rollback"
    <3>1. progress = {"begin"} \/ progress = {"commit"}
      BY <1>3, <2>3
    <3>2. QED
      BY <1>1, <2>1, <3>1 DEF Recovered
  <2>4. CASE procedure = "rollback"
    <3>1. RolledBackData(at) = data[at]
      <4>1. CASE step = "drop"
        BY <4>1 DEF StoreInv, Consistent
      <4>2. CASE step = "data"
        BY <1>1, <2>4, <4>2 DEF RolledBackData
      <4>3. QED
        BY <1>1, <4>1, <4>2
    <3>2. progress \in {{}, {"rollback"}}
      BY <1>3, <2>4, OneProgress
    <3>3. QED
      BY <1>1, <2>1, <2>2, <3>1, <3>2 DEF Recovered
  <2>5. QED
    BY <2>3, <2>4
<1>6. QED
  BY <1>1, <1>2, <1>4, <1>5, ProcedureShown

\* The data is truncated: what would be done is done.
LEMMA RollbackDataMaps ==
    ASSUME StoreInv, StoreInv', RollbackData
    PROVE  UNCHANGED Atomic!vars
<1>1. step = "data" /\ procedure = "rollback" /\ step \in Procedure \ {"each"}
  BY DEF RollbackData, Procedure
<1>2. /\ at \in Class /\ dataRollback[at] # Torn
      /\ progress # {"begin"} /\ progress # {"commit"}
  BY <1>1, ProcedureFiles
<1>3. /\ UNCHANGED <<index, indexRollback, dataRollback, progress, procedure, at,
                     request, answer>>
      /\ step' = "drop" /\ step' \in Procedure
      /\ data' = [data EXCEPT ![at] = RolledBackData(at)]
  BY <1>1, <1>2 DEF RollbackData, Goto, Procedure
<1>4. \A c \in Class : c # at => SameFiles(c)
  BY <1>2, <1>3 DEF SameFiles, StoreInv, Typed
<1>5. Recovered(at)' = Recovered(at)
  <2>1. RolledBackIndex(at)' = RolledBackIndex(at)
    BY <1>3 DEF RolledBackIndex
  <2>2. RolledBackData(at)' = data'[at]
    BY <1>3 DEF StoreInv, Consistent
  <2>3. data'[at] = RolledBackData(at)
    BY <1>2, <1>3 DEF StoreInv, Typed
  <2>4. progress \in {{}, {"rollback"}}
    BY <1>2, OneProgress
  <2>5. QED
    BY <1>3, <2>1, <2>2, <2>3, <2>4 DEF Recovered
<1>6. QED
  BY <1>1, <1>3, <1>4, <1>5, ProcedureShown

\* A procedure ends: a request is answered, the constructor has nothing to answer.
LEMMA EndProcedureMaps ==
    ASSUME StoreInv, StoreInv', EndProcedure
    PROVE  Atomic!Next
<1>1. /\ UNCHANGED <<index, data, indexRollback, dataRollback, procedure>>
      /\ step = "each" /\ todo = {} /\ step' = "idle" /\ request' = None
      /\ answer' = IF request = None THEN "none"
                   ELSE IF procedure = "commit" THEN "ok" ELSE "failed"
  BY DEF EndProcedure
<1>2. \A c \in Class : ~LeftOver(c)
  BY <1>1 DEF StoreInv, Pending, Procedure
<1>3. Shown' = Shown
  BY <1>1, <1>2, FilesKept, FilesShown
<1>4. ~Done'
  BY <1>1 DEF Done
<1>5. CASE request = None
  BY <1>1, <1>3, <1>4, <1>5, AtomicForgets DEF Forgets
<1>6. CASE request # None
  <2>1. procedure = "commit" => "commit" \in progress
    BY <1>1 DEF StoreInv, Progress, Procedure, StateFile
  <2>2. (procedure = "commit" /\ Done) \/ (procedure # "commit" /\ ~Done)
    BY <1>1, <1>6, <2>1 DEF Done, UnprotectedSteps
  <2>3. answer' = IF Done THEN "ok" ELSE "failed"
    BY <1>1, <1>6, <2>2
  <2>4. QED
    BY <1>1, <1>3, <1>4, <1>6, <2>3, AtomicAnswers DEF Answers
<1>7. QED
  BY <1>5, <1>6

\* A file operation fails: the request is refused, or what was changed goes the way back.
LEMMA FailMaps ==
    ASSUME Protected, StoreInv, StoreInv', Fail
    PROVE  [Atomic!Next]_Atomic!vars
<1>1. /\ UNCHANGED <<index, data, progress, at>>
      /\ at \in Class
  BY DEF Fail, StoreInv, Typed
<1>2. CASE /\ step = "beginFile" /\ Refused
           /\ UNCHANGED <<indexRollback, dataRollback, procedure, todo>>
  <2>1. step' = "idle" /\ request' = None /\ answer' = "failed"
    BY <1>2 DEF Refused
  <2>2. progress = {} /\ request # None
    BY <1>2 DEF StoreInv, Progress, Requested, Quiet
  <2>3. ~Done /\ ~Done'
    BY <1>2, <2>1, <2>2 DEF Done, UnprotectedSteps
  <2>4. Shown' = Shown
    BY <1>1, <1>2, <2>1, FilesKept, FilesShown
  <2>5. QED
    BY <2>1, <2>2, <2>3, <2>4, AtomicAnswers DEF Answers
<1>3. CASE /\ step \in BeginSteps
           /\ indexRollback' = IF step = "header"
                               THEN [indexRollback EXCEPT ![at] = Absent]
                               ELSE indexRollback
           /\ dataRollback' = [dataRollback EXCEPT ![at] = Absent]
           /\ procedure' = "undo" /\ todo' = {at} /\ Goto("each")
  <2>1. step \in Begin /\ step' = "each" /\ UNCHANGED <<request, answer>>
    BY <1>3 DEF Begin, Goto
  <2>2. /\ progress = {"begin"} /\ ~Done /\ request # None /\ request.class = at
        /\ Effective(at) = Contents(RolledBackIndex(at), data[at])
    BY <2>1, BeginFiles, BeginShown
  <2>3. ~Done'
    BY <1>1, <2>1, <2>2 DEF Done, UnprotectedSteps
  <2>4. \A c \in Class : c # at => SameFiles(c)
    BY <1>1, <1>3 DEF SameFiles, StoreInv, Typed
  <2>5. Effective(at)' = Contents(RolledBackIndex(at)', data[at])
    <3>1. Recovered(at)' = Contents(RolledBackIndex(at)', data[at])
      BY <1>1, <2>2 DEF Recovered
    <3>2. Effective(at)' = Recovered(at)'
      BY <2>1 DEF Effective
    <3>3. QED
      BY <3>1, <3>2
  <2>6. CASE step = "header"
    <3>1. index[at] = Absent /\ RolledBackIndex(at) = BlankIndex
      BY <2>6, HeaderFiles
    <3>2. RolledBackIndex(at)' = Absent
      BY <1>1, <1>3, <2>6, <3>1 DEF RolledBackIndex, StoreInv, Typed
    <3>3. /\ Effective(at) = [n \in Name |-> Blank]
          /\ Effective(at)' = [n \in Name |-> None]
      BY <2>2, <2>5, <3>1, <3>2, NewIndexShown
    <3>4. QED
      BY <1>1, <2>1, <2>2, <2>3, <2>4, <3>3, TurnMaps
  <2>7. CASE step # "header"
    <3>1. RolledBackIndex(at)' = RolledBackIndex(at)
      BY <1>1, <1>3, <2>7 DEF RolledBackIndex
    <3>2. AtShown
      BY <1>1, <2>1, <2>2, <2>3, <2>4, <2>5, <3>1 DEF AtShown
    <3>3. QED
      BY <3>2, AtShownMaps
  <2>8. QED
    BY <2>6, <2>7
<1>4. CASE /\ step \in ChangeSteps
           /\ Goto("rollbackFile")
           /\ UNCHANGED <<indexRollback, dataRollback, procedure, todo>>
  <2>1. /\ step \in Change /\ step' = "rollbackFile" /\ UNCHANGED <<request, answer>>
        /\ step \notin UnprotectedSteps /\ step' \notin UnprotectedSteps
    BY <1>4 DEF Change, ChangeSteps, UnprotectedSteps, Goto
  <2>2. progress = {}
    BY <2>1, ChangeFiles
  <2>3. ~Done /\ ~Done'
    BY <1>1, <2>1, <2>2 DEF Done
  <2>4. Shown' = Shown
    <3>1. step \notin {"compactIndex", "compacted"} /\ step' \notin {"compactIndex", "compacted"}
      BY <2>1 DEF UnprotectedSteps
    <3>2. QED
      BY <1>1, <1>4, <3>1, FilesKept, FilesShown
  <2>5. QED
    BY <2>1, <2>3, <2>4, AtomicKeeps DEF Keeps
<1>5. QED
  BY <1>2, <1>3, <1>4 DEF Fail, Protected, UnprotectedSteps

\* The server crashes: what is shown is what its next start makes of the files.
LEMMA CrashMaps ==
    ASSUME Protected, StoreInv, StoreInv', Crash
    PROVE  Atomic!Next
<1>1. /\ UNCHANGED <<index, data, indexRollback, dataRollback, progress>>
      /\ step \notin UnprotectedSteps /\ step' = "down" /\ request' = None /\ answer' = "none"
  BY DEF Crash, Protected, fileVars
<1>2. Shown' = Shown
  <2>1. step \notin {"compactIndex", "compacted"} /\ step' \notin {"compactIndex", "compacted"}
    BY <1>1 DEF UnprotectedSteps
  <2>2. QED
    BY <1>1, <2>1, FilesKept, FilesShown
<1>3. ~Done'
  BY <1>1 DEF Done
<1>4. QED
  BY <1>1, <1>2, <1>3, AtomicForgets DEF Forgets

\* The server starts again.
LEMMA RestartMaps ==
    ASSUME StoreInv, StoreInv', Restart
    PROVE  UNCHANGED Atomic!vars
<1>1. /\ UNCHANGED <<index, data, indexRollback, dataRollback, progress, request, answer>>
      /\ step = "down" /\ step' = "each"
  BY DEF Restart, Goto, fileVars
<1>2. request = None
  BY <1>1 DEF StoreInv, Requested
<1>3. ~Done /\ ~Done'
  BY <1>1, <1>2 DEF Done
<1>4. Shown' = Shown
  BY <1>1, FilesKept, FilesShown
<1>5. QED
  BY <1>1, <1>3, <1>4, AtomicKeeps DEF Keeps

\* Nothing changes.
LEMMA StutterMaps ==
    ASSUME UNCHANGED vars
    PROVE  UNCHANGED Atomic!vars
<1>1. UNCHANGED <<index, data, indexRollback, dataRollback, progress, step, procedure, at,
                  request, answer>>
  BY DEF vars, fileVars, workVars
<1>2. \A c \in Class : Effective(c)' = Effective(c)
  BY <1>1 DEF Effective, Recovered, RolledBackIndex, RolledBackData
<1>3. (Done /\ Done') \/ (~Done /\ ~Done')
  BY <1>1 DEF Done
<1>4. QED
  BY <1>1, <1>2, <1>3, ShownSame, AtomicKeeps DEF Keeps

\* Every step is one of the atomic store, or none.
LEMMA StepMaps ==
    ASSUME Protected
    PROVE  StoreInv /\ StoreInv' /\ [Next]_vars => [Atomic!Next]_Atomic!vars
<1>1. SUFFICES ASSUME StoreInv, StoreInv', [Next]_vars PROVE [Atomic!Next]_Atomic!vars
  OBVIOUS
<1>2. ASSUME NEW r \in Request, Submit(r) PROVE Atomic!Next
  BY <1>1, <1>2, SubmitMaps
<1>3. ASSUME Work PROVE [Atomic!Next]_Atomic!vars
  <2>1. CASE DeleteClass \/ RemoveData \/ EndProcedure
    BY <1>1, <2>1, DeleteClassMaps, RemoveDataMaps, EndProcedureMaps
  <2>2. CASE Construct \/ BeginIndex \/ CommitFile
    BY <1>1, <2>2, ConstructMaps, BeginIndexMaps, CommitFileMaps
  <2>3. CASE BeginFile \/ CopyIndex \/ BeginData \/ BeginDone
    BY <1>1, <2>3, BeginFileMaps, BeginMaps, BeginDoneMaps
  <2>4. CASE AppendInstance \/ UpdateIndex \/ CompactData \/ CompactIndex
    BY <1>1, <2>4, ChangeMaps, CompactDataMaps, CompactIndexMaps
  <2>5. CASE RollbackFile \/ Restart
    BY <1>1, <2>5, RollbackFileMaps, RestartMaps
  <2>6. ASSUME NEW c \in Class, TakeClass(c) PROVE UNCHANGED Atomic!vars
    BY <1>1, <2>6, TakeClassMaps
  <2>7. CASE IndexStep \/ DropDataRollback \/ RollbackData
    BY <1>1, <2>7, IndexStepMaps, DropDataRollbackMaps, RollbackDataMaps
  <2>8. QED
    BY <1>3, <2>1, <2>2, <2>3, <2>4, <2>5, <2>6, <2>7 DEF Work
<1>4. CASE Fail
  BY <1>1, <1>4, FailMaps
<1>5. CASE Crash
  BY <1>1, <1>5, CrashMaps
<1>6. CASE UNCHANGED vars
  BY <1>6, StutterMaps
<1>7. QED
  BY <1>1, <1>2, <1>3, <1>4, <1>5, <1>6 DEF Next

\* The files and the rollback files implement the atomic store: a request takes effect at once
\* or not at all, is answered "ok" only when it has taken effect, and neither a crash of the
\* server, also while it recovers, nor a file operation that fails loses a change that was
\* made or leaves half of one.
THEOREM StoreImplemented ==
    ASSUME Protected
    PROVE  Spec => ImplementsStore
<1>1. Init => Atomic!Init
  BY AtomicInit
<1>2. StoreInv /\ StoreInv' /\ [Next]_vars => [Atomic!Next]_Atomic!vars
  BY StepMaps
<1>3. Spec => Atomic!Spec
  BY <1>1, <1>2, Invariant, PTL DEF Spec, Atomic!Spec
<1>4. QED
  BY <1>3 DEF ImplementsStore
=============================================================================
