---------------------------- MODULE FileOpsProofs ----------------------------
(***************************************************************************)
(* What the programs of file_ops.cpp do to the files and the descriptors,  *)
(* for every number of threads, files and programs, every device and every *)
(* interleaving, with interruptions anywhere.                              *)
(***************************************************************************)
EXTENDS FileOps, FiniteSetTheorems, TLAPS

-----------------------------------------------------------------------------
(***************************************************************************)
(* The inductive invariants.                                               *)
(***************************************************************************)
Typed ==
    /\ files \subseteq Files /\ written \subseteq files
    /\ created \subseteq Threads \X Indices /\ newest \subseteq files
    /\ fileOp \in fileOps /\ numFiles \in NumFiles
    /\ programs \in 1 .. MaxPrograms
    /\ step \in [Threads -> {"idle", "open", "write", "close", "rename"}]
    /\ i \in [Threads -> Nat]
    /\ \A t \in Threads :
           /\ i[t] \in 0 .. end_index(t) + 1
           /\ step[t] # "idle" => i[t] \in start_index(t) .. end_index(t)
    /\ calls \in [Threads -> 0 .. MaxCalls]
    /\ before \in [Threads -> SUBSET Files]
    /\ fd \in [Threads -> BOOLEAN] /\ leaked \in [Threads -> Nat]

\* Each program makes its own system calls.
StepOfItsProgram ==
    \A t \in Threads :
        /\ step[t] = "rename" => fileOp = "rename"
        /\ step[t] \in {"open", "close"} => fileOp # "rename"
        /\ step[t] = "write" => fileOp = "create_write"

\* A descriptor belongs to a call in progress, and to a file that is there;
\* a call leaves at most one behind, in its last step.
Holding ==
    \A t \in Threads :
        /\ fd[t] => step[t] \in {"write", "close"} /\ Of(t, "file") \in files
        /\ leaked[t] <= IF step[t] = "idle" THEN calls[t] ELSE calls[t] - 1
        /\ leaked[t] > 0 => fileOp = "create_write"

\* The device and the process have what they can hold.
Room ==
    /\ IsFiniteSet(written) /\ Cardinality(written) <= MaxBlocks
    /\ Descriptors <= MaxDescriptors
    /\ \A t \in Threads : leaked[t] > 0 => Cardinality(written) = MaxBlocks

\* file<k> is always newer than f<k>.
NewestOf(t, k) ==
    /\ <<t, "file", k>> \in files => <<t, "file", k>> \in newest
    /\ <<t, k>> \in created /\ <<t, "file", k>> \notin files =>
           <<t, "f", k>> \in newest

Newest == \A t \in Threads, k \in Indices : NewestOf(t, k)

\* A call of frename has moved the files up to the one it is at.
Old(t, last) == {<<t, "file", k>> : k \in start_index(t) .. last}
New(t, last) == {<<t, "f", k>> : k \in start_index(t) .. last}
MovedUpTo(t, last) ==
    /\ Old(t, last) \subseteq before[t]
    /\ OwnFiles(t) = (before[t] \ Old(t, last)) \cup New(t, last)

Moving ==
    fileOp = "rename" =>
        \A t \in Threads :
            /\ step[t] = "rename" => MovedUpTo(t, i[t] - 1)
            /\ step[t] = "idle" /\ calls[t] > 0 =>
                   \E last \in start_index(t) - 1 .. end_index(t) :
                       /\ MovedUpTo(t, last)
                       /\ last < end_index(t) =>
                              <<t, "file", last + 1>> \notin before[t]

FileOpsInv ==
    Typed /\ StepOfItsProgram /\ Holding /\ Room /\ Newest /\ Moving

-----------------------------------------------------------------------------
(* Numbers of files, and steps of one thread. *)

LEMMA LinearNat == \A a, b \in Nat : a * b + b \in Nat
OBVIOUS

LEMMA Segments ==
    ASSUME Typed, NEW t \in Threads
    PROVE  /\ start_index(t) \in Nat \ {0} /\ end_index(t) \in Nat
           /\ end_index(t) = start_index(t) + numFiles - 1
           /\ start_index(t) .. end_index(t) \subseteq Indices
           /\ numFiles \in Nat
<1>1. numFiles \in Nat /\ t \in Nat /\ t < ThreadCount /\ ThreadCount \in Nat
  BY FileOpsAssumption DEF Typed, Threads
<1>2. t * numFiles \in Nat /\ t * numFiles + numFiles <= ThreadCount * numFiles
  <2>1. (t + 1) * numFiles <= ThreadCount * numFiles
    BY <1>1
  <2>2. (t + 1) * numFiles = t * numFiles + numFiles
    BY <1>1
  <2> QED
    BY <1>1, <2>1, <2>2
<1>3. 1 .. ThreadCount * numFiles \subseteq Indices
  BY DEF Indices, Typed
<1>4. start_index(t) .. end_index(t) \subseteq 1 .. ThreadCount * numFiles
  BY <1>1, <1>2 DEF start_index, end_index
<1> QED
  BY <1>1, <1>2, <1>3, <1>4 DEF start_index, end_index

LEMMA FileNames ==
    ASSUME Typed, NEW t \in Threads, step[t] # "idle", NEW base \in {"file", "f"}
    PROVE  Of(t, base) \in Files
<1>1. i[t] \in Indices
  BY Segments DEF Typed
<1> QED
  BY <1>1 DEF Of, Files

\* The locals of the other threads, and their files, are left alone.
LEMMA Others ==
    ASSUME Typed, NEW t \in Threads, Thread(t)
    PROVE  /\ UNCHANGED program
           /\ \A u \in Threads : /\ start_index(u)' = start_index(u)
                                 /\ end_index(u)' = end_index(u)
           /\ \A u \in Threads \ {t} :
                  /\ step'[u] = step[u] /\ i'[u] = i[u] /\ fd'[u] = fd[u]
                  /\ calls'[u] = calls[u] /\ leaked'[u] = leaked[u]
                  /\ before'[u] = before[u]
                  /\ OwnFiles(u)' = OwnFiles(u)
<1>1. UNCHANGED program
  BY DEF Thread, Call, Open, Write, Close, Rename
<1>2. ASSUME NEW u \in Threads \ {t}
      PROVE  /\ step'[u] = step[u] /\ i'[u] = i[u] /\ fd'[u] = fd[u]
             /\ calls'[u] = calls[u] /\ leaked'[u] = leaked[u]
             /\ before'[u] = before[u]
  BY <1>2 DEF Thread, Call, Open, Write, LeaveFile, Close, Rename, Goto,
              NextFile, Break, Typed
<1>3. ASSUME NEW u \in Threads \ {t} PROVE OwnFiles(u)' = OwnFiles(u)
  <2>1. CASE UNCHANGED files
    BY <2>1 DEF OwnFiles
  <2>2. CASE files' = files \cup {Of(t, "file")}
    BY <2>2 DEF OwnFiles, Of
  <2>3. CASE files' = Renamed(files, Of(t, "file"), Of(t, "f"))
    BY <2>3 DEF OwnFiles, Of, Renamed
  <2> QED
    BY <2>1, <2>2, <2>3 DEF Thread, Call, Open, Write, Close, Rename, device
<1>4. ASSUME NEW u \in Threads
      PROVE  start_index(u)' = start_index(u) /\ end_index(u)' = end_index(u)
  BY <1>1 DEF start_index, end_index, program
<1> QED
  BY <1>1, <1>2, <1>3, <1>4

\* Where the next file is, if there is one.
LEMMA NextFileTypes ==
    ASSUME Typed, NEW t \in Threads, step[t] # "idle", NextFile(t),
           UNCHANGED program
    PROVE  /\ i' = [i EXCEPT ![t] = @ + 1] /\ i'[t] \in Nat
           /\ step'[t] = (IF i[t] < end_index(t) THEN FirstCall ELSE "idle")
           /\ step' \in
                [Threads -> {"idle", "open", "write", "close", "rename"}]
           /\ i'[t] \in 0 .. end_index(t) + 1
           /\ step'[t] # "idle" => i'[t] \in start_index(t) .. end_index(t)
<1>1. i[t] \in start_index(t) .. end_index(t)
  BY DEF Typed
<1>2. i' = [i EXCEPT ![t] = @ + 1] /\ i'[t] = i[t] + 1
  BY DEF NextFile, Typed
<1>3. /\ step' \in [Threads -> {"idle", "open", "write", "close", "rename"}]
      /\ step'[t] = IF i[t] < end_index(t) THEN FirstCall ELSE "idle"
  BY DEF NextFile, Goto, FirstCall, Typed
<1> QED
  BY <1>1, <1>2, <1>3, Segments

LEMMA ThreadTyped ==
    ASSUME Typed, Holding, NEW t \in Threads, Thread(t)
    PROVE  Typed'
<1> DEFINE Places == {"idle", "open", "write", "close", "rename"}
<1>0. /\ UNCHANGED <<fileOp, numFiles, programs>>
      /\ \A u \in Threads : /\ start_index(u)' = start_index(u)
                            /\ end_index(u)' = end_index(u)
      /\ \A u \in Threads \ {t} : step'[u] = step[u] /\ i'[u] = i[u]
  BY Others DEF program
<1>1. ASSUME step' \in [Threads -> Places], i' \in [Threads -> Nat],
             i'[t] \in 0 .. end_index(t) + 1,
             step'[t] # "idle" => i'[t] \in start_index(t) .. end_index(t),
             files' \subseteq Files, written' \subseteq files',
             created' \subseteq Threads \X Indices, newest' \subseteq files',
             calls' \in [Threads -> 0 .. MaxCalls],
             before' \in [Threads -> SUBSET Files],
             fd' \in [Threads -> BOOLEAN], leaked' \in [Threads -> Nat]
      PROVE  Typed'
  <2>1. ASSUME NEW u \in Threads
        PROVE  /\ i'[u] \in 0 .. end_index(u)' + 1
               /\ step'[u] # "idle" =>
                      i'[u] \in start_index(u)' .. end_index(u)'
    BY <1>0, <1>1 DEF Typed
  <2> QED
    BY <1>0, <1>1, <2>1 DEF Typed
<1>2. CASE Call(t)
  <2>1. /\ step' \in [Threads -> Places]
        /\ step'[t] # "idle" => numFiles # 0
        /\ i' \in [Threads -> Nat] /\ i'[t] = start_index(t)
    BY <1>2, Segments DEF Call, Goto, FirstCall, Typed
  <2>2. /\ calls' \in [Threads -> 0 .. MaxCalls]
        /\ before' \in [Threads -> SUBSET Files]
        /\ UNCHANGED <<files, written, created, newest, fd, leaked>>
    <3>1. calls[t] + 1 \in 0 .. MaxCalls
      BY <1>2, FileOpsAssumption DEF Call, Typed
    <3>2. OwnFiles(t) \in SUBSET Files
      BY DEF OwnFiles, Typed
    <3> QED
      BY <1>2, <3>1, <3>2 DEF Call, Typed, device
  <2>3. /\ i'[t] \in 0 .. end_index(t) + 1
        /\ numFiles # 0 => i'[t] \in start_index(t) .. end_index(t)
    BY <2>1, Segments
  <2> QED
    BY <1>1, <2>1, <2>2, <2>3 DEF Typed
<1>3. CASE Open(t)
  <2>1. /\ step' \in [Threads -> Places] /\ step[t] # "idle"
        /\ UNCHANGED <<written, i, calls, leaked, before>>
    BY <1>3 DEF Open, Goto, Typed
  <2>2. /\ fd' \in [Threads -> BOOLEAN]
        /\ files' = files \/ files' = files \cup {Of(t, "file")}
    BY <1>3 DEF Open, Typed
  <2>3. files' \subseteq Files /\ files \subseteq files'
    <3>1. Of(t, "file") \in Files
      BY <2>1, FileNames
    <3> QED
      BY <2>2, <3>1 DEF Typed
  <2>4. created' \subseteq Threads \X Indices /\ newest' \subseteq files'
    <3>1. i[t] \in Indices
      BY <2>1, Segments DEF Typed
    <3> QED
      BY <1>3, <3>1 DEF Open, Typed
  <2> QED
    BY <1>1, <2>1, <2>2, <2>3, <2>4 DEF Typed
<1>4. CASE Write(t)
  <2>1. /\ UNCHANGED <<files, created, newest, i, calls, before>>
        /\ step[t] # "idle"
    BY <1>4 DEF Write, LeaveFile, Break
  <2>2. /\ step' \in [Threads -> Places]
        /\ written' \subseteq files /\ fd' \in [Threads -> BOOLEAN]
        /\ leaked' \in [Threads -> Nat]
    <3>1. CASE fd[t] /\ HasRoom(Of(t, "file"))
      BY <1>4, <3>1 DEF Write, Goto, Typed, Holding
    <3>2. CASE ~ (fd[t] /\ HasRoom(Of(t, "file")))
      <4>1. /\ step' = [step EXCEPT ![t] = "idle"] /\ UNCHANGED written
            /\ fd' = [fd EXCEPT ![t] = FALSE]
            /\ leaked' = [leaked EXCEPT ![t] = IF fd[t] THEN @ + 1 ELSE @]
        BY <1>4, <3>2 DEF Write, LeaveFile, Break, Goto
      <4>2. fd' \in [Threads -> BOOLEAN]
        BY <4>1 DEF Typed
      <4>3. leaked' \in [Threads -> Nat]
        BY <4>1 DEF Typed
      <4> QED
        BY <4>1, <4>2, <4>3 DEF Typed
    <3> QED
      BY <3>1, <3>2
  <2> QED
    BY <1>1, <2>1, <2>2 DEF Typed
<1>5. CASE Close(t)
  <2>1. /\ NextFile(t) /\ step[t] # "idle" /\ UNCHANGED program
        /\ UNCHANGED <<files, written, created, newest, calls, leaked, before>>
        /\ fd' \in [Threads -> BOOLEAN]
    BY <1>5 DEF Close, device, Typed
  <2>2. i' \in [Threads -> Nat]
    BY <2>1, NextFileTypes DEF Typed
  <2> QED
    BY <1>1, <2>1, <2>2, NextFileTypes DEF Typed
<1>6. CASE Rename(t)
  <2>1. /\ step[t] # "idle" /\ UNCHANGED program
        /\ UNCHANGED <<fd, calls, leaked, before>>
    BY <1>6 DEF Rename
  <2>2. CASE Of(t, "file") \in files
    <3>1. /\ NextFile(t)
          /\ files' = Renamed(files, Of(t, "file"), Of(t, "f"))
          /\ written' = Renamed(written, Of(t, "file"), Of(t, "f"))
          /\ newest' = Renamed(newest, Of(t, "file"), Of(t, "f"))
          /\ UNCHANGED created
      BY <1>6, <2>2 DEF Rename
    <3>2. files' \subseteq Files /\ written' \subseteq files'
          /\ newest' \subseteq files'
      BY <2>1, <2>2, <3>1, FileNames DEF Renamed, Typed
    <3>3. i' \in [Threads -> Nat]
      BY <2>1, <3>1, NextFileTypes DEF Typed
    <3> QED
      BY <1>1, <2>1, <3>1, <3>2, <3>3, NextFileTypes DEF Typed
  <2>3. CASE Of(t, "file") \notin files
    BY <1>1, <1>6, <2>1, <2>3 DEF Rename, Break, Goto, device, Typed
  <2> QED
    BY <2>2, <2>3
<1> QED
  BY <1>2, <1>3, <1>4, <1>5, <1>6 DEF Thread

LEMMA StepOfItsProgramStep ==
    ASSUME Typed, StepOfItsProgram, NEW t \in Threads, Thread(t)
    PROVE  StepOfItsProgram'
<1>1. /\ UNCHANGED fileOp
      /\ \A u \in Threads \ {t} : step'[u] = step[u]
  BY Others DEF program
<1>2. /\ step'[t] = "rename" => fileOp = "rename"
      /\ step'[t] \in {"open", "close"} => fileOp # "rename"
      /\ step'[t] = "write" => fileOp = "create_write"
  BY DEF Thread, Call, Open, Write, LeaveFile, Close, Rename, NextFile, Break,
         Goto, FirstCall, StepOfItsProgram, Typed, fileOps
<1> QED
  BY <1>1, <1>2 DEF StepOfItsProgram

LEMMA HoldingStep ==
    ASSUME Typed, StepOfItsProgram, Holding, NEW t \in Threads, Thread(t)
    PROVE  Holding'
<1> DEFINE Held(u) ==
        /\ fd[u] => step[u] \in {"write", "close"} /\ Of(u, "file") \in files
        /\ leaked[u] <= IF step[u] = "idle" THEN calls[u] ELSE calls[u] - 1
        /\ leaked[u] > 0 => fileOp = "create_write"
<1>0. UNCHANGED fileOp
  BY Others DEF program
<1>1. ASSUME NEW u \in Threads \ {t} PROVE Held(u)'
  <2>1. /\ step'[u] = step[u] /\ fd'[u] = fd[u] /\ calls'[u] = calls[u]
        /\ leaked'[u] = leaked[u] /\ OwnFiles(u)' = OwnFiles(u)
        /\ i'[u] = i[u]
    BY Others
  <2>2. Of(u, "file")' = Of(u, "file")
    BY <2>1 DEF Of
  <2>3. Of(u, "file") \in files => Of(u, "file") \in files'
    BY <2>1 DEF OwnFiles, Of
  <2> QED
    BY <1>0, <2>1, <2>2, <2>3 DEF Holding
<1>2. Held(t)'
  <2>1. CASE Call(t)
    BY <1>0, <2>1 DEF Call, Goto, Holding, Typed
  <2>2. CASE Open(t)
    <3>1. /\ step[t] = "open" /\ step'[t] \in {"close", "write"}
          /\ UNCHANGED <<i, calls, leaked>>
      BY <2>2 DEF Open, Goto, Typed
    <3>2. fd'[t] => Of(t, "file") \in files'
      BY <2>2, <3>1 DEF Open, Holding, Typed
    <3>3. Of(t, "file")' = Of(t, "file")
      BY <3>1 DEF Of
    <3> QED
      BY <1>0, <3>1, <3>2, <3>3 DEF Holding
  <2>3. CASE Write(t)
    <3>1. /\ step[t] = "write" /\ fileOp = "create_write"
          /\ UNCHANGED <<files, i, calls>>
      BY <2>3 DEF Write, LeaveFile, Break, StepOfItsProgram
    <3>2. CASE fd[t] /\ HasRoom(Of(t, "file"))
      BY <1>0, <2>3, <3>1, <3>2 DEF Write, Goto, Holding, Typed, Of
    <3>3. CASE ~ (fd[t] /\ HasRoom(Of(t, "file")))
      <4>1. step'[t] = "idle" /\ ~ fd'[t] /\ leaked'[t] <= leaked[t] + 1
        BY <2>3, <3>3 DEF Write, LeaveFile, Break, Goto, Typed
      <4>2. /\ leaked[t] \in Nat /\ calls[t] \in Nat
            /\ leaked[t] <= calls[t] - 1
        BY <3>1, FileOpsAssumption DEF Holding, Typed
      <4>3. leaked'[t] \in Nat
        BY ThreadTyped DEF Typed
      <4>4. leaked'[t] <= calls'[t]
        BY <3>1, <4>1, <4>2, <4>3
      <4> QED
        BY <1>0, <3>1, <4>1, <4>4
    <3> QED
      BY <3>2, <3>3
  <2>4. CASE Close(t)
    <3>1. step[t] = "close" /\ ~ fd'[t] /\ UNCHANGED <<calls, leaked>>
      BY <2>4 DEF Close, Typed
    <3> QED
      BY <1>0, <3>1 DEF Holding, Typed
  <2>5. CASE Rename(t)
    <3>1. step[t] = "rename" /\ UNCHANGED <<fd, calls, leaked>>
      BY <2>5 DEF Rename
    <3> QED
      BY <1>0, <3>1 DEF Holding, Typed
  <2> QED
    BY <2>1, <2>2, <2>3, <2>4, <2>5 DEF Thread
<1>3. \A u \in Threads : Held(u)'
  BY <1>1, <1>2
<1> QED
  BY <1>3 DEF Holding

-----------------------------------------------------------------------------
(* Descriptors and blocks. *)

LEMMA UpTo ==
    ASSUME NEW k \in Nat
    PROVE  IsFiniteSet(1 .. k) /\ Cardinality(1 .. k) = k
<1>1. /\ IsFiniteSet(1 .. k)
      /\ Cardinality(1 .. k) = IF 1 > k THEN 0 ELSE k - 1 + 1
  BY FS_Interval
<1> QED
  BY <1>1

LEMMA HeldFinite ==
    /\ IsFiniteSet(Leaked) /\ Cardinality(Leaked) \in Nat
    /\ IsFiniteSet(InUse) /\ Cardinality(InUse) \in Nat
<1>1. IsFiniteSet(Threads) /\ IsFiniteSet(1 .. MaxCalls)
  BY FileOpsAssumption, FS_Interval DEF Threads
<1>2. IsFiniteSet(Threads \X (1 .. MaxCalls))
  BY <1>1, FS_Product
<1>3. IsFiniteSet(Leaked) /\ IsFiniteSet(InUse)
  BY <1>1, <1>2, FS_Subset DEF Leaked, InUse
<1> QED
  BY <1>3, FS_CardinalityType

\* A call that leaves its descriptor open passes it from one set to the other.
LEMMA LeaveFileKeepsDescriptors ==
    ASSUME Typed, Holding, NEW t \in Threads, step[t] # "idle", LeaveFile(t)
    PROVE  Descriptors' = Descriptors
<1> USE FileOpsAssumption
<1>1. /\ fd' = [fd EXCEPT ![t] = FALSE]
      /\ leaked' = [leaked EXCEPT ![t] = IF fd[t] THEN @ + 1 ELSE @]
  BY DEF LeaveFile
<1>2. CASE fd[t]
  <2>1. leaked[t] + 1 \in 1 .. MaxCalls
    BY DEF Holding, Typed
  <2>2. /\ Leaked' = Leaked \cup {<<t, leaked[t] + 1>>}
        /\ <<t, leaked[t] + 1>> \notin Leaked
    BY <1>1, <1>2, <2>1 DEF Leaked, Typed
  <2>3. Cardinality(Leaked') = Cardinality(Leaked) + 1
    BY <2>2, HeldFinite, FS_AddElement
  <2>4. InUse' = InUse \ {t} /\ t \in InUse
    BY <1>1, <1>2 DEF InUse, Typed
  <2>5. Cardinality(InUse') = Cardinality(InUse) - 1
    BY <2>4, HeldFinite, FS_RemoveElement
  <2> QED
    BY <2>3, <2>5, HeldFinite DEF Descriptors
<1>3. CASE ~ fd[t]
  <2>1. leaked' = leaked
    BY <1>1, <1>3 DEF Typed
  <2>2. InUse' = InUse
    BY <1>1, <1>3 DEF InUse, Typed
  <2>3. Leaked' = Leaked
    BY <2>1 DEF Leaked
  <2> QED
    BY <2>2, <2>3 DEF Descriptors
<1> QED
  BY <1>2, <1>3

LEMMA RoomStep ==
    ASSUME Typed, StepOfItsProgram, Holding, Room, NEW t \in Threads, Thread(t)
    PROVE  Room'
<1> USE FileOpsAssumption
<1>0. /\ IsFiniteSet(written) /\ Cardinality(written) \in Nat
      /\ MaxBlocks \in Nat /\ MaxDescriptors \in Nat
  BY FS_CardinalityType DEF Room
<1>1. ASSUME UNCHANGED written, Descriptors' <= MaxDescriptors,
             \A u \in Threads :
                 leaked'[u] > 0 => leaked[u] > 0
                                   \/ Cardinality(written) = MaxBlocks
      PROVE  Room'
  BY <1>1 DEF Room
<1>2. ASSUME UNCHANGED <<fd, leaked>> PROVE UNCHANGED Descriptors
  BY <1>2 DEF Descriptors, InUse, Leaked
<1>3. CASE Call(t)
  BY <1>1, <1>2, <1>3 DEF Call, device, Room
<1>4. CASE Open(t)
  <2>1. UNCHANGED <<written, leaked>>
    BY <1>4 DEF Open
  <2>2. CASE Descriptors < MaxDescriptors
    <3>1. fd' = [fd EXCEPT ![t] = TRUE] /\ ~ fd[t]
      BY <1>4, <2>2 DEF Open, Holding
    <3>2. InUse' = InUse \cup {t} /\ t \notin InUse
      BY <3>1 DEF InUse, Typed
    <3>3. Cardinality(InUse') = Cardinality(InUse) + 1
      BY <3>2, HeldFinite, FS_AddElement
    <3>4. Leaked' = Leaked
      BY <2>1 DEF Leaked
    <3>5. Descriptors' <= MaxDescriptors
      BY <2>2, <3>3, <3>4, HeldFinite, <1>0 DEF Descriptors
    <3> QED
      BY <1>1, <2>1, <3>5
  <2>3. CASE ~ (Descriptors < MaxDescriptors)
    BY <1>1, <1>2, <1>4, <2>1, <2>3 DEF Open, Room
  <2> QED
    BY <2>2, <2>3
<1>5. CASE Write(t)
  <2> DEFINE f == Of(t, "file")
  <2>1. CASE fd[t] /\ HasRoom(f)
    <3>1. written' = written \cup {f} /\ UNCHANGED <<fd, leaked>>
      BY <1>5, <2>1 DEF Write
    <3>2. CASE f \in written
      <4>1. written' = written
        BY <3>1, <3>2
      <4> QED
        BY <1>1, <1>2, <3>1, <4>1 DEF Room
    <3>3. CASE f \notin written
      <4>1. Cardinality(written) < MaxBlocks
        BY <2>1, <3>3 DEF HasRoom
      <4>2. /\ IsFiniteSet(written')
            /\ Cardinality(written') = Cardinality(written) + 1
        BY <1>0, <3>1, <3>3, FS_AddElement
      <4>3. \A u \in Threads : ~ (leaked'[u] > 0)
        BY <1>0, <3>1, <4>1 DEF Room
      <4> QED
        BY <1>0, <1>2, <3>1, <4>1, <4>2, <4>3 DEF Room
    <3> QED
      BY <3>2, <3>3
  <2>2. CASE ~ (fd[t] /\ HasRoom(f))
    <3>1. LeaveFile(t) /\ step[t] # "idle"
      BY <1>5, <2>2 DEF Write
    <3>2. fd[t] => Cardinality(written) = MaxBlocks
      BY <1>0, <2>2 DEF HasRoom, Room
    <3>3. ASSUME NEW u \in Threads, leaked'[u] > 0
          PROVE  leaked[u] > 0 \/ Cardinality(written) = MaxBlocks
      BY <3>1, <3>2, <3>3 DEF LeaveFile, Typed
    <3>4. Descriptors' <= MaxDescriptors /\ UNCHANGED written
      BY <3>1, LeaveFileKeepsDescriptors DEF LeaveFile, Room
    <3> QED
      BY <1>1, <3>3, <3>4
  <2> QED
    BY <2>1, <2>2
<1>6. CASE Close(t)
  <2>1. fd' = [fd EXCEPT ![t] = FALSE] /\ UNCHANGED <<written, leaked>>
    BY <1>6 DEF Close, device
  <2>2. InUse' \in SUBSET InUse
    BY <2>1 DEF InUse, Typed
  <2>3. Cardinality(InUse') <= Cardinality(InUse) /\ Cardinality(InUse') \in Nat
    BY <2>2, HeldFinite, FS_Subset, FS_CardinalityType
  <2>4. Leaked' = Leaked
    BY <2>1 DEF Leaked
  <2>5. Descriptors' <= MaxDescriptors
    BY <1>0, <2>3, <2>4, HeldFinite DEF Descriptors, Room
  <2> QED
    BY <1>1, <2>1, <2>5
<1>7. CASE Rename(t)
  <2>1. fileOp = "rename" /\ UNCHANGED <<fd, leaked>>
    BY <1>7 DEF Rename, StepOfItsProgram
  <2>2. \A u \in Threads : ~ (leaked'[u] > 0)
    BY <2>1 DEF Holding
  <2>3. IsFiniteSet(written') /\ Cardinality(written') <= Cardinality(written)
    <3> DEFINE old == Of(t, "file")
               new == Of(t, "f")
    <3>1. CASE UNCHANGED written
      BY <1>0, <3>1
    <3>2. CASE written' = (written \ {old}) \cup {new} /\ old \in written
      <4>1. /\ IsFiniteSet(written \ {old})
            /\ Cardinality(written \ {old}) = Cardinality(written) - 1
        BY <1>0, <3>2, FS_RemoveElement
      <4>2. /\ IsFiniteSet((written \ {old}) \cup {new})
            /\ Cardinality((written \ {old}) \cup {new}) =
                   IF new \in written \ {old} THEN Cardinality(written \ {old})
                   ELSE Cardinality(written \ {old}) + 1
        BY <4>1, FS_AddElement
      <4> QED
        BY <1>0, <3>2, <4>1, <4>2
    <3>3. CASE written' = written \ {new}
      <4>1. written' \in SUBSET written
        BY <3>3
      <4> QED
        BY <1>0, <4>1, FS_Subset
    <3> QED
      BY <1>7, <3>1, <3>2, <3>3 DEF Rename, Renamed, device
  <2> QED
    <3>1. Cardinality(written') \in Nat /\ Cardinality(written') <= MaxBlocks
      BY <1>0, <2>3, FS_CardinalityType DEF Room
    <3>2. Descriptors' <= MaxDescriptors
      BY <1>2, <2>1 DEF Room
    <3> QED
      BY <2>2, <2>3, <3>1, <3>2 DEF Room
<1> QED
  BY <1>3, <1>4, <1>5, <1>6, <1>7 DEF Thread


-----------------------------------------------------------------------------
(* The names of the files. *)

LEMMA NewestStep ==
    ASSUME Typed, Newest, NEW t \in Threads, Thread(t)
    PROVE  Newest'
<1> DEFINE old == Of(t, "file")
           new == Of(t, "f")
<1> SUFFICES ASSUME NEW u \in Threads, NEW k \in Indices
             PROVE  NewestOf(u, k)'
  BY DEF Newest
<1>0. NewestOf(u, k) /\ newest \subseteq files
  BY DEF Newest, Typed
<1>1. CASE UNCHANGED <<files, created, newest>>
  BY <1>0, <1>1 DEF NewestOf
<1>2. CASE Open(t) /\ Descriptors < MaxDescriptors
  <2>1. /\ files' = files \cup {old}
        /\ created' = created \cup {<<t, i[t]>>}
        /\ newest' = IF old \in files THEN newest
                     ELSE (newest \ {new}) \cup {old}
    BY <1>2 DEF Open
  <2>2. CASE u = t /\ k = i[t]
    BY <1>0, <2>1, <2>2 DEF NewestOf, Of
  <2>3. CASE ~ (u = t /\ k = i[t])
    BY <1>0, <2>1, <2>3 DEF NewestOf, Of
  <2> QED
    BY <2>2, <2>3
<1>3. CASE Rename(t) /\ old \in files
  <2>1. /\ files' = Renamed(files, old, new)
        /\ newest' = Renamed(newest, old, new)
        /\ UNCHANGED created
    BY <1>3 DEF Rename
  <2>2. CASE u = t /\ k = i[t]
    BY <1>0, <1>3, <2>1, <2>2 DEF NewestOf, Of, Renamed
  <2>3. CASE ~ (u = t /\ k = i[t])
    BY <1>0, <1>3, <2>1, <2>3 DEF NewestOf, Of, Renamed
  <2> QED
    BY <2>2, <2>3
<1> QED
  BY <1>1, <1>2, <1>3 DEF Thread, Call, Open, Write, Close, Rename, device

\* A call moves one more file.
LEMMA OneMore ==
    ASSUME Typed, NEW t \in Threads, Rename(t), Of(t, "file") \in files,
           NEW n \in Int, n = i[t], MovedUpTo(t, n - 1)
    PROVE  MovedUpTo(t, n)'
<1> DEFINE old == <<t, "file", n>>
           new == <<t, "f", n>>
<1>1. /\ UNCHANGED <<before, program>>
      /\ files' = (files \ {old}) \cup {new} /\ old \in files
  BY DEF Rename, Renamed, Of
<1>2. start_index(t) \in Int /\ start_index(t) <= n
  BY Segments DEF Typed, Rename
<1>3. start_index(t) .. n = (start_index(t) .. n - 1) \cup {n}
  BY <1>2
<1>4. /\ Old(t, n) = Old(t, n - 1) \cup {old}
      /\ New(t, n) = New(t, n - 1) \cup {new}
  BY <1>3 DEF Old, New
<1>5. OwnFiles(t)' = (OwnFiles(t) \ {old}) \cup {new} /\ old \in OwnFiles(t)
  BY <1>1 DEF OwnFiles
<1>6. old \notin New(t, n - 1) /\ new \notin Old(t, n)
  BY DEF New, Old
<1>7. Old(t, n) \subseteq before[t]
  BY <1>4, <1>5, <1>6 DEF MovedUpTo
<1>8. OwnFiles(t)' = (before[t] \ Old(t, n)) \cup New(t, n)
  BY <1>4, <1>5, <1>6 DEF MovedUpTo
<1>9. UNCHANGED <<before, Old(t, n), New(t, n)>>
  BY <1>1 DEF Old, New, start_index, program
<1> QED
  BY <1>7, <1>8, <1>9 DEF MovedUpTo

LEMMA MovingStep ==
    ASSUME Typed, StepOfItsProgram, Moving, NEW t \in Threads, Thread(t)
    PROVE  Moving'
<1> DEFINE At(u) == step[u] = "rename" => MovedUpTo(u, i[u] - 1)
           Over(u) == step[u] = "idle" /\ calls[u] > 0 =>
                          \E last \in start_index(u) - 1 .. end_index(u) :
                              /\ MovedUpTo(u, last)
                              /\ last < end_index(u) =>
                                     <<u, "file", last + 1>> \notin before[u]
<1> SUFFICES ASSUME fileOp = "rename"
             PROVE  \A u \in Threads : At(u)' /\ Over(u)'
  BY Others DEF Moving, program
<1>0. \A u \in Threads : /\ start_index(u)' = start_index(u)
                         /\ end_index(u)' = end_index(u)
  BY Others
<1>1. ASSUME NEW u \in Threads \ {t} PROVE At(u)' /\ Over(u)'
  <2>1. /\ step'[u] = step[u] /\ i'[u] = i[u] /\ calls'[u] = calls[u]
        /\ before'[u] = before[u] /\ OwnFiles(u)' = OwnFiles(u)
    BY Others
  <2>2. ASSUME NEW n PROVE MovedUpTo(u, n)' <=> MovedUpTo(u, n)
    BY <1>0, <2>1 DEF MovedUpTo, Old, New
  <2>3. At(u)'
    <3>1. PICK n : n = i[u] - 1
      OBVIOUS
    <3> QED
      BY <2>1, <2>2, <3>1 DEF Moving
  <2>4. Over(u)'
    BY <1>0, <2>1, <2>2 DEF Moving
  <2> QED
    BY <2>3, <2>4
<1>2. At(t)' /\ Over(t)'
  <2>0. /\ start_index(t) \in Nat \ {0} /\ end_index(t) \in Nat
        /\ end_index(t) = start_index(t) + numFiles - 1 /\ numFiles \in Nat
    BY Segments
  <2>1. CASE Call(t)
    <3>1. /\ before'[t] = OwnFiles(t)' /\ i'[t] = start_index(t)
          /\ step'[t] = IF numFiles = 0 THEN "idle" ELSE "rename"
      BY <2>1 DEF Call, Goto, FirstCall, Typed, device, OwnFiles
    <3>2. PICK k \in Int : k = start_index(t) - 1
      BY <2>0
    <3>3. MovedUpTo(t, k)'
      <4>1. Old(t, k)' = {} /\ New(t, k)' = {}
        BY <1>0, <2>0, <3>2 DEF Old, New
      <4> QED
        BY <3>1, <4>1 DEF MovedUpTo
    <3>4. At(t)'
      BY <3>1, <3>2, <3>3
    <3>5. Over(t)'
      <4>1. step'[t] = "idle" => k = end_index(t)
        BY <2>0, <3>1, <3>2
      <4> QED
        BY <1>0, <2>0, <3>2, <3>3, <4>1
    <3> QED
      BY <3>4, <3>5
  <2>2. CASE Rename(t)
    <3>1. /\ step[t] = "rename" /\ UNCHANGED <<program, calls, before>>
          /\ i[t] \in start_index(t) .. end_index(t)
      BY <2>2 DEF Rename, Typed
    <3>2. PICK n \in Int : n = i[t]
      BY <2>0, <3>1
    <3>3. MovedUpTo(t, n - 1)
      BY <3>1, <3>2 DEF Moving
    <3>4. CASE Of(t, "file") \in files
      <4>1. MovedUpTo(t, n)'
        BY <2>2, <3>2, <3>3, <3>4, OneMore
      <4>2. /\ i'[t] - 1 = n
            /\ step'[t] = IF n < end_index(t) THEN "rename" ELSE "idle"
        <5>1. NextFile(t)
          BY <2>2, <3>4 DEF Rename
        <5> QED
          BY <3>1, <3>2, <5>1 DEF NextFile, Goto, FirstCall, Typed
      <4>3. At(t)'
        BY <4>1, <4>2
      <4>4. Over(t)'
        <5>1. step'[t] = "idle" => n = end_index(t)
          BY <2>0, <3>1, <3>2, <4>2
        <5> QED
          BY <1>0, <2>0, <4>1, <5>1
      <4> QED
        BY <4>3, <4>4
    <3>5. CASE Of(t, "file") \notin files
      <4>1. UNCHANGED <<files, i>> /\ step'[t] = "idle"
        BY <2>2, <3>5 DEF Rename, Break, Goto, Typed, device
      <4>2. PICK m \in Int : m = n - 1
        OBVIOUS
      <4>3. MovedUpTo(t, m)'
        <5>1. UNCHANGED <<before, OwnFiles(t), Old(t, m), New(t, m)>>
          BY <1>0, <3>1, <4>1 DEF OwnFiles, Old, New
        <5> QED
          BY <3>3, <4>2, <5>1 DEF MovedUpTo
      <4>4. <<t, "file", m + 1>> \notin before'[t]
        <5>1. m + 1 = n /\ n \notin start_index(t) .. m
          BY <2>0, <4>2
        <5>2. <<t, "file", n>> \notin Old(t, m)
          BY <5>1 DEF Old
        <5>3. <<t, "file", n>> \notin OwnFiles(t)
          BY <3>2, <3>5 DEF OwnFiles, Of
        <5> QED
          BY <3>1, <3>3, <4>2, <5>1, <5>2, <5>3 DEF MovedUpTo
      <4>5. m \in start_index(t) - 1 .. end_index(t)
        BY <2>0, <3>1, <3>2, <4>2
      <4> QED
        BY <1>0, <4>1, <4>3, <4>4, <4>5
    <3> QED
      BY <3>4, <3>5
  <2> QED
    BY <2>1, <2>2
    DEF Thread, Open, Write, Close, StepOfItsProgram
<1> QED
  BY <1>1, <1>2


-----------------------------------------------------------------------------
(***************************************************************************)
(* The invariant, and what follows from it.                                *)
(***************************************************************************)
\* With no thread in a call the process has no descriptor.
LEMMA NothingHeld ==
    ASSUME \A t \in Threads : fd[t] = FALSE /\ leaked[t] = 0
    PROVE  Descriptors = 0
<1>1. InUse = {} /\ Leaked = {}
  BY DEF InUse, Leaked
<1> QED
  BY <1>1, FS_EmptySet DEF Descriptors

LEMMA FileOpsInit == Init => FileOpsInv
<1> SUFFICES ASSUME Init PROVE FileOpsInv
  OBVIOUS
<1> USE FileOpsAssumption
<1>0. numFiles \in Nat
  BY DEF Init
<1>1. \A t \in Threads : /\ step[t] = "idle" /\ i[t] = 0 /\ fd[t] = FALSE
                         /\ calls[t] = 0 /\ leaked[t] = 0 /\ before[t] = {}
  BY DEF Init
<1>2. Typed
  <2>1. ASSUME NEW t \in Threads PROVE end_index(t) \in Nat
    BY <1>0 DEF end_index, Threads
  <2>2. 1 \in 1 .. MaxPrograms
    OBVIOUS
  <2> QED
    BY <1>1, <2>1, <2>2 DEF Init, Typed
<1>3. Room
  BY <1>1, NothingHeld, FS_EmptySet DEF Init, Room
<1>4. StepOfItsProgram /\ Holding /\ Newest /\ Moving
  BY <1>1 DEF Init, StepOfItsProgram, Holding, Newest, NewestOf, Moving
<1> QED
  BY <1>2, <1>3, <1>4 DEF FileOpsInv

LEMMA NothingHeldNext ==
    ASSUME \A t \in Threads : fd'[t] = FALSE /\ leaked'[t] = 0
    PROVE  Descriptors' = 0
<1>1. InUse' = {} /\ Leaked' = {}
  BY DEF InUse, Leaked
<1> QED
  BY <1>1, FS_EmptySet DEF Descriptors

\* A program that starts has nothing of its predecessor but the device.
LEMMA NextProgramStep ==
    ASSUME FileOpsInv, NextProgram
    PROVE  FileOpsInv'
<1> USE FileOpsAssumption
<1>1. \A t \in Threads : /\ step'[t] = "idle" /\ i'[t] = 0 /\ fd'[t] = FALSE
                         /\ calls'[t] = 0 /\ leaked'[t] = 0 /\ before'[t] = {}
  BY DEF NextProgram, StartProgram
<1>2. Typed'
  <2>1. numFiles' \in Nat
    BY DEF NextProgram, StartProgram
  <2>2. ASSUME NEW t \in Threads PROVE end_index(t)' \in Nat
    <3>1. t \in Nat
      BY DEF Threads
    <3> QED
      BY <2>1, <3>1, LinearNat DEF end_index
  <2>3. programs' \in 1 .. MaxPrograms
    BY DEF NextProgram, FileOpsInv, Typed
  <2>4. /\ files' \subseteq Files /\ written' \subseteq files'
        /\ created' \subseteq Threads \X Indices /\ newest' \subseteq files'
    BY DEF NextProgram, FileOpsInv, Typed, device
  <2> QED
    BY <1>1, <2>2, <2>3, <2>4 DEF NextProgram, StartProgram, Typed
<1>3. Room'
  <2>1. Descriptors' <= MaxDescriptors
    <3>1. Descriptors' = 0
      BY <1>1, NothingHeldNext
    <3> QED
      BY <3>1
  <2>2. ~ \E t \in Threads : leaked'[t] > 0
    BY <1>1
  <2> QED
    BY <2>1, <2>2 DEF NextProgram, FileOpsInv, Room, device
<1>4. (StepOfItsProgram /\ Holding /\ Moving)'
  BY <1>1 DEF StepOfItsProgram, Holding, Moving
<1>5. Newest'
  BY DEF NextProgram, FileOpsInv, Newest, NewestOf, device
<1> QED
  BY <1>2, <1>3, <1>4, <1>5 DEF FileOpsInv

LEMMA FileOpsStep == FileOpsInv /\ [Next]_vars => FileOpsInv'
<1> SUFFICES ASSUME FileOpsInv, [Next]_vars PROVE FileOpsInv'
  OBVIOUS
<1>1. ASSUME NEW t \in Threads, Thread(t) PROVE FileOpsInv'
  BY <1>1, ThreadTyped, StepOfItsProgramStep, HoldingStep, RoomStep,
     NewestStep, MovingStep DEF FileOpsInv
<1>2. CASE UNCHANGED vars
  <2>1. UNCHANGED <<device, program, local>>
    BY <1>2 DEF vars
  <2>2. Typed' /\ StepOfItsProgram' /\ Holding'
    BY <2>1 DEF device, program, local, FileOpsInv, Typed, StepOfItsProgram,
                Holding, Of, start_index, end_index
  <2>3. Room' /\ Newest'
    BY <2>1 DEF device, local, FileOpsInv, Room, Descriptors, InUse, Leaked,
                Newest, NewestOf
  <2>4. Moving'
    BY <2>1 DEF device, program, local, FileOpsInv, Moving, MovedUpTo, Old,
                New, OwnFiles, start_index, end_index
  <2> QED
    BY <2>2, <2>3, <2>4 DEF FileOpsInv
<1> QED
  BY <1>1, <1>2, NextProgramStep DEF Next, AllOver

\* The parts of the invariant hold in every state: whichever program runs,
\* however many ran before it and wherever they were interrupted
\* (file_ops.cpp:86).
THEOREM FileOpsInvariant == Spec => []FileOpsInv
BY FileOpsInit, FileOpsStep, PTL DEF Spec

\* The files stay within the segments of their threads, and the process and
\* the device within their limits (file_ops.cpp:53).
THEOREM FileOpsTypeCorrect == Spec => []TypeOK
<1>1. FileOpsInv => TypeOK
  BY DEF FileOpsInv, Typed, Room, TypeOK
<1> QED
  BY <1>1, FileOpsInvariant, PTL

\* A descriptor is left open by the break after a failed write, which takes a
\* full device, and by nothing else: a program that does not fill the device
\* gives all of them back (fcreate_write, file_ops.cpp:100).
THEOREM OnlyFullDevicesLeak == Spec => []LeaksOnFullDeviceOnly
<1>1. FileOpsInv => LeaksOnFullDeviceOnly
  <2> SUFFICES ASSUME FileOpsInv, NEW t \in Threads
               PROVE  /\ fd[t] => step[t] \in {"write", "close"}
                      /\ leaked[t] > 0 => /\ Cardinality(written) = MaxBlocks
                                          /\ leaked[t] <= calls[t]
    BY DEF LeaksOnFullDeviceOnly
  <2>1. calls[t] \in Int /\ leaked[t] \in Int
    BY FileOpsAssumption DEF FileOpsInv, Typed
  <2> QED
    BY <2>1 DEF FileOpsInv, Holding, Room
<1> QED
  BY <1>1, FileOpsInvariant, PTL

\* Neither an interleaving of the threads nor an interruption loses the file
\* created last with a number: what a rename replaces is an older one
\* (frename, file_ops.cpp:110).
THEOREM FilesSurvive == Spec => []NewestFilesSurvive
<1>1. FileOpsInv => NewestFilesSurvive
  <2> SUFFICES ASSUME FileOpsInv, NEW t \in Threads, NEW k \in Indices,
                      <<t, k>> \in created
               PROVE  \E base \in {"file", "f"} :
                          <<t, base, k>> \in newest \cap files
    BY DEF NewestFilesSurvive
  <2> QED
    BY DEF FileOpsInv, Newest, NewestOf, Typed
<1> QED
  BY <1>1, FileOpsInvariant, PTL

\* Where the first gap is decides what a call of frename moves: a gap left by
\* an earlier program, or by an earlier call, hides all the files behind it
\* (file_ops.cpp:107).
THEOREM AGapStopsRename == Spec => []RenameMovesThoseBeforeAGap
<1>1. FileOpsInv => RenameMovesThoseBeforeAGap
  <2> SUFFICES ASSUME FileOpsInv, fileOp = "rename", NEW t \in Threads,
                      step[t] = "idle", calls[t] > 0
               PROVE  LET moved == {k \in start_index(t) .. end_index(t) :
                                      \A j \in start_index(t) .. k :
                                          <<t, "file", j>> \in before[t]}
                          oldNames == {<<t, "file", k>> : k \in moved}
                          newNames == {<<t, "f", k>> : k \in moved}
                      IN  OwnFiles(t) = (before[t] \ oldNames) \cup newNames
    BY DEF RenameMovesThoseBeforeAGap
  <2> DEFINE moved == {k \in start_index(t) .. end_index(t) :
                         \A j \in start_index(t) .. k :
                             <<t, "file", j>> \in before[t]}
  <2>1. PICK last \in start_index(t) - 1 .. end_index(t) :
            /\ MovedUpTo(t, last)
            /\ last < end_index(t) => <<t, "file", last + 1>> \notin before[t]
    BY DEF FileOpsInv, Moving
  <2>2. /\ start_index(t) \in Int /\ end_index(t) \in Int
        /\ last \in Int /\ last <= end_index(t)
    BY Segments DEF FileOpsInv
  <2>3. ASSUME NEW j \in start_index(t) .. last
        PROVE  <<t, "file", j>> \in before[t]
    BY <2>1 DEF MovedUpTo, Old
  <2>4. start_index(t) .. last \subseteq moved
    BY <2>2, <2>3
  <2>5. ASSUME NEW k \in moved PROVE k \in start_index(t) .. last
    <3>1. CASE k > last
      <4>1. last + 1 \in start_index(t) .. k /\ last < end_index(t)
        BY <2>1, <2>2, <2>5, <3>1
      <4> QED
        BY <2>1, <2>5, <4>1
    <3> QED
      BY <2>2, <2>5, <3>1
  <2>6. moved = start_index(t) .. last
    BY <2>4, <2>5
  <2> HIDE DEF moved
  <2> QED
    BY <2>1, <2>6 DEF MovedUpTo, Old, New, moved
<1> QED
  BY <1>1, FileOpsInvariant, PTL
=============================================================================
