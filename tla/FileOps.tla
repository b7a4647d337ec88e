------------------------------- MODULE FileOps -------------------------------
(***************************************************************************)
(* file_ops.cpp: fcreate, fcreate_write and frename over the files of one  *)
(* thread, for all the threads of a program, in one program after another  *)
(* over the same directories, as fileOps_test.sh runs them.  A program may *)
(* be interrupted at any moment.                                           *)
(*                                                                         *)
(* The kernel's part is external: a process has a number of descriptors,   *)
(* the device room for a number of blocks, and rename replaces its target. *)
(***************************************************************************)
EXTENDS Integers, FiniteSets

CONSTANTS
    ThreadCount,     \* -tc, the same for all the programs
    NumFiles,        \* the values of -n
    MaxDescriptors,  \* what the kernel grants a process
    MaxBlocks,       \* files with contents that the device has room for
    MaxPrograms,     \* bound: programs run, one after another
    MaxCalls         \* bound: calls of the FUT by one thread of a program

Threads == 0 .. ThreadCount - 1

ASSUME FileOpsAssumption ==
    /\ {ThreadCount, MaxPrograms} \subseteq Nat \ {0}
    /\ NumFiles \subseteq Nat
    /\ {MaxDescriptors, MaxBlocks, MaxCalls} \subseteq Nat

fileOps == {"create", "create_write", "rename"}
Indices == UNION {1 .. ThreadCount * n : n \in NumFiles}

\* A file is <<t, base, i>>: its directory, which is thread t's, "file" for
\* fileName or "f" for newFileName, and the number behind it.
Files == Threads \X {"file", "f"} \X Indices

VARIABLES
    files,     \* the files there are
    written,   \* those with contents
    created,   \* <<t, k>>: a file has been created with number k
    newest,    \* the names of those created last with their number
    fileOp, numFiles,  \* the command line of the program that runs
    programs,  \* programs begun
    step,      \* step[t]: the system call thread t is to make, or "idle"
    i,         \* i[t]: the number of the file thread t is at
    fd,        \* fd[t]: has thread t a descriptor?
    calls,     \* calls[t]: calls begun by thread t
    leaked,    \* leaked[t]: descriptors that thread t has left open
    before     \* before[t]: the files there were when t's call began

device == <<files, written, created, newest>>
program == <<fileOp, numFiles, programs>>
local == <<step, i, fd, calls, leaked, before>>
vars == <<device, program, local>>

StartProgram ==
    /\ fileOp' \in fileOps /\ numFiles' \in NumFiles
    /\ step' = [t \in Threads |-> "idle"]
    /\ i' = [t \in Threads |-> 0]
    /\ fd' = [t \in Threads |-> FALSE]
    /\ calls' = [t \in Threads |-> 0]
    /\ leaked' = [t \in Threads |-> 0]
    /\ before' = [t \in Threads |-> {}]

Init ==
    /\ files = {} /\ written = {} /\ created = {} /\ newest = {}
    /\ fileOp \in fileOps /\ numFiles \in NumFiles
    /\ programs = 1
    /\ step = [t \in Threads |-> "idle"]
    /\ i = [t \in Threads |-> 0]
    /\ fd = [t \in Threads |-> FALSE]
    /\ calls = [t \in Threads |-> 0]
    /\ leaked = [t \in Threads |-> 0]
    /\ before = [t \in Threads |-> {}]

start_index(t) == t * numFiles + 1
end_index(t) == t * numFiles + numFiles

FirstCall == IF fileOp = "rename" THEN "rename" ELSE "open"

Of(t, base) == <<t, base, i[t]>>
OwnFiles(t) == {f \in files : f[1] = t}
Goto(t, place) == step' = [step EXCEPT ![t] = place]

\* The segment of a thread ends with the first file of the next.
NextFile_OneTooMany(t) ==
    /\ i' = [i EXCEPT ![t] = @ + 1]
    /\ Goto(t, IF i[t] <= end_index(t) THEN FirstCall ELSE "idle")

\* The for loop goes on to the next file, or the function returns.
NextFile(t) ==
    /\ i' = [i EXCEPT ![t] = @ + 1]
    /\ Goto(t, IF i[t] < end_index(t) THEN FirstCall ELSE "idle")

Break(t) == Goto(t, "idle") /\ UNCHANGED i

Call(t) ==
    /\ step[t] = "idle" /\ calls[t] < MaxCalls
    /\ calls' = [calls EXCEPT ![t] = @ + 1]
    /\ before' = [before EXCEPT ![t] = OwnFiles(t)]
    /\ i' = [i EXCEPT ![t] = start_index(t)]
    /\ Goto(t, IF numFiles = 0 THEN "idle" ELSE FirstCall)
    /\ UNCHANGED <<device, program, fd, leaked>>

\* The n-th descriptor that thread t has left open is <<t, n>>.
Leaked == {d \in Threads \X (1 .. MaxCalls) : d[2] <= leaked[d[1]]}
InUse == {t \in Threads : fd[t]}
Descriptors == Cardinality(InUse) + Cardinality(Leaked)

\* open with O_CREAT and without O_TRUNC: the file is there afterwards, with
\* the contents it had.  Nobody looks at the descriptor.
Open(t) ==
    /\ step[t] = "open"
    /\ Goto(t, IF fileOp = "create" THEN "close" ELSE "write")
    /\ IF Descriptors < MaxDescriptors
       THEN /\ fd' = [fd EXCEPT ![t] = TRUE]
            /\ files' = files \cup {Of(t, "file")}
            /\ created' = created \cup {<<t, i[t]>>}
            /\ newest' = IF Of(t, "file") \in files THEN newest
                         ELSE (newest \ {Of(t, "f")}) \cup {Of(t, "file")}
       ELSE UNCHANGED <<fd, files, created, newest>>
    /\ UNCHANGED <<written, program, i, calls, leaked, before>>

\* The break comes before the close.
LeaveFile(t) ==
    /\ Break(t)
    /\ fd' = [fd EXCEPT ![t] = FALSE]
    /\ leaked' = [leaked EXCEPT ![t] = IF fd[t] THEN @ + 1 ELSE @]
    /\ UNCHANGED written

HasRoom(f) == f \in written \/ Cardinality(written) < MaxBlocks

Write(t) ==
    /\ step[t] = "write"
    /\ IF fd[t] /\ HasRoom(Of(t, "file"))
       THEN /\ written' = written \cup {Of(t, "file")}
            /\ Goto(t, "close")
            /\ UNCHANGED <<i, fd, leaked>>
       ELSE LeaveFile(t)
    /\ UNCHANGED <<files, created, newest, program, calls, before>>

\* Only the last file of a call is closed.
Close_AfterTheLoop(t) ==
    /\ step[t] = "close"
    /\ NextFile(t)
    /\ fd' = [fd EXCEPT ![t] = FALSE]
    /\ leaked' = [leaked EXCEPT ![t] =
                      IF fd[t] /\ i[t] < end_index(t) THEN @ + 1 ELSE @]
    /\ UNCHANGED <<device, program, calls, before>>

\* close(-1), after an open that has failed, does nothing.
Close(t) ==
    /\ step[t] = "close"
    /\ NextFile(t)
    /\ fd' = [fd EXCEPT ![t] = FALSE]
    /\ UNCHANGED <<device, program, calls, leaked, before>>

Renamed(set, old, new) == IF old \in set THEN (set \ {old}) \cup {new}
                                         ELSE set \ {new}

\* The number is left out of the new name: all the files get the same one.
Rename_OneTarget(t) ==
    LET old == Of(t, "file")
        new == <<t, "f", start_index(t)>>
    IN  /\ step[t] = "rename"
        /\ IF old \in files
           THEN /\ files' = Renamed(files, old, new)
                /\ written' = Renamed(written, old, new)
                /\ newest' = Renamed(newest, old, new)
                /\ UNCHANGED created
                /\ NextFile(t)
           ELSE Break(t) /\ UNCHANGED device
        /\ UNCHANGED <<program, fd, calls, leaked, before>>

\* A file that is missing is passed over.
Rename_GoesOn(t) ==
    LET old == Of(t, "file")
        new == Of(t, "f")
    IN  /\ step[t] = "rename"
        /\ IF old \in files
           THEN /\ files' = Renamed(files, old, new)
                /\ written' = Renamed(written, old, new)
                /\ newest' = Renamed(newest, old, new)
                /\ UNCHANGED created
           ELSE UNCHANGED device
        /\ NextFile(t)
        /\ UNCHANGED <<program, fd, calls, leaked, before>>

\* rename fails when the old file is missing, and ends the call.
Rename(t) ==
    LET old == Of(t, "file")
        new == Of(t, "f")
    IN  /\ step[t] = "rename"
        /\ IF old \in files
           THEN /\ files' = Renamed(files, old, new)
                /\ written' = Renamed(written, old, new)
                /\ newest' = Renamed(newest, old, new)
                /\ UNCHANGED created
                /\ NextFile(t)
           ELSE Break(t) /\ UNCHANGED device
        /\ UNCHANGED <<program, fd, calls, leaked, before>>

Thread(t) == Call(t) \/ Open(t) \/ Write(t) \/ Close(t) \/ Rename(t)

\* The program ends, by itself or by ^C in the middle of anything, and the
\* next one starts.
NextProgram ==
    /\ programs < MaxPrograms /\ programs' = programs + 1
    /\ StartProgram
    /\ UNCHANGED device

\* MaxPrograms programs have run, and the calls of the last are over.
AllOver ==
    /\ programs = MaxPrograms
    /\ \A t \in Threads : step[t] = "idle" /\ calls[t] = MaxCalls
    /\ UNCHANGED vars

Next ==
    \/ \E t \in Threads : Thread(t)
    \/ NextProgram
    \/ AllOver

Spec == Init /\ [][Next]_vars

-----------------------------------------------------------------------------

TypeOK ==
    /\ files \subseteq Files /\ written \subseteq files
    /\ created \subseteq Threads \X Indices /\ newest \subseteq files
    /\ Cardinality(written) <= MaxBlocks
    /\ fileOp \in fileOps /\ numFiles \in NumFiles
    /\ programs \in 1 .. MaxPrograms
    /\ step \in [Threads -> {"idle", "open", "write", "close", "rename"}]
    /\ \A t \in Threads :
        /\ i[t] \in 0 .. end_index(t) + 1
        /\ step[t] # "idle" => i[t] \in start_index(t) .. end_index(t)
        /\ calls[t] \in 0 .. MaxCalls
        /\ before[t] \subseteq Files
    /\ fd \in [Threads -> BOOLEAN] /\ leaked \in [Threads -> Nat]
    /\ Descriptors <= MaxDescriptors

\* A call gives back the descriptors it has taken, but for the one it holds
\* when a write fails: a program that does not fill the device never runs out
\* of descriptors, however long it runs (fcreate_write, file_ops.cpp:100).
LeaksOnFullDeviceOnly ==
    \A t \in Threads :
        /\ fd[t] => step[t] \in {"write", "close"}
        /\ leaked[t] > 0 => /\ Cardinality(written) = MaxBlocks
                            /\ leaked[t] <= calls[t]

\* rename replaces a file that already has the new name, and fcreate takes
\* the old name again: of the files created with one number only the last is
\* safe.  It is there whatever has been called and interrupted since, under
\* its old name or its new one, because each f<k> is older than a file<k>
\* beside it (frename, file_ops.cpp:110).
NewestFilesSurvive ==
    \A t \in Threads, k \in Indices :
        <<t, k>> \in created =>
            \E base \in {"file", "f"} : <<t, base, k>> \in newest \cap files

\* A call of frename moves the thread's files from the first one on, up to
\* the first that is missing, and no others: the rest stay behind, and so
\* does everything when a program with another -n made the files
\* (file_ops.cpp:107).
RenameMovesThoseBeforeAGap ==
    fileOp = "rename" =>
        \A t \in Threads :
            LET moved == {k \in start_index(t) .. end_index(t) :
                            \A j \in start_index(t) .. k :
                                <<t, "file", j>> \in before[t]}
                oldNames == {<<t, "file", k>> : k \in moved}
                newNames == {<<t, "f", k>> : k \in moved}
            IN  step[t] = "idle" /\ calls[t] > 0 =>
                    OwnFiles(t) = (before[t] \ oldNames) \cup newNames
=============================================================================
