---------------------------- MODULE FileTransfer ----------------------------
(***************************************************************************)
(* The functions under test of file_rd.cpp and file_wr.cpp, called again   *)
(* and again by one thread.  Each thread has a file and a descriptor of    *)
(* its own, opened once before the threads start, so that one thread is    *)
(* all there is to see.                                                    *)
(*                                                                         *)
(* The kernel's part is external: a descriptor has an offset; read stops   *)
(* at the end of the file; write extends the file until the device is      *)
(* full, and may then write less than it was asked to.                     *)
(***************************************************************************)
EXTENDS Integers, FiniteSetsExt

CONSTANTS
    Functions,    \* "read_forward", "read_backward", "write_forward"
    FileLengths,  \* -f
    BlockSizes,   \* -b
    Capacity,     \* bytes on the device
    MaxCalls      \* bound: calls of the function under test

ASSUME TransferAssumption ==
    /\ Functions \subseteq {"read_forward", "read_backward", "write_forward"}
    /\ FileLengths \subseteq Nat
    /\ BlockSizes \subseteq Nat \ {0}
    /\ Capacity \in Nat /\ MaxCalls \in Nat

VARIABLES
    fptr, fileLength, blockSize,  \* the command line
    opened,    \* has open succeeded?
    size,      \* the length of the file
    offset,    \* the descriptor's
    running,   \* is a call in progress?
    fileSize,  \* the call's local variable: what is left to transfer
    calls,     \* calls begun
    touched,   \* the bytes the current, or last, call has transferred
    earlier    \* those of the calls before it

setUp == <<fptr, fileLength, blockSize, opened>>
vars == <<setUp, size, offset, running, fileSize, calls, touched, earlier>>

Init ==
    /\ fptr \in Functions
    /\ fileLength \in FileLengths /\ blockSize \in BlockSizes
    /\ opened \in BOOLEAN
    /\ size \in 0 .. Capacity
    /\ offset = 0
    /\ running = FALSE /\ fileSize = 0
    /\ calls = 0 /\ touched = {} /\ earlier = {}

Call ==
    /\ ~ running /\ calls < MaxCalls
    /\ running' = TRUE /\ fileSize' = fileLength
    /\ calls' = calls + 1
    /\ touched' = {} /\ earlier' = earlier \cup touched
    /\ UNCHANGED <<setUp, size, offset>>

\* A last chunk as long as the others.
chunk_NotCut == blockSize

\* readSize, writeSize: the last chunk of a call is what is left.
chunk == IF blockSize > fileSize THEN fileSize ELSE blockSize

\* The break out of the loop, or its end.
Return ==
    /\ running' = FALSE
    /\ UNCHANGED <<setUp, size, fileSize, calls, touched, earlier>>

\* read(fd, buf, chunk) with the descriptor at position.  The code goes on by
\* a whole chunk, whatever read has returned.
ReadAt(position) ==
    LET n == IF opened THEN Min({chunk, size - position}) ELSE -1
    IN  IF n <= 0
        THEN Return /\ offset' = position
        ELSE /\ offset' = position + n
             /\ touched' = touched \cup (position .. position + n - 1)
             /\ fileSize' = fileSize - chunk
             /\ UNCHANGED <<setUp, size, running, calls, earlier>>

ReadForward ==
    /\ running /\ fptr = "read_forward" /\ fileSize > 0
    /\ ReadAt(offset)

\* The position of the end of the chunk is taken for that of its start.
ReadBackward_FromItsEnd ==
    /\ running /\ fptr = "read_backward" /\ fileSize > 0
    /\ IF opened /\ fileSize > chunk
       THEN ReadAt(fileSize)
       ELSE Return /\ offset' = IF opened THEN fileSize - chunk ELSE offset

\* lseek returns the new position, which is zero for the first chunk of the
\* file: the loop takes that for an error.
ReadBackward ==
    /\ running /\ fptr = "read_backward" /\ fileSize > 0
    /\ IF opened /\ fileSize > chunk
       THEN ReadAt(fileSize - chunk)
       ELSE Return /\ offset' = IF opened THEN fileSize - chunk ELSE offset

\* pwrite, at a position that every call starts from zero.
WriteForward_Overwrites ==
    /\ running /\ fptr = "write_forward" /\ fileSize > 0
    /\ LET position == fileLength - fileSize
           n == IF opened THEN Min({chunk, Capacity - position}) ELSE -1
       IN  IF n <= 0
           THEN Return /\ UNCHANGED offset
           ELSE /\ offset' = position + n
                /\ size' = Max({size, position + n})
                /\ touched' = touched \cup (position .. position + n - 1)
                /\ fileSize' = fileSize - chunk
                /\ UNCHANGED <<setUp, running, calls, earlier>>

WriteForward ==
    /\ running /\ fptr = "write_forward" /\ fileSize > 0
    /\ LET n == IF opened THEN Min({chunk, Capacity - offset}) ELSE -1
       IN  IF n <= 0
           THEN Return /\ UNCHANGED offset
           ELSE /\ offset' = offset + n
                /\ size' = Max({size, offset + n})
                /\ touched' = touched \cup (offset .. offset + n - 1)
                /\ fileSize' = fileSize - chunk
                /\ UNCHANGED <<setUp, running, calls, earlier>>

EndOfLoop ==
    /\ running /\ fileSize <= 0
    /\ Return
    /\ UNCHANGED offset

\* MaxCalls calls have been made.
AllDone == ~ running /\ calls = MaxCalls /\ UNCHANGED vars

Next ==
    \/ Call
    \/ ReadForward
    \/ ReadBackward
    \/ WriteForward
    \/ EndOfLoop
    \/ AllDone

Spec == Init /\ [][Next]_vars

-----------------------------------------------------------------------------

TypeOK ==
    /\ fptr \in Functions /\ opened \in BOOLEAN /\ running \in BOOLEAN
    /\ fileLength \in FileLengths /\ blockSize \in BlockSizes
    /\ size \in 0 .. Capacity /\ offset \in 0 .. Max({size, fileLength})
    /\ fileSize \in 0 .. fileLength
    /\ calls \in 0 .. MaxCalls
    /\ touched \subseteq 0 .. Capacity - 1 /\ earlier \subseteq 0 .. Capacity - 1

HasReturned == ~ running /\ calls > 0 /\ opened

\* Forward calls read the file once between them: each goes on where the last
\* has stopped, and when the end is reached the following calls read nothing,
\* fast as they are (read_forward, file_rd.cpp:88).
ForwardReadsOnce ==
    fptr = "read_forward" =>
        /\ touched \cap earlier = {}
        /\ HasReturned => touched \cup earlier =
                            0 .. Min({calls * fileLength, size}) - 1

\* A backward call reads the file but for the chunk at its start: the short
\* one, if there is one (read_backward, file_rd.cpp:111).
BackwardSkipsFirstChunk ==
    fptr = "read_backward" /\ HasReturned /\ fileLength \in 1 .. size =>
        touched = {i \in 0 .. fileLength - 1 :
                       i > (fileLength - 1) % blockSize}

\* Every call writes the whole length behind what the calls before it have
\* written, until the device is full: no part of the file is written twice
\* (write_forward, file_wr.cpp:77).
WritesAreAppended ==
    fptr = "write_forward" =>
        /\ touched \cap earlier = {}
        /\ HasReturned => /\ touched \cup earlier =
                               0 .. Min({calls * fileLength, Capacity}) - 1
                          /\ touched \cup earlier \subseteq 0 .. size - 1
=============================================================================
