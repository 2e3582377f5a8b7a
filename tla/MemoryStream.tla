---------------------------- MODULE MemoryStream ----------------------------
(***************************************************************************)
(* MemoryStream.cpp: the offsets of a stream and what its operations do to *)
(* them.  The callers check what OnRead and OnWrite CRASH on.              *)
(***************************************************************************)
EXTENDS Integers, Sequences

\* A buffer of the given capacity whose first bytes hold data: SetBuffer, and
\* what the constructors make of memory of their own or of a caller's.
SetBuffer(length, capacity) ==
    [front_ |-> 0, rear_ |-> length, capacity_ |-> capacity, length_ |-> length,
     space_ |-> capacity - length]

OnRead(s, n) == [s EXCEPT !.front_ = @ + n, !.space_ = @ + n, !.length_ = @ - n]

OnWrite(s, n) == [s EXCEPT !.rear_ = @ + n, !.space_ = @ - n, !.length_ = @ + n]

\* The data move to the beginning, unless they fill the buffer.
CleanUp(s) ==
    IF s.length_ = s.capacity_ /\ s.length_ # 0 THEN s
    ELSE [s EXCEPT !.front_ = 0, !.rear_ = s.length_]

\* Mutant: the data stay where they are.
CleanUpDataStays(s, data) == data

\* What CleanUp does to the contents: memcpy_s, when something has to move.
\* The regions may overlap; the memcpy of Visual C++ moves them as memmove.
CleanUpData(s, data) ==
    IF s.length_ \in {0, s.capacity_} THEN data
    ELSE [p \in DOMAIN data |-> IF p < s.length_ THEN data[p + s.front_] ELSE data[p]]

-----------------------------------------------------------------------------

\* What is copied to GetBufferRear in a buffer that begins at base.
CopyTo(data, base, s, bytes) ==
    [p \in DOMAIN data |-> IF p \in base + s.rear_ .. base + s.rear_ + Len(bytes) - 1
                           THEN bytes[p - base - s.rear_ + 1] ELSE data[p]]

\* What GetDataSegment copies, and StreamReader::Peek of n bytes.
GetDataSegment(s, data) == [i \in 1 .. s.length_ |-> data[s.front_ + i - 1]]

\* StreamReader::Peek, and Read, have that many bytes to give.
CanRead(s, n) == n <= s.length_

\* Mutant: the space is not looked at.
CanWriteAlways(s, n) == TRUE

\* StreamWriter::Write has room for that many; it writes none of them if not.
CanWrite(s, n) == n <= s.space_

=============================================================================
