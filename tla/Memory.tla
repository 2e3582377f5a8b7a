-------------------------------- MODULE Memory --------------------------------
(***************************************************************************)
(* The table of Memory (Memory.cpp): which pool a request is served from,  *)
(* and what the header of a block remembers of its size.                   *)
(***************************************************************************)
EXTENDS Integers, FiniteSetsExt

MAX_ALLOC_SIZE == 4096

\* The pools that the constructor makes in its three loops.
PoolSizes == {32 * i : i \in 1 .. 31}
                 \cup {1024 + 128 * i : i \in 0 .. 7}
                 \cup {2048 + 256 * i : i \in 0 .. 8}

\* pool_table_[size]: each loop fills the table up to the size of its pool.
PoolSize(size) == Min({s \in PoolSizes : size <= s})

\* The values of a short are those from -SHORT to SHORT - 1.
SHORT == 32 * 1024

\* Mutant: the header keeps the whole size.
HeaderSizeWide(size) == size

\* BlockHeader::size: an unsigned short on the way, a short in the header.
HeaderSize(size) ==
    LET low == size % (2 * SHORT) IN IF low < SHORT THEN low ELSE low - 2 * SHORT

=============================================================================
