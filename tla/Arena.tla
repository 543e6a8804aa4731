-------------------------------- MODULE Arena --------------------------------
(***************************************************************************)
(* The arena that the values of a result lie in: _arena_alloc cuts blocks  *)
(* off the newest chunk and takes a new chunk when the block does not fit  *)
(* (src/lib4d_sql/fourd_interne.c).  That all chunks are given back with   *)
(* the result is PageMemory's concern.                                     *)
(* A chunk is known by its number, a byte by its chunk and its offset.     *)
(***************************************************************************)
EXTENDS Naturals, Sequences

CONSTANTS ChunkSize       \* FOURD_ARENA_CHUNK_SIZE

ASSUME ArenaAssumption == ChunkSize \in Nat

VARIABLES chunks,         \* the chunks, newest last: bytes used and capacity
          blocks          \* history: the blocks given out, in order

arenaVars == <<chunks, blocks>>

ArenaInit == chunks = <<>> /\ blocks = <<>>

(* The size a block takes up: the next multiple of 8.                      *)
RoundedUnaligned(n) == n                                   \* mutant of Rounded
Rounded(n) == ((n + 7) \div 8) * 8

Newest == Len(chunks)
Fits(s) == Newest > 0 /\ chunks[Newest].cap - chunks[Newest].used >= s

(* Where the next block of n bytes begins.                                 *)
Place(n) ==
    IF Fits(Rounded(n)) THEN [chunk |-> Newest, at |-> chunks[Newest].used, size |-> n]
                        ELSE [chunk |-> Newest + 1, at |-> 0, size |-> n]

Alloc(n) ==
    LET s == Rounded(n)
    IN  /\ chunks' = IF Fits(s)
                     THEN [chunks EXCEPT ![Newest].used = @ + s]
                     ELSE Append(chunks, [used |-> s,
                                          cap |-> IF s > ChunkSize THEN s ELSE ChunkSize])
        /\ blocks' = Append(blocks, Place(n))

-----------------------------------------------------------------------------
(* Every block lies in the used part of its chunk, no byte of it outside,  *)
(* and begins at a multiple of 8, as the C types need that are put there.  *)
BlocksFit ==
    \A i \in DOMAIN blocks :
        LET b == blocks[i]
        IN  /\ b.chunk \in DOMAIN chunks
            /\ b.at + b.size <= chunks[b.chunk].used
            /\ chunks[b.chunk].used <= chunks[b.chunk].cap
            /\ b.at % 8 = 0

(* No two blocks share a byte.                                             *)
BlocksAreDisjoint ==
    \A i, j \in DOMAIN blocks :
        i # j /\ blocks[i].chunk = blocks[j].chunk =>
            \/ blocks[i].at + blocks[i].size <= blocks[j].at
            \/ blocks[j].at + blocks[j].size <= blocks[i].at

(* What every caller of _arena_alloc relies on: the block it is given is   *)
(* memory of the result, aligned, and no other block's.                    *)
BlocksAreSound == BlocksFit /\ BlocksAreDisjoint

=============================================================================
