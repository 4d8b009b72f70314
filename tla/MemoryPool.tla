----------------------------- MODULE MemoryPool -----------------------------
(* Memory pool (memory.cpp, memory.hpp): first fit over a list of free blocks *)
(* kept in address order, neighbours coalesced.  Every block starts with a    *)
(* header; header holds those in use, at their addresses.  What a header that *)
(* was merged away leaves in the memory is never read again and not kept.     *)
(* Sizes are size_t values, whose top bit marks an allocated block.  live is  *)
(* what the application holds: pointer and size it asked for.                 *)
EXTENDS Integers, Sequences, SequencesExt, FiniteSets, FiniteSetsExt, Functions

CONSTANTS BLOCK_ALLOCATED_BIT,  \* the top bit of a size_t
          Align,        \* Q_BYTE_ALIGNMENT
          SizeofBlock,  \* sizeof( blockConnect_t )
          Bases,        \* addresses the memory area may have
          PoolSize,     \* its size
          Requests,     \* sizes the application asks for
          MaxLive       \* bound: blocks held at once

VARIABLES pool, live
poolVars == <<pool, live>>

NULL == 0
StartAddr == -1         \* the list head lives in the pool object, not in the area
SIZE_MAX == 2 * BLOCK_ALLOCATED_BIT - 1
AlignDown(a) == a - (a % Align)
HEAP_STRUCT_SIZE == AlignDown(SizeofBlock + (Align - 1) - 1)

(* A header is two words of the same even size.  An alignment of 1, which     *)
(* memory.hpp accepts, is left out: HEAP_STRUCT_SIZE is then one byte less    *)
(* than a header.  The area has room for two headers wherever it starts, and  *)
(* its size is no negative number to ptrdiff_t.                               *)
PoolAssumption ==
  /\ Align \in {2, 4, 8}
  /\ SizeofBlock \in Nat \ {0} /\ SizeofBlock % 2 = 0
  /\ BLOCK_ALLOCATED_BIT \in Nat
  /\ Bases \subseteq Nat /\ Requests \subseteq Nat
  /\ PoolSize \in 2 * (HEAP_STRUCT_SIZE + Align) .. (BLOCK_ALLOCATED_BIT - 1)

ASSUME PoolAssumption

Block(next, blockSize) == [next |-> next, blockSize |-> blockSize]
Allocated(blockSize) == blockSize >= BLOCK_ALLOCATED_BIT

(* init: the area is cut to aligned addresses, its last header is the end     *)
(* mark, the rest one free block.                                             *)
init(poolMemory, poolMemSize) ==
  LET shift == AlignDown(poolMemory + Align - 1) - poolMemory
      first == poolMemory + shift
      end == AlignDown(first + (poolMemSize - shift) - HEAP_STRUCT_SIZE)
  IN [first |-> first, end |-> end, freeBytesRemaining |-> end - first,
      header |-> [a \in {StartAddr, first, end} |->
                    CASE a = StartAddr -> Block(first, 0)
                      [] a = first -> Block(end, end - first)
                      [] a = end -> Block(NULL, 0)]]

setup(pArea, pSize) == pArea # NULL /\ pSize > 0 /\ pool = init(pArea, pSize)

PoolInit == (\E base \in Bases : setup(base, PoolSize)) /\ live = <<>>

(* The list of free blocks, from start to end.                                *)
FreeChain(header) ==
  LET upTo[k \in 1..Cardinality(DOMAIN header)] ==
        IF k = 1 THEN <<StartAddr>>
        ELSE LET next == header[Last(upTo[k - 1])].next
             IN IF next = NULL THEN upTo[k - 1] ELSE Append(upTo[k - 1], next)
  IN upTo[Cardinality(DOMAIN header)]

insertBlockIntoFreeList(header, end, xBlock) ==
  LET chain == FreeChain(header)
      iterator == chain[SelectInSeq(chain, LAMBDA a : header[a].next >= xBlock)]
      behind == header[iterator].next
      joinsLeft == iterator + header[iterator].blockSize = xBlock
      block == IF joinsLeft THEN iterator ELSE xBlock
      size == header[xBlock].blockSize + IF joinsLeft THEN header[iterator].blockSize ELSE 0
      joinsRight == block + size = behind /\ behind # end
      merged == Block(IF joinsRight THEN header[behind].next ELSE behind,
                      IF joinsRight THEN size + header[behind].blockSize ELSE size)
      linked == [header EXCEPT ![iterator].next = block, ![block] = merged]
      gone == (IF joinsLeft THEN {xBlock} ELSE {}) \cup (IF joinsRight THEN {behind} ELSE {})
  IN Restrict(linked, DOMAIN linked \ gone)

(* Mutant: the header of the block is not counted.                            *)
neededBare(pSize) ==
  LET additional == Align - (pSize % Align)
  IN IF pSize = 0 \/ pSize > SIZE_MAX - additional THEN 0 ELSE pSize + additional

(* The bytes a request takes with its header, rounded up; 0 when the sum does *)
(* not fit size_t.                                                            *)
needed(pSize) ==
  LET additional == HEAP_STRUCT_SIZE + Align - (pSize % Align)
  IN IF pSize = 0 \/ pSize > SIZE_MAX - additional THEN 0 ELSE pSize + additional

alloc(p, pSize) ==
  LET need == needed(pSize)
      chain == FreeChain(p.header)
      i == SelectInSeq(chain, LAMBDA a : a = p.end \/ p.header[a].blockSize >= need)
      xBlock == chain[i]
      size == p.header[xBlock].blockSize
      taken == [p.header EXCEPT ![chain[i - 1]].next = p.header[xBlock].next]
      splits == size - need > 2 * HEAP_STRUCT_SIZE
      rest == xBlock + need
      cut == IF splits
             THEN insertBlockIntoFreeList([a \in DOMAIN taken \cup {rest} |->
                                             IF a = rest THEN Block(NULL, size - need) ELSE taken[a]],
                                          p.end, rest)
             ELSE taken
      granted == IF splits THEN need ELSE size
  IN IF Allocated(need) \/ need = 0 \/ need >= p.freeBytesRemaining \/ xBlock = p.end
     THEN [pool |-> p, ptr |-> NULL]
     ELSE [pool |-> [p EXCEPT !.freeBytesRemaining = @ - granted,
                              !.header = [cut EXCEPT ![xBlock] =
                                            Block(NULL, granted + BLOCK_ALLOCATED_BIT)]],
           ptr |-> xBlock + HEAP_STRUCT_SIZE]

free(p, ptr) ==
  LET xConnect == ptr - HEAP_STRUCT_SIZE
      size == p.header[xConnect].blockSize - BLOCK_ALLOCATED_BIT
      cleared == [p.header EXCEPT ![xConnect].blockSize = size]
  IN IF ptr = NULL \/ ~Allocated(p.header[xConnect].blockSize)
        \/ p.header[xConnect].next # NULL
     THEN p
     ELSE [p EXCEPT !.freeBytesRemaining = @ + size,
                    !.header = insertBlockIntoFreeList(cleared, p.end, xConnect)]
-----------------------------------------------------------------------------
Alloc(pSize) ==
  LET r == alloc(pool, pSize) IN
  /\ Cardinality(DOMAIN live) < MaxLive
  /\ pool' = r.pool
  /\ live' = IF r.ptr = NULL THEN live
             ELSE [q \in DOMAIN live \cup {r.ptr} |-> IF q = r.ptr THEN pSize ELSE live[q]]

Free(ptr) ==
  /\ pool' = free(pool, ptr)
  /\ live' = Restrict(live, DOMAIN live \ {ptr})

(* getFreeSize(), once init() has set the end mark.                           *)
getFreeSize == pool.freeBytesRemaining

PoolNext == \/ \E pSize \in Requests : Alloc(pSize)
            \/ \E ptr \in DOMAIN live \cup {NULL} : Free(ptr)

PoolSpec == PoolInit /\ [][PoolNext]_poolVars
-----------------------------------------------------------------------------
BlockSize(a) == pool.header[a].blockSize % BLOCK_ALLOCATED_BIT
Blocks == DOMAIN pool.header \ {StartAddr, pool.end}
IsFree(a) == ~Allocated(pool.header[a].blockSize)

(* The blocks tile the area from its first aligned address to the end mark;   *)
(* the free ones are the free list, in address order, no two of them          *)
(* adjacent, and what getFreeSize() reports is their sum.                     *)
BlocksTile ==
  LET freed == {a \in Blocks : IsFree(a)}
      list == FreeChain(pool.header)
  IN
  /\ \A a \in Blocks : a + BlockSize(a) \in Blocks \cup {pool.end}
  /\ pool.first \in Blocks
  /\ \A a \in Blocks \ {pool.first} : \E b \in Blocks : b + BlockSize(b) = a
  /\ \A a \in freed : a + BlockSize(a) \notin freed
  /\ Range(list) = freed \cup {StartAddr, pool.end}
  /\ \A i, j \in DOMAIN list : i < j => list[i] < list[j]
  /\ getFreeSize = SumFunctionOnSet([a \in Blocks |-> BlockSize(a)], freed)

(* What the application writes through its pointers is its own: each one is   *)
(* aligned, lies in the area with all its bytes, and touches neither the      *)
(* header of a block nor the bytes of another pointer.                        *)
PayloadsApart ==
  \A p \in DOMAIN live :
    LET bytes == p .. (p + live[p] - 1) IN
    /\ p % Align = 0
    /\ \A q \in DOMAIN live \ {p} : bytes \cap (q .. (q + live[q] - 1)) = {}
    /\ \A a \in DOMAIN pool.header \ {StartAddr} : bytes \cap (a .. (a + SizeofBlock - 1)) = {}
    /\ p > pool.first /\ p + live[p] <= pool.end

(* A block in use has its owner: nothing is out of reach of free().           *)
NothingLost == \A a \in Blocks : IsFree(a) \/ a + HEAP_STRUCT_SIZE \in DOMAIN live

(* No byte is lost, given twice or given where a header lies, however         *)
(* allocations and releases mix (memory.cpp 31-171).                          *)
PoolSound == BlocksTile /\ PayloadsApart /\ NothingLost
=============================================================================
