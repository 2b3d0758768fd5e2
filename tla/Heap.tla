-------------------------------- MODULE Heap --------------------------------
(***************************************************************************)
(* utils/heap.cc: malloc, free and realloc on one array of memory.  A      *)
(* block is a size field with a flag, its memory, and the size once more;  *)
(* a free block holds its links of the free list in the first two words of *)
(* its memory.                                                             *)
(*                                                                         *)
(* Memory is counted in words of ALIGNMENT bytes: addresses are indices    *)
(* into the array, requests are rounded up to words, and the flag takes    *)
(* the lowest bit of a size.  The free list is the sequence of its blocks; *)
(* that its links overwrite memory is kept.  A call is one step: the       *)
(* allocator has no lock and is made for one processor (heap.h:4).         *)
(***************************************************************************)
EXTENDS Integers, Sequences, SequencesExt, FiniteSetsExt

CONSTANTS HeapSize,   \* HEAP_SIZE, in words
          MaxRequest, \* bound: words per request
          MaxLive     \* bound: allocations at a time

HeapAssumption == HeapSize \in Nat /\ HeapSize >= 4 /\ MaxRequest \in Nat \ {0} /\ MaxLive \in Nat

Overhead == 2       \* MEMBLOCK_OVERHEAD
MinBlockSize == 2   \* MIN_BLOCK_SIZE
None == -1          \* the null pointer

Address == 0 .. HeapSize - 1
MaxBlock == HeapSize - Overhead - MinBlockSize   \* MAX_MEMBLOCK_POINTER

VARIABLES
  mem,       \* the memory of the heap
  freelist,  \* the blocks in the free list, first to last
  live,      \* allocations: a block, and how many words of it are in use
  kept,      \* auxiliary: the last realloc() kept what it should
  stopped    \* an assertion has stopped the CPU

heap == <<mem, freelist, live, kept, stopped>>

\* What the words of the memory hold: a size with its flag, a size, a link of
\* the free list, or the i-th word of what the owner of an allocation wrote.
Field(size, flag) == 2 * size + flag
Link == 0
Data(i) == -i

SizeOf(m, b) == m[b] \div 2
FlagOf(m, b) == m[b] % 2
IsFree(m, b) == FlagOf(m, b) = 0

WriteSizeFields(m, b, size, flag) ==
  [m EXCEPT ![b] = Field(size, flag), ![b + 1 + size] = size]
WriteLinks(m, b) == [m EXCEPT ![b + 1] = Link, ![b + 2] = Link]

\* get_next
NextOf(m, b) ==
  LET footer == b + 1 + SizeOf(m, b)
  IN  IF m[footer] = SizeOf(m, b) /\ footer + 1 <= MaxBlock THEN footer + 1 ELSE None

\* get_previous.  For the first block the code reads the word before the heap,
\* a link of the sentinel, and compares it with a word at a wild address, which
\* differs from it on any machine that boots.
PreviousOf(m, b) ==
  IF b = 0 THEN None
  ELSE LET prev == b - Overhead - m[b - 1]
       IN  IF prev \in Address /\ SizeOf(m, prev) = m[b - 1] THEN prev ELSE None

\* The blocks of the heap, as get_next finds them from the first one on.
BlocksIn(m) ==
  LET from[b \in Address] ==
        {b} \cup (IF NextOf(m, b) \in Address THEN from[NextOf(m, b)] ELSE {})
  IN  from[0]

\* free_list_remove
Without(list, b) == RemoveFirst(list, b)

-----------------------------------------------------------------------------
(* The steps inside a call work on a record of memory, free list and the   *)
(* block in hand.                                                          *)

Heap(m, list, b) == [mem |-> m, free |-> list, block |-> b]

\* A faulty form of TryMerge: used neighbours are merged with as well.
TryMergeUsed(h) ==
  LET m == h.mem  b == h.block
      next == NextOf(m, b)
  IN  IF next # None
      THEN Heap(WriteSizeFields(m, b, SizeOf(m, b) + Overhead + SizeOf(m, next), FlagOf(m, b)),
                Without(h.free, next), b)
      ELSE h

\* A faulty form of TryMerge: only the next block is looked at.
TryMergeForward(h) ==
  LET m == h.mem  b == h.block
      next == NextOf(m, b)
  IN  IF next # None /\ IsFree(m, next)
      THEN Heap(WriteSizeFields(m, b, SizeOf(m, b) + Overhead + SizeOf(m, next), FlagOf(m, b)),
                Without(h.free, next), b)
      ELSE h

\* try_merge: with the free neighbours, which leave the free list.  The flag
\* stays that of the block.
TryMerge(h) ==
  LET m == h.mem  b == h.block
      prev == PreviousOf(m, b)
      next == NextOf(m, b)
      before == prev # None /\ IsFree(m, prev)
      behind == next # None /\ IsFree(m, next)
      result == IF before THEN prev ELSE b
      size == SizeOf(m, b) + (IF before THEN SizeOf(m, prev) + Overhead ELSE 0)
                           + (IF behind THEN SizeOf(m, next) + Overhead ELSE 0)
      list == IF before THEN Without(h.free, prev) ELSE h.free
  IN  IF ~ before /\ ~ behind THEN h
      ELSE Heap(WriteSizeFields(m, result, size, FlagOf(m, b)),
                IF behind THEN Without(list, next) ELSE list, result)

\* maybe_split_block: the front becomes a free block when it is big enough for
\* one, and the block in hand is the back.
MaybeSplitBlock(h, words) ==
  LET m == h.mem  b == h.block
      size == Max({words, MinBlockSize})
      rest == SizeOf(m, b) - size - Overhead
      front == WriteLinks(WriteSizeFields(m, b, rest, 0), b)
      back == NextOf(front, b)
  IN  IF rest < MinBlockSize THEN h
      ELSE Heap(WriteSizeFields(front, back, size, FlagOf(m, b)), <<b>> \o h.free, back)

\* mark_free; free_list_insert
Insert(h) ==
  Heap(WriteLinks([h.mem EXCEPT ![h.block] = Field(SizeOf(h.mem, h.block), 0)], h.block),
       <<h.block>> \o h.free, h.block)

\* find_free_block: the first that is big enough
Fitting(m, list, words) == SelectInSeq(list, LAMBDA b : SizeOf(m, b) >= words)

\* __malloc: mark it used, take it out of the free list, split it.
Allocate(m, list, words) ==
  LET b == list[Fitting(m, list, words)]
  IN  MaybeSplitBlock(Heap([m EXCEPT ![b] = Field(SizeOf(m, b), 1)], Without(list, b), b), words)

\* memcpy, memmove of so many words of memory between two blocks.  What lies
\* behind the heap is not known.
Copy(m, from, to, words) ==
  [a \in Address |->
     IF a \in to + 1 .. to + words
     THEN LET source == a - to + from IN IF source \in Address THEN m[source] ELSE Link
     ELSE m[a]]

\* The owner writes to all the words it asked for.
Fill(m, b, words) == [a \in Address |-> IF a \in b + 1 .. b + words THEN Data(a - b) ELSE m[a]]

-----------------------------------------------------------------------------

\* Heap::Heap: one free block.
HeapInit ==
  /\ mem = WriteLinks(WriteSizeFields([a \in Address |-> 0], 0, HeapSize - Overhead, 0), 0)
  /\ freelist = <<0>>
  /\ live = {} /\ kept = TRUE
  /\ stopped = FALSE

Blocks(l) == {a.block : a \in l}

\* What a call leaves behind.  The words that are neither size fields nor in use
\* by an owner are not told apart: nobody relies on them.
Becomes(h) ==
  /\ freelist' = h.free
  /\ LET fields == UNION {{b, b + 1 + SizeOf(h.mem, b)} : b \in BlocksIn(h.mem)}
         used == UNION {a.block + 1 .. a.block + a.words : a \in live'}
     IN  mem' = [a \in Address |-> IF a \in fields \cup used THEN h.mem[a] ELSE Link]

Malloc(words) ==
  /\ ~ stopped /\ Cardinality(live) < MaxLive
  /\ Fitting(mem, freelist, words) > 0
  /\ LET h == Allocate(mem, freelist, words) IN
       /\ live' = live \cup {[block |-> h.block, words |-> words]}
       /\ Becomes([h EXCEPT !.mem = Fill(h.mem, h.block, words)])
  /\ kept' = TRUE /\ UNCHANGED stopped

\* malloc(), and realloc() below: nothing is big enough, and the assertion on
\* the null pointer that __malloc returned fails.
OutOfMemory(words) ==
  /\ ~ stopped /\ Fitting(mem, freelist, words) = 0
  /\ stopped' = TRUE
  /\ UNCHANGED <<mem, freelist, live, kept>>

\* free, of an allocation.
Free(a) ==
  /\ ~ stopped
  /\ live' = live \ {a} /\ kept' = TRUE
  /\ Becomes(Insert(TryMerge(Heap(mem, freelist, a.block))))
  /\ UNCHANGED stopped

\* After realloc() has left m: whether what the owner has and still has room
\* for is there; then the owner writes to all of it.
Moves(a, h, words) ==
  /\ kept' = \A i \in 1 .. Min({a.words, words}) : h.mem[h.block + i] = Data(i)
  /\ live' = (live \ {a}) \cup {[block |-> h.block, words |-> words]}
  /\ UNCHANGED stopped

\* realloc(): with its neighbours the block is big enough; what is too much is
\* split off, and the memory moved.
ReallocInPlace(a, words) ==
  LET merged == TryMerge(Heap(mem, freelist, a.block))
      split == MaybeSplitBlock(merged, words)
      result == IF split.block = a.block THEN split
                ELSE [split EXCEPT !.mem = Copy(@, a.block, split.block, words)]
  IN  /\ ~ stopped /\ SizeOf(merged.mem, merged.block) >= words
      /\ Moves(a, result, words)
      /\ Becomes([result EXCEPT !.mem = Fill(@, result.block, words)])

\* realloc(): it is not; the memory is copied into another block.
ReallocElsewhere(a, words) ==
  LET merged == TryMerge(Heap(mem, freelist, a.block))
      other == Allocate(merged.mem, merged.free, words)
      copied == Copy(other.mem, a.block, other.block, words)
      result == Insert(Heap(copied, other.free, merged.block))
  IN  /\ ~ stopped /\ SizeOf(merged.mem, merged.block) < words
      /\ Fitting(merged.mem, merged.free, words) > 0
      /\ Moves(a, [result EXCEPT !.block = other.block], words)
      /\ Becomes([result EXCEPT !.mem = Fill(@, other.block, words)])

ReallocFails(a, words) ==
  LET merged == TryMerge(Heap(mem, freelist, a.block))
  IN  /\ ~ stopped /\ SizeOf(merged.mem, merged.block) < words
      /\ Fitting(merged.mem, merged.free, words) = 0
      /\ stopped' = TRUE
      /\ UNCHANGED <<mem, freelist, live, kept>>

Realloc(a, words) == ReallocInPlace(a, words) \/ ReallocElsewhere(a, words) \/ ReallocFails(a, words)

HeapNext ==
  \/ \E words \in 1 .. MaxRequest : Malloc(words) \/ OutOfMemory(words)
  \/ \E a \in live : Free(a)
  \/ \E a \in live, words \in 1 .. MaxRequest : Realloc(a, words)

HeapSpec == HeapInit /\ [][HeapNext]_heap

-----------------------------------------------------------------------------

All == BlocksIn(mem)

HeapTypeOK ==
  /\ mem \in [Address -> -MaxRequest .. Field(HeapSize - Overhead, 1)]
  /\ freelist \in SeqOf(0 .. MaxBlock, Len(freelist))
  /\ live \subseteq [block : 0 .. MaxBlock, words : 1 .. MaxRequest]
  /\ kept \in BOOLEAN
  /\ stopped \in BOOLEAN

\* The blocks tile the heap to its last word, none is too small for the links,
\* and the two size fields of each agree, however it was split and merged.
Tiled ==
  /\ \A b \in All : SizeOf(mem, b) >= MinBlockSize /\ mem[b + 1 + SizeOf(mem, b)] = SizeOf(mem, b)
  /\ \E b \in All : b + Overhead + SizeOf(mem, b) = HeapSize

\* The free list holds each block that is marked free, once, and no other: a
\* block in it that is in use, or is a part of another one by now, would be
\* given away twice.
FreeListExact ==
  IsInjective(freelist) /\ Range(freelist) = {b \in All : IsFree(mem, b)}

\* Two free blocks never lie side by side, so that what was allocated and freed
\* can be allocated in one piece again.
Coalesced ==
  \A b \in All : IsFree(mem, b) /\ NextOf(mem, b) # None => ~ IsFree(mem, NextOf(mem, b))

\* The blocks in use are those that somebody has allocated: none leaks, none is
\* shared, and each is as big as was asked for.
UsedIsLive ==
  /\ Blocks(live) = {b \in All : ~ IsFree(mem, b)}
  /\ \A a, b \in live : a.block = b.block => a = b
  /\ \A a \in live : SizeOf(mem, a.block) >= a.words

\* Whatever is allocated, moved and freed, in any order, the blocks and the list
\* agree with each other and with what the callers hold.
HeapConsistent == HeapTypeOK /\ Tiled /\ FreeListExact /\ Coalesced /\ UsedIsLive

\* Whatever malloc(), free() and realloc() do with other blocks, their size
\* fields, links and copies leave alone what is in an allocation.
OthersUntouched == \A a \in live : \A i \in 1 .. a.words : mem[a.block + i] = Data(i)

\* heap.h:46: realloc() does not change the contents of the memory up to the
\* given size.
ReallocKeepsContents == kept
=============================================================================
