----------------------------- MODULE MemoryPool -----------------------------
(***************************************************************************)
(* memorypool.c: the memory of one connection.  Blocks that may grow are   *)
(* taken from the start, records that stay from the end; nothing is given  *)
(* back except by shrinking the last block or by resetting the pool.       *)
(*                                                                         *)
(* A pool is a record of its two bounds, a block the offset of its first   *)
(* byte, NoBlock the null pointer.  An operation returns the pool and the  *)
(* block.                                                                  *)
(***************************************************************************)
EXTENDS Integers

CONSTANTS PoolSize,  \* the size a pool is created with
          Align      \* ALIGN_SIZE

ASSUME MPAssumption == PoolSize \in Nat /\ Align \in Nat \ {0}

NoBlock == -1

RoundToAlign(n) == ((n + Align - 1) \div Align) * Align

PoolCreate == [pos |-> 0, end |-> PoolSize]

Block(pool, at) == [pool |-> pool, at |-> at]

Fits(pool, asize) == pool.pos + asize <= pool.end

PoolAllocate(pool, size) ==
  LET asize == RoundToAlign(size)
  IN  IF Fits(pool, asize) THEN Block([pool EXCEPT !.pos = @ + asize], pool.pos)
                           ELSE Block(pool, NoBlock)

PoolAllocateFromEnd(pool, size) ==
  LET asize == RoundToAlign(size)
  IN  IF Fits(pool, asize) THEN Block([pool EXCEPT !.end = @ - asize], pool.end - asize)
                           ELSE Block(pool, NoBlock)

(* `was the previous allocation - optimize!'.                              *)
IsLast(pool, old, oldSize) == pool.pos >= oldSize /\ pool.pos - oldSize = old

ResizeLast(pool, old, oldSize, asize) ==
  IF pool.pos + asize - oldSize <= pool.end THEN Block([pool EXCEPT !.pos = @ + asize - oldSize], old)
                                            ELSE Block(pool, NoBlock)

(* Mutant: a block that is not the last one grows where it is.              *)
ReallocateInPlace(pool, old, oldSize, newSize) ==
  LET asize == RoundToAlign(newSize)
  IN  IF pool.end < oldSize \/ pool.end < asize THEN Block(pool, NoBlock)
      ELSE IF IsLast(pool, old, oldSize) THEN ResizeLast(pool, old, oldSize, asize)
      ELSE Block(pool, IF old = NoBlock THEN pool.pos ELSE old)

PoolReallocate(pool, old, oldSize, newSize) ==
  LET asize == RoundToAlign(newSize)
  IN  IF pool.end < oldSize \/ pool.end < asize THEN Block(pool, NoBlock)
      ELSE IF IsLast(pool, old, oldSize) THEN ResizeLast(pool, old, oldSize, asize)
      ELSE IF asize <= oldSize THEN Block(pool, old) ELSE PoolAllocate(pool, newSize)

(* Everything is dropped but the block keep, which moves to the start.     *)
PoolReset(pool, keep, newSize) ==
  IF keep = NoBlock THEN Block([pool EXCEPT !.end = PoolSize], NoBlock)
                    ELSE Block([pos |-> RoundToAlign(newSize), end |-> PoolSize], 0)
=============================================================================
