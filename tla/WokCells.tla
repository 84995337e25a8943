------------------------------ MODULE WokCells ------------------------------
(***************************************************************************)
(* The shapes of heap cell the C runtime knows (runtime/wok_rc.h) and the  *)
(* arithmetic both allocator backends share (runtime/wok_rc.c): the size of *)
(* a cell in bytes, computed modulo SIZE_MAX + 1, the test that aborts      *)
(* before that arithmetic could wrap, and the free-list class.              *)
(*                                                                         *)
(* A cell is [kind, n]: n is the arity of a constructor, the length of an   *)
(* array, the byte length of a string or byte block; views and handles have *)
(* a fixed size.  What a cell holds is abstracted: no property tells two    *)
(* payloads apart.                                                          *)
(***************************************************************************)
EXTENDS Integers, Sequences, FiniteSets, Functions

CONSTANTS Requests,     \* the shapes the interpreter asks for
          SizeMax,      \* SIZE_MAX, 2^64 - 1 in the build
          NumClasses,   \* WOK_NUM_CLASSES, 64 in the build
          SlabWords     \* WOK_ARENA_SIZE in 8-byte words, 8192 in the build

Word == 8               \* WOK_GRANULE, sizeof(WokObj), sizeof(uint64_t)

Kinds == {"con", "array", "string", "bytes", "view", "foreign", "borrow"}
Cell  == [kind : Kinds, n : Nat]

ByteBlocks == {"string", "bytes"}        \* the two kinds sized by a byte length
Handles == {"foreign", "borrow"}     \* the two 24-byte handles

\* What the C types and the static assertions of wok_rc.c (22-30) fix.
ASSUME CellAssumption ==
    /\ SizeMax \in Nat /\ SizeMax >= 31 /\ SizeMax % Word = Word - 1
    /\ NumClasses \in Nat /\ NumClasses >= 4
    /\ SlabWords \in Nat /\ NumClasses < SlabWords
    /\ Requests \subseteq Cell
    /\ \A c \in Requests : c.kind = "con" =>       \* arity < 256, asserted
          Word + Word * c.n <= SizeMax /\ 1 + c.n < SlabWords

Wrap(x) == x % (SizeMax + 1)         \* size_t arithmetic

\* The words the code that fills a cell will write.
TrueWords(c) ==
    CASE c.kind = "con"      -> 1 + c.n
      [] c.kind = "array"    -> 2 + c.n
      [] c.kind \in ByteBlocks   -> 2 + (c.n + 7) \div 8
      [] c.kind = "view"     -> 4
      [] OTHER                -> 3

\* The size the allocator computes for the cell.
Bytes(c) ==
    CASE c.kind = "con"      -> Word + Word * c.n
      [] c.kind = "array"    -> Wrap(16 + Wrap(Word * c.n))
      [] c.kind \in ByteBlocks   -> Wrap(16 + Word * (Wrap(c.n + 7) \div 8))
      [] c.kind = "view"     -> 32
      [] OTHER                -> 24

WordsOf(c) == Bytes(c) \div Word

\* The lengths whose size does not fit size_t: the allocator aborts.
MutOverflows(c) ==
    \/ c.kind = "array"  /\ c.n > SizeMax \div Word
    \/ c.kind \in ByteBlocks /\ c.n > SizeMax - 23
Overflows(c) ==
    \/ c.kind = "array"  /\ c.n > (SizeMax - 16) \div Word
    \/ c.kind \in ByteBlocks /\ c.n > SizeMax - 23

\* The free-list class, NumClasses standing for "no class: malloc".
Class(c) ==
    CASE c.kind = "con"      -> c.n
      [] c.kind = "array"    -> IF c.n < NumClasses - 1 THEN c.n + 1 ELSE NumClasses
      [] c.kind \in ByteBlocks   -> IF (c.n + 7) \div 8 < NumClasses - 1
                                THEN (c.n + 7) \div 8 + 1 ELSE NumClasses
      [] c.kind = "view"     -> 3
      [] OTHER                -> 2

IsLarge(c) == Class(c) >= NumClasses

-----------------------------------------------------------------------------
(* Where a cell lies: address <<b, o>> is word o of the block b that malloc *)
(* returned, and the cell covers w words from there.                        *)

Extent(p, w) == {<<p[1], o>> : o \in p[2] .. p[2] + w - 1}

\* The words covered by the cells a function from addresses to cells holds.
Covered(f) == UNION {Extent(p, TrueWords(f[p])) : p \in DOMAIN f}

\* A cell as wok_*_alloc stamps it, and the cells f with one more at p.
Counted(c)   == [kind |-> c.kind, n |-> c.n, rc |-> 1]
Put(p, c, f) == [x \in DOMAIN f \cup {p} |-> IF x = p THEN c ELSE f[x]]

BytesHeld(f) == SumFunction([p \in DOMAIN f |-> Word * TrueWords(f[p])])
=============================================================================
