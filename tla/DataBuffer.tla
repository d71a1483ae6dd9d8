------------------------------ MODULE DataBuffer ------------------------------
(* class DataBuffer (DataBuffer.cpp): a byte sequence in a doubly linked list  *)
(* of blocks of kBLOCK_DATA_SIZE bytes.  blocks is the list, total the field   *)
(* m_TotalUsed.  Indices are the code's, from 0.  call and torn are history:   *)
(* the last call, and whether it was one that the code does not carry through  *)
(* (a call after it is not followed).  No caller shares a buffer without a     *)
(* lock, so a call is one step.                                                *)
EXTENDS Integers, Sequences, SequencesExt

CONSTANTS Byte,      \* the values of a byte
          Block,     \* kBLOCK_DATA_SIZE
          MaxSize,   \* bound: the bytes of a buffer, and the indices asked for
          MaxCall    \* bound: the bytes handed to one call

ASSUME BlockAssumption == 0 \in Byte /\ Block \in Nat \ {0} /\ {MaxSize, MaxCall} \subseteq Nat

VARIABLES blocks, total, call, torn
bufferVars == <<blocks, total, call, torn>>

Take(s, n) == SubSeq(s, 1, IF n < Len(s) THEN n ELSE Len(s))
Drop(s, n) == SubSeq(s, n + 1, Len(s))
Same(v, n) == [i \in 1..n |-> v]
Free(b)    == Block - Len(b)

\* All bytes of the list bs, and how many lie before its block b.
Contents(bs) ==
    LET upTo[i \in 0..Len(bs)] == IF i = 0 THEN <<>> ELSE upTo[i - 1] \o bs[i]
    IN upTo[Len(bs)]
Before(bs, b) ==
    LET upTo[i \in 1..b] == IF i = 1 THEN 0 ELSE upTo[i - 1] + Len(bs[i - 1])
    IN upTo[b]

\* The block an offset falls in; the offset must be below the last byte.
FindBlockByOffset(bs, index) ==
    CHOOSE b \in DOMAIN bs : Before(bs, b) <= index /\ index < Before(bs, b) + Len(bs[b])

\* New blocks for the bytes s, each full but the last.
Pieces(s) == [i \in 1..((Len(s) + Block - 1) \div Block) |-> Take(Drop(s, (i - 1) * Block), Block)]

\* RemoveBlock: an emptied block leaves the list, unless it is the first.
RemoveBlock(bs, b) == IF bs[b] # <<>> \/ b = 1 THEN bs ELSE RemoveAt(bs, b)

Appended(bs, s) ==
    LET room == Free(Last(bs))
    IN Front(bs) \o <<Last(bs) \o Take(s, room)>> \o Pieces(Drop(s, room))

\* The blocks put before the old first one by a Prepend that does not fit it.
Fronted(bs, s) == Pieces(Take(s, Len(s) - Free(Head(bs))))
\* Variant: the part that fits the first block is taken from the front of s.
PrependedSwapped(bs, s) ==
    LET room == Free(Head(bs))
    IN Pieces(Drop(s, room)) \o <<Take(s, room) \o Head(bs)>> \o Tail(bs)
Prepended(bs, s) ==
    LET over == IF Len(s) > Free(Head(bs)) THEN Len(s) - Free(Head(bs)) ELSE 0
    IN Pieces(Take(s, over)) \o <<Drop(s, over) \o Head(bs)>> \o Tail(bs)

\* What an insertion leaves over goes to new blocks behind block b, and its last
\* piece to the front of the next block when that has room.
Spilled(bs, b, s) ==
    LET ps    == Pieces(s)
        joins == b < Len(bs) /\ ps # <<>> /\ Free(bs[b + 1]) >= Len(Last(ps))
    IN IF joins
       THEN SubSeq(bs, 1, b) \o Front(ps) \o <<Last(ps) \o bs[b + 1]>> \o Drop(bs, b + 1)
       ELSE SubSeq(bs, 1, b) \o ps \o Drop(bs, b)

\* s inserted within block b, as much of it as fits; over is what is written in
\* place of the rest.
InsertedAt(bs, index, s, over) ==
    LET b == FindBlockByOffset(bs, index)
        o == index - Before(bs, b)
    IN Spilled([bs EXCEPT ![b] = Take(@, o) \o Take(s, Free(@)) \o Drop(@, o)], b, over)

Overflow(bs, index, s) == Drop(s, Free(bs[FindBlockByOffset(bs, index)]))
Interior(index) == 0 < index /\ index < total

Inserted(bs, index, s) ==
    IF index >= total THEN Appended(bs, s)
    ELSE IF index = 0 THEN Prepended(bs, s)
    ELSE InsertedAt(bs, index, s, Overflow(bs, index, s))

\* InsertFill writes zeros where it spills.
InsertFilled(bs, index, s) ==
    IF Interior(index)
    THEN InsertedAt(bs, index, s, Same(0, Len(Overflow(bs, index, s))))
    ELSE Inserted(bs, index, s)

Spills(bs, index, s) == Interior(index) /\ Overflow(bs, index, s) # <<>>

\* The bytes from index on overwritten by s, through the blocks that hold them.
Overwritten(bs, index, s) ==
    [b \in DOMAIN bs |->
        [j \in DOMAIN bs[b] |->
            LET i == Before(bs, b) + j - index
            IN IF i \in DOMAIN s THEN s[i] ELSE bs[b][j]]]

\* Remove across blocks: the first is cut, whole ones go, and the bytes of the
\* last are moved down but stay counted in the block.
Across(bs, index, n) == index + n > Before(bs, FindBlockByOffset(bs, index) + 1)
Removed(bs, index, n) ==
    LET b     == FindBlockByOffset(bs, index)
        o     == index - Before(bs, b)
        gone  == {c \in b + 1..Len(bs) : Before(bs, c + 1) <= index + n}
        next  == b + Cardinality(gone) + 1
        cut   == index + n - Before(bs, next)
        moved == Drop(bs[next], cut) \o Drop(bs[next], Len(bs[next]) - cut)
        rest  == IF next > Len(bs) \/ cut <= 0 THEN Drop(bs, next - 1)
                 ELSE <<moved>> \o Drop(bs, next)
    IN IF ~Across(bs, index, n)
       THEN RemoveBlock([bs EXCEPT ![b] = Take(@, o) \o Drop(@, o + n)], b)
       ELSE RemoveBlock(SubSeq(bs, 1, b - 1) \o <<Take(bs[b], o)>> \o rest, b)

\* m_TotalUsed after it: less the bytes of the last block it looked at only.
TotalRemoved(bs, index, n) ==
    LET b    == FindBlockByOffset(bs, index)
        gone == {c \in b + 1..Len(bs) : Before(bs, c + 1) <= index + n}
        next == b + Cardinality(gone) + 1
        cut  == index + n - Before(bs, next)
    IN IF ~Across(bs, index, n) THEN total - n
       ELSE IF next <= Len(bs) /\ cut > 0 THEN total - cut
       ELSE total - ((Before(bs, b + 1) - index) - (index + n - Before(bs, next)))
-------------------------------------------------------------------------------
Sizes   == 0..MaxSize
Data    == UNION {[1..n -> Byte] : n \in 0..MaxCall}
Runs    == {Same(v, n) : v \in Byte, n \in 0..MaxCall}
Fits(n) == total + n <= MaxSize
Asked(c) == torn = FALSE /\ call' = c
Becomes(bs, n, broken) == blocks' = bs /\ total' = n /\ torn' = broken

AppendBytes(s) ==
    /\ Asked([op |-> "Append", at |-> total, data |-> s]) /\ Fits(Len(s))
    /\ Becomes(Appended(blocks, s), total + Len(s), FALSE)

Prepend(s) ==
    /\ Asked([op |-> "Prepend", at |-> 0, data |-> s]) /\ Fits(Len(s))
    /\ Becomes(Prepended(blocks, s), total + Len(s), FALSE)

\* An insertion within the sequence that overflows its block leaves the tail of
\* that block in front of what spills.
Insert(index, s) ==
    /\ Asked([op |-> "Insert", at |-> index, data |-> s]) /\ Fits(Len(s))
    /\ Becomes(Inserted(blocks, index, s), total + Len(s), Spills(blocks, index, s))

\* AppendFill and PrependFill are InsertFill at the ends.
InsertFill(index, s) ==
    /\ Asked([op |-> "InsertFill", at |-> index, data |-> s]) /\ Fits(Len(s))
    /\ Becomes(InsertFilled(blocks, index, s), total + Len(s), Spills(blocks, index, s))

Fill(index, s) ==
    /\ Asked([op |-> "Fill", at |-> index, data |-> s])
    /\ Becomes(Overwritten(blocks, index, s), total, FALSE)

RemoveBytes(index, n) ==
    /\ Asked([op |-> "Remove", at |-> index, size |-> n])
    /\ IF index < total
       THEN Becomes(Removed(blocks, index, n), TotalRemoved(blocks, index, n),
                    Across(blocks, index, n))
       ELSE Becomes(blocks, total, FALSE)

\* Replace of one byte is SetAt, past the end it is Append; a longer text first
\* makes room behind the old one, a shorter one removes the rest of it.
ReplaceInPlace(index, s) == Becomes(Overwritten(blocks, index, s), total, FALSE)

ReplaceGrows(index, old, s) ==
    LET pad == Same(0, Len(s) - old)
        at  == index + old
        new == InsertFilled(blocks, at, pad)
        \* the block written to is the old first one, now behind the new ones
        to  == IF at = 0 /\ Len(pad) > Free(Head(blocks))
               THEN Len(Contents(Fronted(blocks, pad))) ELSE index
    IN /\ to + Len(s) <= Len(Contents(new))    \* else the call never returns
       /\ Becomes(Overwritten(new, to, s), total + Len(pad),
                  Spills(blocks, at, pad) \/ to # index)

\* If that removes the block written to, nothing is left to write: 0 bytes are
\* copied, whatever the freed block says of its length.
ReplaceShrinks(index, old, s) ==
    LET at == index + Len(s)
        n  == old - Len(s)
    IN Becomes(Overwritten(Removed(blocks, at, n), index, s),
               TotalRemoved(blocks, at, n), Across(blocks, at, n))

Replace(index, size, s) ==
    LET old     == IF index + size > total THEN total - index ELSE size
        inPlace == (Len(s) = 1 /\ size = 1) \/ (index < total /\ Len(s) = old)
    IN /\ Asked([op |-> "Replace", at |-> index, size |-> size, data |-> s])
       /\ \/ inPlace /\ ReplaceInPlace(index, s)
          \/ /\ ~inPlace /\ index >= total /\ Fits(Len(s))
             /\ Becomes(Appended(blocks, s), total + Len(s), FALSE)
          \/ /\ ~inPlace /\ index < total /\ Len(s) > old /\ Fits(Len(s) - old)
             /\ ReplaceGrows(index, old, s)
          \/ ~inPlace /\ index < total /\ Len(s) < old /\ ReplaceShrinks(index, old, s)

\* Compress moves bytes forward until every block but the last is full.  It goes
\* past the list, and crashes, when it empties the last block into a block that
\* this fills.
CompressReturns(bs) ==
    LET n == Len(bs)
    IN \/ n = 1 \/ total % Block # 0
       \/ Before(bs, n) > 0 /\ Before(bs, n) % Block = 0
Compress ==
    /\ Asked([op |-> "Compress"]) /\ CompressReturns(blocks)
    /\ Becomes(IF total = 0 THEN <<<<>>>> ELSE Pieces(Contents(blocks)), total, FALSE)

Resize(n) ==
    /\ Asked([op |-> "Resize", size |-> n])
    /\ \/ n > total /\ Becomes(Appended(blocks, Same(0, n - total)), n, FALSE)
       \/ n < total /\ Becomes(Removed(blocks, n, total - n),
                               TotalRemoved(blocks, n, total - n),
                               Across(blocks, n, total - n))
       \/ n = total /\ Becomes(blocks, total, FALSE)

Clear == /\ Asked([op |-> "Clear"])
         /\ Becomes(<<<<>>>>, 0, FALSE)

BufferInit == /\ blocks = <<<<>>>> /\ total = 0
              /\ torn = FALSE /\ call = [op |-> "Clear"]

BufferNext ==
    \/ \E s \in Data : AppendBytes(s) \/ Prepend(s) \/ (\E i \in Sizes : Insert(i, s))
    \/ \E s \in Runs, i \in Sizes : InsertFill(i, s) \/ Fill(i, s)
    \/ \E i, n \in Sizes : RemoveBytes(i, n)
    \/ \E s \in Data, i, n \in Sizes : Replace(i, n, s)
    \/ \E n \in Sizes : Resize(n)
    \/ Compress
    \/ Clear

BufferSpec == BufferInit /\ [][BufferNext]_bufferVars
-------------------------------------------------------------------------------
Bytes == INSTANCE ByteSequence WITH bytes <- Contents(blocks), size <- total

\* The buffer is the byte sequence it promises to be, through every call that it
\* carries through: no byte is lost, doubled or out of place, and the size it
\* reports is the size it has.
BufferIsBytes == Bytes!Spec
===============================================================================
