--------------------------- MODULE ChunkIterator ---------------------------
(***************************************************************************)
(* PersistentChunk and PersistentChunkIterator: the constructor takes a    *)
(* chunk's bytes apart by pointer arithmetic, and the iterator walks over  *)
(* what it found.  The unit of memory is the size_t, 8 bytes, in which a   *)
(* chunk's sizes and offsets are stored and of which keys and values are   *)
(* taken to be made; a persistent_ptr takes two.                           *)
(***************************************************************************)
EXTENDS PmemOid, Sequences, SequencesExt

CONSTANTS
  Chunks,    \* contents a chunk may have: sequences of pairs of key and value
  DataOff,   \* where the chunk begins in the pool
  PoolSize,  \* words in the pool, fewer than Word
  Other      \* what the words of the pool outside the chunk hold

VARIABLES
  chunk,           \* the content that was stored
  chunkData_, chunkSize_,   \* PersistentChunk: where, and how long
  at,              \* where the constructor is, or "ready", or "fault"
  nPairs, i, metaOffset,    \* the constructor's variables
  vKey_, vValue_, current_  \* the iterator

vars == <<chunk, chunkData_, chunkSize_, at, nPairs, i, metaOffset,
          vKey_, vValue_, current_>>
stored == <<chunk, chunkData_, chunkSize_>>

sizeof_size_t == 1
sizeof_persistent_ptr == 2

(* The chunk, as the comment in the constructor lays it out; what builds   *)
(* it is not part of the repository.                                       *)
PairData(c) == <<Len(c.key)>> \o c.key \o <<Len(c.value)>> \o c.value
Pairs(c) == FlattenSeq([n \in 1..Len(c) |-> PairData(c[n])])
Offset(c, n) == Len(Pairs(SubSeq(c, 1, n - 1)))
Layout(c) == Pairs(c) \o [n \in 1..Len(c) |-> Offset(c, n)] \o <<Len(c)>>

Mapped(o) == o.off \in 0..(PoolSize - 1)
DecodeFixed64(o) ==
  LET n == o.off - DataOff + 1
  IN IF n \in 1..chunkSize_ THEN Layout(chunk)[n] ELSE Other

TypeOK ==
  /\ chunk \in Chunks /\ chunkData_ \in PMEMoid /\ chunkSize_ \in uint64
  /\ at \in {"start", "loop", "ready", "fault"}
  /\ nPairs \in uint64 /\ i \in uint64 /\ metaOffset \in PMEMoid
  /\ vKey_ \in Seq([size : uint64, buf : PMEMoid])
  /\ vValue_ \in Seq([size : uint64, buf : PMEMoid])
  /\ current_ \in uint64

(* PersistentChunk::reset and NewIterator; the constructor sets no         *)
(* current_, and nPairs is not initialized before it is read               *)
Init ==
  /\ chunk \in Chunks
  /\ chunkData_ = [pool_uuid_lo |-> Uuid, off |-> DataOff]
  /\ chunkSize_ = Len(Layout(chunk))
  /\ at = "start" /\ nPairs = 0 /\ i = 0 /\ metaOffset = OID_NULL
  /\ vKey_ = <<>> /\ vValue_ = <<>> /\ current_ \in {0, 1, Word - 1}

nPairsOffset == Minus(Plus(chunkData_, chunkSize_, 1), sizeof_size_t, 1)

ReadCount ==
  /\ at = "start" /\ at' = "loop"
  /\ nPairs' = DecodeFixed64(nPairsOffset)
  /\ metaOffset' = Minus(nPairsOffset, sizeof_persistent_ptr * nPairs', 1)
  /\ UNCHANGED <<stored, i, vKey_, vValue_, current_>>

(* one iteration of the constructor's loop, which reads three words        *)
ReadPair ==
  LET keyAddr == Plus(chunkData_, DecodeFixed64(metaOffset), 1)
      keySize == DecodeFixed64(keyAddr)
      valAddr == PlusAssign(keyAddr, sizeof_size_t + keySize, 1)
      reads == {metaOffset, keyAddr, valAddr}
  IN /\ at = "loop" /\ i < nPairs
     /\ IF \A o \in reads : Mapped(o)
        THEN /\ vKey_' = Append(vKey_, [size |-> keySize,
                                        buf |-> Plus(keyAddr, sizeof_size_t, 1)])
             /\ vValue_' = Append(vValue_, [size |-> DecodeFixed64(valAddr),
                                            buf |-> Plus(valAddr, sizeof_size_t, 1)])
             /\ metaOffset' = PlusAssign(metaOffset, sizeof_size_t, 1)
             /\ i' = i + 1 /\ UNCHANGED at
        ELSE at' = "fault" /\ UNCHANGED <<i, metaOffset, vKey_, vValue_>>
     /\ UNCHANGED <<stored, nPairs, current_>>
Constructed ==
  /\ at = "loop" /\ i = nPairs /\ at' = "ready"
  /\ UNCHANGED <<stored, nPairs, i, metaOffset, vKey_, vValue_, current_>>

-----------------------------------------------------------------------------
(* The iterator; the assertions of Next and Prev are their guards.         *)

count == Len(vKey_)
Valid == current_ < count
Moves(n) ==
  /\ at = "ready" /\ current_' = n % Word
  /\ UNCHANGED <<stored, at, nPairs, i, metaOffset, vKey_, vValue_>>
SeekToFirst == Moves(0)
SeekToLast == Moves(count - 1)
SeekTo(idx) == Moves(idx)
NextPair == Valid /\ Moves(current_ + 1)
Prev == Valid /\ Moves(current_ - 1)

(* the bytes key() and value() hand out                                    *)
Bytes(dat) == [n \in 1..dat.size |-> DecodeFixed64(Plus(dat.buf, n - 1, 1))]
key == Bytes(vKey_[current_ + 1])
value == Bytes(vValue_[current_ + 1])

Next ==
  \/ ReadCount \/ ReadPair \/ Constructed
  \/ SeekToFirst \/ SeekToLast \/ NextPair \/ Prev
  \/ \E idx \in 0..count : SeekTo(idx)

Spec == Init /\ [][Next]_vars

-----------------------------------------------------------------------------
(* The comment at persistent_chunk_iterator.cc:9-10 gives the layout       *)
(* "keysize | key | valsize | val | ... | 1st pair offset | 2nd pair       *)
(* offset | ... | num of pairs": of a chunk that has it, the iterator      *)
(* hands out the pairs, in their order.                                    *)
ReadsLayout ==
  /\ at # "fault"
  /\ at = "ready" => count = Len(chunk)
  /\ at = "ready" /\ Valid => key = chunk[current_ + 1].key
                              /\ value = chunk[current_ + 1].value

=============================================================================
