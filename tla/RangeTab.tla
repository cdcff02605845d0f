------------------------------ MODULE RangeTab ------------------------------
(***************************************************************************)
(* FixedRangeTab (fixed_range_tab.h, fixed_range_tab.cc): the chunks of    *)
(* one key range, kept back to back in a buffer of persistent memory and   *)
(* indexed by the volatile vector blklist.  A flush thread runs Append, a  *)
(* compaction thread runs SetCompactionWorking and CleanUp, nothing locks  *)
(* the one out of the other, and the process may die at any step.  Each    *)
(* access to blklist is one step: what two calls of emplace_back do to the *)
(* vector when they run at the very same time is not part of the model.    *)
(*                                                                         *)
(* The unit of length and of address is one uint64_t, so that              *)
(* sizeof(size_t) and each EncodeFixed64 take one word.                    *)
(***************************************************************************)
EXTENDS Integers, Sequences

CONSTANTS
  CHUNK_BLOOM_FILTER_LEN,  \* words of bloom data that Append copies
  chunk_bloom_bits_,       \* the option every other function uses instead
  InitSeqs,                \* what putAndGet may leave in seq_num_
  Chunks,                  \* what the flush thread appends
  Memory,                  \* bound: words modelled, buffer and what follows it
  MaxBlks,                 \* bound: entries of blklist before an Append
  MaxRestarts              \* bound: crashes

Chunk == [bloom : [1..CHUNK_BLOOM_FILTER_LEN -> Nat], data : Seq(Nat),
          start : Nat \ {0}, end : Nat \ {0}]

ASSUME RangeTabAssumption ==
  /\ CHUNK_BLOOM_FILTER_LEN \in Nat /\ chunk_bloom_bits_ \in Nat
  /\ InitSeqs \subseteq Nat
  /\ Memory \in Nat /\ 2 <= Memory
  /\ MaxBlks \in Nat /\ MaxRestarts \in Nat
  /\ Chunks \subseteq Chunk

VARIABLES
  \* the persistent NvRangeTab
  dataLen, seq_num_, buf, key_range_,
  \* key ranges allocated by CheckAndUpdateKeyRange that nothing points to
  orphans,
  \* the volatile FixedRangeTab
  blklist, in_compaction_, pendding_clean_,
  \* the flush thread: where Append is, its chunk, its local cur_len and what
  \* the undo log of its transaction holds for dataLen
  append,
  \* the compaction thread, and the locals of RebuildBlkList
  compact, rebuild,
  \* the process, and how often it has died
  process, restarts,
  \* history: the blocks that Append has counted in dataLen, without those that
  \* a CleanUp dropped or a rollback took back
  live

node  == <<dataLen, seq_num_, buf, key_range_, orphans>>
tab   == <<blklist, in_compaction_, pendding_clean_>>
vars  == <<node, tab, append, compact, rebuild, process, restarts, live>>

NoChunk == [bloom |-> <<>>, data |-> <<>>, start |-> 0, end |-> 0]
NoRange == [start |-> 0, end |-> 0]
Idle    == [at |-> "idle", chunk |-> NoChunk, cur_len |-> 0, undo |-> 0]
NoLoop  == [offset |-> 0, dataLen |-> 0]

Addr == 0..(Memory + chunk_bloom_bits_)

Block == [bloom_bits_ : Nat, offset_ : Nat, chunkLen_ : Nat]

TypeOK ==
  /\ dataLen \in 0..Memory
  /\ seq_num_ \in Nat
  /\ buf \in [Addr -> Nat]
  /\ key_range_ \in [start : Nat, end : Nat]
  /\ orphans \in Nat
  /\ blklist \in Seq(Block)
  /\ in_compaction_ \in BOOLEAN
  /\ pendding_clean_ \in Nat
  /\ append \in [at : {"idle", "bloom", "len", "data", "store", "commit", "range"},
                 chunk : Chunks \cup {NoChunk}, cur_len : 0..Memory,
                 undo : 0..Memory]
  /\ append.at # "idle" => append.chunk \in Chunks
  /\ compact \in {"idle", "working", "reset", "rebuild", "cleaned"}
  /\ rebuild \in [offset : Nat, dataLen : 0..Memory]
  /\ process \in {"down", "starting", "up"}
  /\ restarts \in 0..MaxRestarts
  /\ live \subseteq [offset : 0..Memory, chunk : Chunks, run : 0..MaxRestarts]

-----------------------------------------------------------------------------
(* Blocks and words.                                                       *)

ChunkBlk(bloom_bits, offset, chunkLen) ==
  [bloom_bits_ |-> bloom_bits, offset_ |-> offset, chunkLen_ |-> chunkLen]

getDatOffset(blk) == blk.offset_ + blk.bloom_bits_ + 1

(* chunk_data.size_ *)
Size(c) == Len(c.data)

(* memcpy of len words to the address dest. *)
Write(dest, words, len) ==
  buf' = [a \in Addr |-> IF dest <= a /\ a < dest + len THEN words[a - dest + 1]
                                                        ELSE buf[a]]

(* The length of the block that Append makes of a chunk. *)
BlkLen(c) == CHUNK_BLOOM_FILTER_LEN + 1 + Size(c)

-----------------------------------------------------------------------------
(* The process: node creation, constructor, crash.                         *)

(* The node as putAndGet leaves it; the constructor has still to run.      *)
Init ==
  /\ dataLen = 0 /\ seq_num_ \in InitSeqs
  /\ buf = [a \in Addr |-> 0]
  /\ key_range_ = NoRange /\ orphans = 0
  /\ blklist = <<>> /\ in_compaction_ = FALSE /\ pendding_clean_ = 0
  /\ append = Idle /\ compact = "idle" /\ rebuild = NoLoop
  /\ process = "down" /\ restarts = 0
  /\ live = {}

(* FixedRangeTab::FixedRangeTab on a node whose seq_num_ is 0: the two     *)
(* header words cur_ and seq_ are set.                                     *)
ConstructNew ==
  /\ process = "down" /\ seq_num_ = 0
  /\ Write(0, <<0, 0>>, 2)
  /\ pendding_clean_' = 0 /\ in_compaction_' = FALSE
  /\ process' = "up"
  /\ UNCHANGED <<dataLen, seq_num_, key_range_, orphans, blklist, append,
                 compact, rebuild, restarts, live>>

(* The first words of RebuildBlkList: its locals.  The loop follows. *)
RebuildBlkList == rebuild' = [offset |-> 2, dataLen |-> dataLen]

(* The constructor on any other node.  It leaves in_compaction_            *)
(* uninitialized, so that any value may be found there.                    *)
ConstructRebuild ==
  /\ process = "down" /\ seq_num_ # 0
  /\ RebuildBlkList
  /\ pendding_clean_' = 0 /\ in_compaction_' \in BOOLEAN
  /\ process' = "starting"
  /\ UNCHANGED <<node, blklist, append, compact, restarts, live>>

(* The block of the Append in progress, as the history records it. *)
NewBlk == [offset |-> append.cur_len, chunk |-> append.chunk, run |-> restarts]

(* The process dies.  libpmemobj rolls an open transaction back, which     *)
(* undoes dataLen alone, even when CleanUp has written it since: the words *)
(* memcpy wrote stay.                                                      *)
Crash ==
  /\ process # "down" /\ restarts < MaxRestarts
  /\ process' = "down" /\ restarts' = restarts + 1
  /\ blklist' = <<>> /\ in_compaction_' = FALSE /\ pendding_clean_' = 0
  /\ append' = Idle /\ compact' = "idle" /\ rebuild' = NoLoop
  /\ dataLen' = IF append.at = "commit" THEN append.undo ELSE dataLen
  /\ live' = IF append.at = "commit" THEN live \ {NewBlk} ELSE live
  /\ UNCHANGED <<seq_num_, buf, key_range_, orphans>>

(* One iteration of RebuildBlkList's loop. *)
RebuildStep ==
  LET chunkLen == buf[rebuild.offset + chunk_bloom_bits_]
  IN  /\ process = "starting" \/ compact = "rebuild"
      /\ rebuild.offset < rebuild.dataLen
      /\ blklist' = Append(blklist,
                      ChunkBlk(chunk_bloom_bits_, rebuild.offset, chunkLen))
      /\ rebuild' = [rebuild EXCEPT !.offset = @ + chunk_bloom_bits_ + 1 + chunkLen]
      /\ UNCHANGED <<node, in_compaction_, pendding_clean_, append, compact,
                     process, restarts, live>>

(* RebuildBlkList returns, to the constructor or to CleanUp. *)
RebuildDone ==
  /\ rebuild.offset >= rebuild.dataLen
  /\ \/ process = "starting" /\ process' = "up" /\ UNCHANGED compact
     \/ compact = "rebuild" /\ compact' = "cleaned" /\ UNCHANGED process
  /\ rebuild' = NoLoop
  /\ UNCHANGED <<node, tab, append, restarts, live>>

-----------------------------------------------------------------------------
(* The flush thread: FixedRangeTab::Append.                                *)

AppendFrame == UNCHANGED <<seq_num_, compact, rebuild, process, restarts>>

(* The transaction starts: cur_len is read and the block enters blklist    *)
(* before any of it is written.  The capacity test in front of it has an   *)
(* empty body, so nothing depends on bufSize; Memory bounds the model.     *)
AppendBegin(c) ==
  /\ process = "up" /\ append.at = "idle"
  /\ dataLen + BlkLen(c) <= Memory /\ Len(blklist) < MaxBlks
  /\ append' = [at |-> "bloom", chunk |-> c, cur_len |-> dataLen, undo |-> 0]
  /\ blklist' = Append(blklist, ChunkBlk(chunk_bloom_bits_, dataLen, Size(c)))
  /\ UNCHANGED <<dataLen, buf, key_range_, orphans, in_compaction_,
                 pendding_clean_, live>>
  /\ AppendFrame

AppendGoTo(from, to) == append.at = from /\ append' = [append EXCEPT !.at = to]

CopyFrame == UNCHANGED <<dataLen, key_range_, orphans, tab, live>> /\ AppendFrame

AppendBloom ==
  /\ AppendGoTo("bloom", "len")
  /\ Write(append.cur_len, append.chunk.bloom, CHUNK_BLOOM_FILTER_LEN)
  /\ CopyFrame

AppendLen ==
  /\ AppendGoTo("len", "data")
  /\ Write(append.cur_len + CHUNK_BLOOM_FILTER_LEN, <<Size(append.chunk)>>, 1)
  /\ CopyFrame

AppendData ==
  /\ AppendGoTo("data", "store")
  /\ Write(append.cur_len + CHUNK_BLOOM_FILTER_LEN + 1, append.chunk.data,
           Size(append.chunk))
  /\ CopyFrame

(* The assignment to dataLen in the transaction: its old value is logged,  *)
(* then the new one is stored, and every thread sees it at once.           *)
StoreLen(len) ==
  /\ append.at = "store"
  /\ append' = [append EXCEPT !.at = "commit", !.undo = dataLen]
  /\ dataLen' = len
  /\ live' = live \cup {NewBlk}
  /\ UNCHANGED <<buf, key_range_, orphans, tab>> /\ AppendFrame

(* Mutant: the length word is not counted. *)
AppendStoreForgetsLen == StoreLen(append.cur_len + BlkLen(append.chunk) - 1)

(* Mutant: what precedes the data is counted twice. *)
AppendStoreCountsHeadTwice ==
  StoreLen(append.cur_len + BlkLen(append.chunk) + CHUNK_BLOOM_FILTER_LEN + 1)

(* Mutant: dataLen is read again instead of using cur_len. *)
AppendStoreRereads == StoreLen(dataLen + BlkLen(append.chunk))

AppendStore == StoreLen(append.cur_len + BlkLen(append.chunk))

(* The transaction commits: the undo log is dropped.  A CleanUp may have   *)
(* come since the store, and dataLen is then 0.                            *)
AppendCommit == AppendGoTo("commit", "range") /\ UNCHANGED buf /\ CopyFrame

(* The assignment to dataLen cannot be logged: the transaction aborts and  *)
(* the exception leaves Append, with the entry still in blklist.           *)
AppendAbort ==
  /\ append.at = "store" /\ append' = Idle
  /\ UNCHANGED <<dataLen, buf, key_range_, orphans, tab, live>> /\ AppendFrame

(* CheckAndUpdateKeyRange: a new range is allocated and filled, but        *)
(* key_range_ is never made to point to it.  An empty Slice is 0, below    *)
(* every key.                                                              *)
GetRealRange == key_range_

CheckAndUpdateKeyRange ==
  LET c            == append.chunk
      update_start == GetRealRange.start > c.start
      update_end   == GetRealRange.end < c.end
  IN  /\ append.at = "range" /\ append' = Idle
      /\ orphans' = IF update_start \/ update_end THEN orphans + 1 ELSE orphans
      /\ UNCHANGED <<dataLen, buf, key_range_, tab, live>> /\ AppendFrame

-----------------------------------------------------------------------------
(* The compaction thread.                                                  *)

CompactFrame == UNCHANGED <<append, process, restarts, seq_num_, buf,
                            key_range_, orphans>>

SetCompactionWorking(working) ==
  /\ pendding_clean_' = Len(blklist)
  /\ in_compaction_' = working
  /\ UNCHANGED <<dataLen, blklist, rebuild, live>> /\ CompactFrame

CompactBegin ==
  /\ process = "up" /\ compact = "idle" /\ compact' = "working"
  /\ SetCompactionWorking(TRUE)

CompactEnd ==
  /\ compact = "cleaned" /\ compact' = "idle"
  /\ SetCompactionWorking(FALSE)

(* FixedRangeTab::CleanUp: the assignment, then the call.                  *)
CleanUp ==
  /\ compact = "working" /\ compact' = "reset"
  /\ dataLen' = 0
  /\ live' = {}
  /\ UNCHANGED <<tab, rebuild>> /\ CompactFrame

CleanUpRebuild ==
  /\ compact = "reset" /\ compact' = "rebuild"
  /\ RebuildBlkList
  /\ UNCHANGED <<dataLen, tab, live>> /\ CompactFrame

-----------------------------------------------------------------------------

AppendNext ==
  \/ \E c \in Chunks : AppendBegin(c)
  \/ AppendBloom \/ AppendLen \/ AppendData
  \/ AppendStore \/ AppendAbort \/ AppendCommit
  \/ CheckAndUpdateKeyRange

CompactNext == CompactBegin \/ CleanUp \/ CleanUpRebuild \/ CompactEnd

Next ==
  \/ ConstructNew \/ ConstructRebuild \/ Crash
  \/ RebuildStep \/ RebuildDone
  \/ AppendNext
  \/ CompactNext

Spec == Init /\ [][Next]_vars

-----------------------------------------------------------------------------
(* Properties.                                                             *)

End(b) == b.offset + BlkLen(b.chunk)

(* The blocks this process has counted in dataLen since the last CleanUp.  *)
Current == {b \in live : b.run = restarts}

(* What a reader that follows a blklist entry finds: Get and               *)
(* NewInternalIterator read chunkLen_ words from getDatOffset.             *)
Reads(blk, c) ==
  /\ blk.chunkLen_ = Size(c)
  /\ \A i \in 1..CHUNK_BLOOM_FILTER_LEN : buf[blk.offset_ + i - 1] = c.bloom[i]
  /\ \A i \in 1..Size(c) : buf[getDatOffset(blk) + i - 1] = c.data[i]

(* Once Append has stored the new dataLen (fixed_range_tab.cc:107), the    *)
(* chunk stays in blklist and what a reader finds there is the chunk, word *)
(* for word, until a CleanUp's own store or the end of the process: later  *)
(* and aborted Appends, a CleanUp that overlaps an Append, and             *)
(* RebuildBlkList never touch it.  The CleanUp that ends the promise may   *)
(* come before the Append has committed (109) and returned.                *)
CommittedReadable ==
  \A b \in Current : \E i \in 1..Len(blklist) :
    blklist[i].offset_ = b.offset /\ Reads(blklist[i], b.chunk)

(* The blocks counted since the last CleanUp lie one after the other with  *)
(* no gap and end at dataLen (fixed_range_tab.cc:97, 107), which is what a *)
(* walk over the buffer relies on, even when CleanUp resets dataLen under  *)
(* an Append.  Where the first one starts is left open: an Append that a   *)
(* CleanUp overtakes keeps its old cur_len, drained words below it or not. *)
CommittedContiguous ==
  Current # {} =>
    /\ \E b \in Current : End(b) = dataLen
    /\ \A b, d \in Current : b # d => End(b) <= d.offset \/ End(d) <= b.offset
    /\ \E first \in Current : \A b \in Current \ {first} :
         \E d \in Current : End(d) = b.offset

-----------------------------------------------------------------------------
(* What the documentation says and the code does not do.                   *)

(* fixed_range_tab.cc:42-52: only a "new node" is set up afresh, any other *)
(* node is rebuilt: every committed chunk is indexed again after a restart.*)
Recovered ==
  process = "up" =>
    \A b \in live : \E i \in 1..Len(blklist) :
      /\ blklist[i].offset_ = b.offset
      /\ blklist[i].chunkLen_ = Size(b.chunk)

=============================================================================
