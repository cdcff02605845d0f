--------------------------- MODULE RangeTabProofs ---------------------------
(***************************************************************************)
(* Theorems about FixedRangeTab.  A counted chunk stays readable: proved   *)
(* for every set of chunks, every buffer and every bound, when the bloom   *)
(* length that Append uses is the one the readers use.  Get finds the      *)
(* newest version of a key, and throws only where ThrowExplained says:     *)
(* proved for every list of chunks and every width of size_t.              *)
(***************************************************************************)
EXTENDS RangeTab, ChunkSearch, TLAPS

(* The words of a chunk in a memory, where Append puts them.               *)
BloomAt(mem, c, off) ==
  \A w \in 1..CHUNK_BLOOM_FILTER_LEN : mem[off + w - 1] = c.bloom[w]

DataAt(mem, c, off) ==
  \A w \in 1..Size(c) :
    mem[off + CHUNK_BLOOM_FILTER_LEN + w] = c.data[w]

Indexed(list, c, off) ==
  \E w \in 1..Len(list) :
    list[w] = ChunkBlk(chunk_bloom_bits_, off, Size(c))

(* Every counted block of this process is indexed and in the buffer.       *)
Kept == \A b \in Current : /\ Indexed(blklist, b.chunk, b.offset)
                           /\ BloomAt(buf, b.chunk, b.offset)
                           /\ DataAt(buf, b.chunk, b.offset)

Below == \A b \in Current : End(b) <= dataLen

(* How far the copying of an Append in progress has come.  Everything      *)
(* counted ends at or below its cur_len, whatever dataLen has become.      *)
Copying == append.at \in {"bloom", "len", "data", "store"}

InProgress ==
  Copying =>
    /\ append.cur_len + BlkLen(append.chunk) <= Memory
    /\ \A b \in Current : End(b) <= append.cur_len
    /\ Indexed(blklist, append.chunk, append.cur_len)
    /\ append.at # "bloom" => BloomAt(buf, append.chunk, append.cur_len)
    /\ append.at = "store" => DataAt(buf, append.chunk, append.cur_len)

(* A process that is not up runs no Append and has committed nothing.      *)
Quiet ==
  /\ \A b \in live : b.run <= restarts
  /\ process # "up" => append.at = "idle" /\ Current = {}

Safe == Quiet /\ Kept /\ Below /\ InProgress

IInv == TypeOK /\ Safe

-----------------------------------------------------------------------------
(* Chunks and writes.                                                      *)

LEMMA Lengths ==
  /\ CHUNK_BLOOM_FILTER_LEN \in Nat /\ chunk_bloom_bits_ \in Nat
  /\ Memory \in Nat /\ 2 <= Memory /\ MaxRestarts \in Nat
  BY RangeTabAssumption

LEMMA ChunkFacts ==
  ASSUME NEW c \in Chunks
  PROVE  /\ c.bloom \in [1..CHUNK_BLOOM_FILTER_LEN -> Nat]
         /\ c.data \in Seq(Nat) /\ Size(c) \in Nat
         /\ BlkLen(c) \in Nat /\ BlkLen(c) >= 1
<1>1. c \in Chunk
  BY RangeTabAssumption
<1>2. c.bloom \in [1..CHUNK_BLOOM_FILTER_LEN -> Nat] /\ c.data \in Seq(Nat)
  BY <1>1 DEF Chunk
<1>3. Size(c) \in Nat
  BY <1>2 DEF Size
<1>4. BlkLen(c) \in Nat /\ BlkLen(c) >= 1
  BY <1>3, Lengths DEF BlkLen
<1> QED BY <1>2, <1>3, <1>4

(* A write of words of type Nat keeps the buffer's type.                   *)
LEMMA WriteType ==
  ASSUME TypeOK, NEW dest \in Nat, NEW len \in Nat, NEW words,
         \A w \in 1..len : words[w] \in Nat,
         Write(dest, words, len)
  PROVE  buf' \in [Addr -> Nat]
<1>1. ASSUME NEW a \in Addr, dest <= a, a < dest + len
      PROVE  words[a - dest + 1] \in Nat
  <2>1. a \in Nat
    BY Lengths DEF Addr
  <2>2. a - dest + 1 \in 1..len
    BY <1>1, <2>1
  <2> QED BY <2>2
<1> QED BY <1>1 DEF TypeOK, Write

(* A write above a block leaves the block alone.                           *)
LEMMA WriteAbove ==
  ASSUME TypeOK, NEW dest \in Nat, NEW len \in Nat, NEW words,
         Write(dest, words, len),
         NEW c \in Chunks, NEW off \in Nat,
         off + BlkLen(c) <= dest, off + BlkLen(c) <= Memory
  PROVE  /\ BloomAt(buf, c, off) => BloomAt(buf', c, off)
         /\ DataAt(buf, c, off) => DataAt(buf', c, off)
<1>1. Size(c) \in Nat /\ BlkLen(c) = CHUNK_BLOOM_FILTER_LEN + 1 + Size(c)
  BY ChunkFacts DEF BlkLen
<1>2. ASSUME NEW a \in Nat, a < off + BlkLen(c) PROVE buf'[a] = buf[a]
  <2>1. BlkLen(c) \in Nat
    BY ChunkFacts
  <2>2. a \in Addr /\ ~(dest <= a)
    BY <1>2, <2>1, Lengths DEF Addr
  <2> QED BY <2>2 DEF Write
<1>3. ASSUME NEW w \in 1..CHUNK_BLOOM_FILTER_LEN
      PROVE  buf'[off + w - 1] = buf[off + w - 1]
  <2>1. off + w - 1 \in Nat /\ off + w - 1 < off + BlkLen(c)
    BY <1>1, Lengths
  <2> QED BY <1>2, <2>1
<1>4. ASSUME NEW w \in 1..Size(c)
      PROVE  buf'[off + CHUNK_BLOOM_FILTER_LEN + w] = buf[off + CHUNK_BLOOM_FILTER_LEN + w]
  <2>1. /\ off + CHUNK_BLOOM_FILTER_LEN + w \in Nat
        /\ off + CHUNK_BLOOM_FILTER_LEN + w < off + BlkLen(c)
    BY <1>1, Lengths
  <2> QED BY <1>2, <2>1
<1> QED BY <1>3, <1>4 DEF BloomAt, DataAt

(* A write puts its words where it says.                                   *)
LEMMA WriteHere ==
  ASSUME NEW dest \in Nat, NEW len \in Nat, NEW words,
         Write(dest, words, len), dest + len <= Memory
  PROVE  \A w \in 1..len : buf'[dest + w - 1] = words[w]
<1> TAKE w \in 1..len
<1>1. dest + w - 1 \in Addr /\ dest <= dest + w - 1 /\ dest + w - 1 < dest + len
  BY Lengths DEF Addr
<1>2. (dest + w - 1) - dest + 1 = w
  OBVIOUS
<1> QED BY <1>1, <1>2 DEF Write

(* An entry of blklist survives another one behind it, which is found.     *)
LEMMA IndexGrows ==
  ASSUME NEW list \in Seq(Block), NEW entry \in Block
  PROVE  /\ Append(list, entry) \in Seq(Block)
         /\ Append(list, entry)[Len(list) + 1] = entry
         /\ Len(Append(list, entry)) = Len(list) + 1
         /\ \A w \in 1..Len(list) : Append(list, entry)[w] = list[w]
  OBVIOUS

LEMMA IndexedGrows ==
  ASSUME NEW list \in Seq(Block), NEW entry \in Block, NEW c, NEW off,
         Indexed(list, c, off)
  PROVE  Indexed(Append(list, entry), c, off)
<1>1. PICK w \in 1..Len(list) :
        list[w] = ChunkBlk(chunk_bloom_bits_, off, Size(c))
  BY DEF Indexed
<1>2. w \in 1..Len(Append(list, entry)) /\ Append(list, entry)[w] = list[w]
  BY IndexGrows
<1> QED BY <1>1, <1>2 DEF Indexed

LEMMA BlkType ==
  ASSUME NEW off \in Nat, NEW len \in Nat
  PROVE  ChunkBlk(chunk_bloom_bits_, off, len) \in Block
  BY Lengths DEF ChunkBlk, Block

-----------------------------------------------------------------------------
(* Type correctness.  in_compaction_, the one Boolean, is kept apart from  *)
(* the conjuncts that need arithmetic.                                     *)

TypeNode == /\ dataLen \in 0..Memory
            /\ seq_num_ \in Nat
            /\ buf \in [Addr -> Nat]
            /\ key_range_ \in [start : Nat, end : Nat]
            /\ orphans \in Nat

TypeTab == blklist \in Seq(Block) /\ pendding_clean_ \in Nat

TypeAppend ==
  /\ append \in [at : {"idle", "bloom", "len", "data", "store", "commit", "range"},
                 chunk : Chunks \cup {NoChunk}, cur_len : 0..Memory, undo : 0..Memory]
  /\ append.at # "idle" => append.chunk \in Chunks

TypeOthers ==
  /\ compact \in {"idle", "working", "reset", "rebuild", "cleaned"}
  /\ rebuild \in [offset : Nat, dataLen : 0..Memory]
  /\ process \in {"down", "starting", "up"}
  /\ restarts \in 0..MaxRestarts
  /\ live \subseteq [offset : 0..Memory, chunk : Chunks, run : 0..MaxRestarts]

LEMMA TypeParts ==
  TypeOK <=> /\ TypeNode /\ TypeTab /\ TypeAppend /\ TypeOthers
             /\ in_compaction_ \in BOOLEAN
  BY Zenon DEF TypeOK, TypeNode, TypeTab, TypeAppend, TypeOthers

LEMMA TypeInit == Init => TypeOK
<1> SUFFICES ASSUME Init PROVE TypeOK
  OBVIOUS
<1>1. TypeNode
  BY RangeTabAssumption, Lengths DEF Init, TypeNode, NoRange, Addr
<1>2. TypeTab
  BY DEF Init, TypeTab
<1>3. TypeAppend
  BY Lengths DEF Init, TypeAppend, Idle
<1>4. TypeOthers
  BY Lengths DEF Init, TypeOthers, NoLoop
<1>5. in_compaction_ \in BOOLEAN
  BY Zenon DEF Init
<1> QED BY <1>1, <1>2, <1>3, <1>4, <1>5, TypeParts

-----------------------------------------------------------------------------
(* The safety part of the invariant.                                       *)

LEMMA InitSafe == Init => Safe
<1> SUFFICES ASSUME Init PROVE Safe
  OBVIOUS
<1>1. live = {} /\ append.at = "idle" /\ Current = {}
  BY DEF Init, Idle, Current
<1> QED BY <1>1 DEF Safe, Quiet, Kept, Below, InProgress, Copying

(* A step that leaves buffer, index, history and the flush thread alone    *)
(* and does not stop the process.                                          *)
LEMMA Untouched ==
  ASSUME Safe, UNCHANGED <<dataLen, buf, blklist, append, live, restarts>>,
         process' # "up" => process # "up"
  PROVE  Safe'
<1>1. Current' = Current /\ \A b : End(b)' = End(b)
  BY DEF Current, End
<1>2. Quiet'
  BY <1>1 DEF Safe, Quiet
<1>3. Kept'
  BY <1>1 DEF Safe, Kept
<1>4. Below'
  BY <1>1 DEF Safe, Below, End
<1>5. InProgress'
  BY <1>1 DEF Safe, InProgress, Copying, End
<1> QED BY <1>2, <1>3, <1>4, <1>5 DEF Safe

(* The flush thread returns from Append. *)
LEMMA AppendReturns ==
  ASSUME Safe, append' = Idle,
         UNCHANGED <<dataLen, buf, blklist, live, restarts, process>>
  PROVE  Safe'
<1>1. Current' = Current
  BY DEF Current
<1>2. append'.at = "idle"
  BY DEF Idle
<1>3. Quiet'
  BY <1>1, <1>2 DEF Safe, Quiet
<1>4. Kept'
  BY <1>1 DEF Safe, Kept
<1>5. Below'
  BY <1>1 DEF Safe, Below, End
<1>6. InProgress'
  BY <1>2 DEF InProgress, Copying
<1> QED BY <1>3, <1>4, <1>5, <1>6 DEF Safe

(* The index grows and nothing else does. *)
LEMMA IndexOnly ==
  ASSUME TypeOK, Safe, NEW entry \in Block, blklist' = Append(blklist, entry),
         UNCHANGED <<dataLen, buf, append, live, restarts, process>>
  PROVE  Safe'
<1>0. blklist \in Seq(Block)
  BY DEF TypeOK
<1>1. Current' = Current
  BY DEF Current
<1>2. Quiet'
  BY <1>1 DEF Safe, Quiet
<1>3. Kept'
  <2>1. ASSUME NEW b \in Current PROVE Indexed(blklist', b.chunk, b.offset)
    BY <1>0, IndexedGrows DEF Safe, Kept
  <2> QED BY <1>1, <2>1 DEF Safe, Kept
<1>4. Below'
  BY <1>1 DEF Safe, Below, End
<1>5. InProgress'
  <2>1. Indexed(blklist, append.chunk, append.cur_len)
          => Indexed(blklist', append.chunk, append.cur_len)
    BY <1>0, IndexedGrows
  <2> QED BY <1>1, <2>1 DEF Safe, InProgress, Copying, End
<1> QED BY <1>2, <1>3, <1>4, <1>5 DEF Safe

(* What is known of the flush thread while it copies. *)
LEMMA CopyingFacts ==
  ASSUME TypeOK, Safe, Copying
  PROVE  /\ append.chunk \in Chunks /\ append.cur_len \in Nat
         /\ Size(append.chunk) \in Nat
         /\ append.cur_len + BlkLen(append.chunk) <= Memory
         /\ \A w \in 1..CHUNK_BLOOM_FILTER_LEN : append.chunk.bloom[w] \in Nat
         /\ \A w \in 1..Size(append.chunk) : append.chunk.data[w] \in Nat
         /\ process = "up"
<1>1. append.chunk \in Chunks /\ append.cur_len \in Nat
  <2>1. append.at # "idle"
    BY DEF Copying
  <2>2. append.chunk \in Chunks
    BY <2>1 DEF TypeOK
  <2>3. append.cur_len \in 0..Memory
    BY DEF TypeOK
  <2> QED BY <2>2, <2>3, Lengths
<1>2. append.cur_len + BlkLen(append.chunk) <= Memory
  BY DEF Safe, InProgress
<1>3. append.chunk.bloom \in [1..CHUNK_BLOOM_FILTER_LEN -> Nat]
  BY <1>1, ChunkFacts
<1>4. append.chunk.data \in Seq(Nat) /\ Size(append.chunk) \in Nat
  BY <1>1, ChunkFacts
<1>5. \A w \in 1..Size(append.chunk) : append.chunk.data[w] \in Nat
  BY <1>4 DEF Size
<1>6. process = "up"
  BY DEF Safe, Quiet, Copying
<1> QED BY <1>1, <1>2, <1>3, <1>4, <1>5, <1>6

(* The blocks of Current have chunks, offsets and ends. *)
LEMMA CurrentFacts ==
  ASSUME TypeOK, NEW b \in Current
  PROVE  /\ b \in live /\ b.run = restarts
         /\ b.chunk \in Chunks /\ b.offset \in Nat
         /\ BlkLen(b.chunk) \in Nat /\ BlkLen(b.chunk) >= 1
         /\ End(b) = b.offset + BlkLen(b.chunk) /\ End(b) \in Nat
<1>1. b \in live /\ b.run = restarts
  BY DEF Current
<1>2. b \in [offset : 0..Memory, chunk : Chunks, run : 0..MaxRestarts]
  BY <1>1 DEF TypeOK
<1>3. b.chunk \in Chunks /\ b.offset \in Nat
  BY <1>2, Lengths
<1>4. BlkLen(b.chunk) \in Nat /\ BlkLen(b.chunk) >= 1
  BY <1>3, ChunkFacts
<1> QED BY <1>1, <1>3, <1>4 DEF End

(* Copying into the new block leaves every committed one alone. *)
LEMMA CopyKeeps ==
  ASSUME TypeOK, Safe, Copying,
         NEW dest \in Nat, NEW len \in Nat, NEW words,
         append.cur_len <= dest,
         Write(dest, words, len),
         UNCHANGED <<dataLen, blklist, live, restarts, process>>,
         append'.at # "idle"
  PROVE  Quiet' /\ Kept' /\ Below' /\ Current' = Current
<1>1. Current' = Current
  BY DEF Current
<1>2. Kept'
  <2>1. ASSUME NEW b \in Current
        PROVE  /\ BloomAt(buf', b.chunk, b.offset)
               /\ DataAt(buf', b.chunk, b.offset)
    <3>1. /\ b.chunk \in Chunks /\ b.offset \in Nat
          /\ End(b) = b.offset + BlkLen(b.chunk) /\ End(b) \in Nat
      BY CurrentFacts
    <3>2. End(b) <= append.cur_len
      BY DEF Safe, InProgress
    <3>3. append.cur_len \in Nat /\ append.cur_len <= Memory
      <4>1. append.cur_len \in 0..Memory
        BY DEF TypeOK
      <4> QED BY <4>1, Lengths
    <3>4. /\ b.offset + BlkLen(b.chunk) <= dest
          /\ b.offset + BlkLen(b.chunk) <= Memory
      BY <3>1, <3>2, <3>3, Lengths
    <3>5. BloomAt(buf, b.chunk, b.offset) /\ DataAt(buf, b.chunk, b.offset)
      BY DEF Safe, Kept
    <3> QED BY <3>1, <3>4, <3>5, WriteAbove
  <2> QED BY <1>1, <2>1 DEF Safe, Kept
<1>3. Below'
  BY <1>1 DEF Safe, Below, End
<1>4. process = "up"
  BY CopyingFacts
<1>5. Quiet'
  BY <1>1, <1>4 DEF Safe, Quiet
<1> QED BY <1>1, <1>2, <1>3, <1>5

-----------------------------------------------------------------------------
(* One lemma for each action of the flush thread.                          *)

LEMMA AppendBeginStep ==
  ASSUME IInv, NEW c \in Chunks, AppendBegin(c)
  PROVE  IInv'
<1> DEFINE entry == ChunkBlk(chunk_bloom_bits_, dataLen, Size(c))
<1>1. TypeOK /\ Safe /\ process = "up"
  BY DEF IInv, AppendBegin
<1>2. /\ dataLen \in Nat /\ dataLen <= Memory /\ Size(c) \in Nat
      /\ blklist \in Seq(Block) /\ entry \in Block
  BY <1>1, ChunkFacts, BlkType, Lengths DEF TypeOK
<1>3. /\ append'.at = "bloom" /\ append'.chunk = c /\ append'.cur_len = dataLen
      /\ blklist' = Append(blklist, entry)
      /\ UNCHANGED <<dataLen, buf, live, restarts, process>>
  BY DEF AppendBegin, AppendFrame
<1>4. TypeOK'
  <2>1. TypeNode'
    BY <1>1 DEF TypeOK, TypeNode, AppendBegin, AppendFrame
  <2>2. TypeTab'
    BY <1>1, <1>2, <1>3, IndexGrows DEF TypeOK, TypeTab, AppendBegin
  <2>3. TypeAppend'
    BY <1>2, Lengths DEF TypeAppend, AppendBegin
  <2>4. TypeOthers'
    BY <1>1 DEF TypeOK, TypeOthers, AppendBegin, AppendFrame
  <2>5. in_compaction_' \in BOOLEAN
    BY <1>1, Zenon DEF TypeOK, AppendBegin
  <2> QED BY <2>1, <2>2, <2>3, <2>4, <2>5, Zenon
          DEF TypeOK, TypeNode, TypeTab, TypeAppend, TypeOthers
<1>5. Current' = Current
  BY <1>3 DEF Current
<1>6. Quiet'
  BY <1>1, <1>3, <1>5 DEF Safe, Quiet
<1>7. Kept'
  <2>1. ASSUME NEW b \in Current PROVE Indexed(blklist', b.chunk, b.offset)
    BY <1>1, <1>2, <1>3, IndexedGrows DEF Safe, Kept
  <2> QED BY <1>1, <1>3, <1>5, <2>1 DEF Safe, Kept
<1>8. Below'
  BY <1>1, <1>3, <1>5 DEF Safe, Below, End
<1>9. InProgress'
  <2>1. dataLen + BlkLen(c) <= Memory
    BY DEF AppendBegin
  <2>2. \A b \in Current : End(b) <= dataLen
    BY <1>1 DEF Safe, Below
  <2>3. Indexed(blklist', c, dataLen)
    <3>1. Len(blklist) + 1 \in 1..Len(blklist')
      BY <1>2, <1>3, IndexGrows
    <3>2. blklist'[Len(blklist) + 1] = entry
      BY <1>2, <1>3, IndexGrows
    <3> QED BY <3>1, <3>2 DEF Indexed
  <2> QED BY <1>3, <1>5, <2>1, <2>2, <2>3 DEF InProgress, Copying, End
<1> QED BY <1>4, <1>6, <1>7, <1>8, <1>9 DEF IInv, Safe

(* A step of the copying keeps the types when its words are in the buffer. *)
LEMMA CopyType ==
  ASSUME TypeOK, NEW from, NEW to,
         to \in {"len", "data", "store"}, from # "idle",
         AppendGoTo(from, to), CopyFrame, buf' \in [Addr -> Nat]
  PROVE  /\ TypeOK'
         /\ append'.at = to /\ append'.chunk = append.chunk
         /\ append'.cur_len = append.cur_len
<1>1. append \in [at : {"idle", "bloom", "len", "data", "store", "commit", "range"},
                  chunk : Chunks \cup {NoChunk}, cur_len : 0..Memory, undo : 0..Memory]
      /\ append.chunk \in Chunks
  BY DEF TypeOK, AppendGoTo
<1>2. append'.at = to /\ append'.chunk = append.chunk
      /\ append'.cur_len = append.cur_len
  BY <1>1 DEF AppendGoTo
<1>3. TypeNode'
  BY DEF TypeOK, TypeNode, CopyFrame, AppendFrame
<1>4. TypeTab'
  BY DEF TypeOK, TypeTab, CopyFrame, tab
<1>5. TypeAppend'
  BY <1>1, <1>2 DEF TypeAppend, AppendGoTo
<1>6. TypeOthers'
  BY DEF TypeOK, TypeOthers, CopyFrame, AppendFrame
<1>7. in_compaction_' \in BOOLEAN
  BY Zenon DEF TypeOK, CopyFrame, tab
<1>8. TypeOK'
  BY <1>3, <1>4, <1>5, <1>6, <1>7, Zenon
     DEF TypeOK, TypeNode, TypeTab, TypeAppend, TypeOthers
<1> QED BY <1>2, <1>8

LEMMA AppendBloomStep ==
  ASSUME IInv, AppendBloom
  PROVE  IInv'
<1> DEFINE c == append.chunk
           N == CHUNK_BLOOM_FILTER_LEN
<1>1. /\ TypeOK /\ Safe /\ Copying
      /\ AppendGoTo("bloom", "len") /\ CopyFrame
      /\ Write(append.cur_len, c.bloom, N)
      /\ UNCHANGED <<dataLen, blklist, live, restarts, process>>
  BY DEF IInv, AppendBloom, Copying, AppendGoTo, CopyFrame, AppendFrame, tab
<1>2. /\ c \in Chunks /\ append.cur_len \in Nat /\ N \in Nat
      /\ \A w \in 1..N : c.bloom[w] \in Nat
      /\ append.cur_len + BlkLen(c) <= Memory
      /\ Size(c) \in Nat
  BY <1>1, CopyingFacts, Lengths
<1>3. buf' \in [Addr -> Nat]
  BY <1>1, <1>2, WriteType
<1>4. /\ TypeOK' /\ append'.at = "len" /\ append'.chunk = append.chunk
      /\ append'.cur_len = append.cur_len
  BY <1>1, <1>3, CopyType
<1>5. Quiet' /\ Kept' /\ Below' /\ Current' = Current
  BY <1>1, <1>2, <1>4, CopyKeeps
<1>6. BloomAt(buf', c, append.cur_len)
  <2>1. append.cur_len + N <= Memory
    BY <1>2, Lengths DEF BlkLen
  <2> QED BY <1>1, <1>2, <2>1, WriteHere DEF BloomAt
<1>7. InProgress'
  BY <1>1, <1>4, <1>5, <1>6 DEF Safe, InProgress, Copying, End
<1> QED BY <1>4, <1>5, <1>7 DEF IInv, Safe

(* The length word leaves the bloom words alone. *)
LEMMA AppendLenStep ==
  ASSUME IInv, AppendLen
  PROVE  IInv'
<1> DEFINE c == append.chunk
           N == CHUNK_BLOOM_FILTER_LEN
<1>1. /\ TypeOK /\ Safe /\ Copying /\ append.at = "len"
      /\ AppendGoTo("len", "data") /\ CopyFrame
      /\ Write(append.cur_len + N, <<Size(c)>>, 1)
      /\ UNCHANGED <<dataLen, blklist, live, restarts, process>>
  BY DEF IInv, AppendLen, Copying, AppendGoTo, CopyFrame, AppendFrame, tab
<1>2. /\ c \in Chunks /\ append.cur_len \in Nat /\ N \in Nat
      /\ append.cur_len + BlkLen(c) <= Memory
      /\ Size(c) \in Nat
  BY <1>1, CopyingFacts, Lengths
<1>3. buf' \in [Addr -> Nat]
  <2>1. \A w \in 1..1 : <<Size(c)>>[w] \in Nat
    BY <1>2
  <2>2. append.cur_len + N \in Nat
    BY <1>2
  <2> QED BY <1>1, <2>1, <2>2, WriteType
<1>4. /\ TypeOK' /\ append'.at = "data" /\ append'.chunk = append.chunk
      /\ append'.cur_len = append.cur_len
  BY <1>1, <1>3, CopyType
<1>5. Quiet' /\ Kept' /\ Below' /\ Current' = Current
  <2>1. append.cur_len + N \in Nat /\ append.cur_len <= append.cur_len + N
    BY <1>2
  <2> QED BY <1>1, <1>4, <2>1, CopyKeeps
<1>6. BloomAt(buf', c, append.cur_len)
  <2>1. BloomAt(buf, c, append.cur_len)
    BY <1>1 DEF Safe, InProgress
  <2>2. ASSUME NEW w \in 1..N
        PROVE  buf'[append.cur_len + w - 1] = buf[append.cur_len + w - 1]
    <3>1. /\ append.cur_len + w - 1 \in Addr
          /\ ~(append.cur_len + N <= append.cur_len + w - 1)
      BY <1>2, Lengths DEF Addr, BlkLen
    <3> QED BY <1>1, <3>1 DEF Write
  <2> QED BY <2>1, <2>2 DEF BloomAt
<1>7. InProgress'
  BY <1>1, <1>4, <1>5, <1>6 DEF Safe, InProgress, Copying, End
<1> QED BY <1>4, <1>5, <1>7 DEF IInv, Safe

LEMMA AppendDataStep ==
  ASSUME IInv, AppendData
  PROVE  IInv'
<1> DEFINE c == append.chunk
           N == CHUNK_BLOOM_FILTER_LEN
<1>1. /\ TypeOK /\ Safe /\ Copying /\ append.at = "data"
      /\ AppendGoTo("data", "store") /\ CopyFrame
      /\ Write(append.cur_len + N + 1, c.data, Size(c))
      /\ UNCHANGED <<dataLen, blklist, live, restarts, process>>
  BY DEF IInv, AppendData, Copying, AppendGoTo, CopyFrame, AppendFrame, tab
<1>2. /\ c \in Chunks /\ append.cur_len \in Nat /\ N \in Nat
      /\ append.cur_len + BlkLen(c) <= Memory
      /\ Size(c) \in Nat
      /\ \A w \in 1..Size(c) : c.data[w] \in Nat
  BY <1>1, CopyingFacts, Lengths
<1>3. append.cur_len + N + 1 \in Nat /\ append.cur_len <= append.cur_len + N + 1
  BY <1>2
<1>4. buf' \in [Addr -> Nat]
  BY <1>1, <1>2, <1>3, WriteType
<1>5. /\ TypeOK' /\ append'.at = "store" /\ append'.chunk = append.chunk
      /\ append'.cur_len = append.cur_len
  BY <1>1, <1>4, CopyType
<1>6. Quiet' /\ Kept' /\ Below' /\ Current' = Current
  BY <1>1, <1>2, <1>3, <1>5, CopyKeeps
<1>7. BloomAt(buf', c, append.cur_len)
  <2>1. BloomAt(buf, c, append.cur_len)
    BY <1>1 DEF Safe, InProgress
  <2>2. ASSUME NEW w \in 1..N
        PROVE  buf'[append.cur_len + w - 1] = buf[append.cur_len + w - 1]
    <3>1. /\ append.cur_len + w - 1 \in Addr
          /\ ~(append.cur_len + N + 1 <= append.cur_len + w - 1)
      BY <1>2, Lengths DEF Addr, BlkLen
    <3> QED BY <1>1, <3>1 DEF Write
  <2> QED BY <2>1, <2>2 DEF BloomAt
<1>8. DataAt(buf', c, append.cur_len)
  <2>1. append.cur_len + N + 1 + Size(c) <= Memory
    BY <1>2, Lengths DEF BlkLen
  <2>2. \A w \in 1..Size(c) : buf'[append.cur_len + N + 1 + w - 1] = c.data[w]
    BY <1>1, <1>2, <1>3, <2>1, WriteHere
  <2>3. \A w \in 1..Size(c) :
          append.cur_len + N + 1 + w - 1 = append.cur_len + N + w
    BY <1>2
  <2> QED BY <2>2, <2>3 DEF DataAt
<1>9. InProgress'
  BY <1>1, <1>5, <1>6, <1>7, <1>8 DEF Safe, InProgress, Copying, End
<1> QED BY <1>5, <1>6, <1>9 DEF IInv, Safe

LEMMA AppendStoreStep ==
  ASSUME IInv, AppendStore
  PROVE  IInv'
<1> DEFINE new == [offset |-> append.cur_len, chunk |-> append.chunk,
                   run |-> restarts]
<1>1. /\ TypeOK /\ Safe /\ Copying /\ append.at = "store"
      /\ live' = live \cup {new}
      /\ dataLen' = append.cur_len + BlkLen(append.chunk)
      /\ append' = [append EXCEPT !.at = "commit", !.undo = dataLen]
      /\ UNCHANGED <<buf, blklist, restarts, process>>
  BY DEF IInv, AppendStore, StoreLen, NewBlk, Copying, AppendFrame, tab
<1>2. /\ append.chunk \in Chunks /\ append.cur_len \in Nat
      /\ append.cur_len + BlkLen(append.chunk) <= Memory
      /\ process = "up"
      /\ BlkLen(append.chunk) \in Nat
  BY <1>1, CopyingFacts, ChunkFacts
<1>3. /\ append \in [at : {"idle", "bloom", "len", "data", "store", "commit", "range"},
                     chunk : Chunks \cup {NoChunk}, cur_len : 0..Memory, undo : 0..Memory]
      /\ append'.at = "commit" /\ dataLen \in 0..Memory /\ append'.chunk = append.chunk
  BY <1>1 DEF TypeOK
<1>4. TypeOK'
  <2>1. TypeNode'
    <3>1. dataLen' \in 0..Memory
      BY <1>1, <1>2, Lengths
    <3>2. UNCHANGED <<seq_num_, buf, key_range_, orphans>>
      BY DEF AppendStore, StoreLen, AppendFrame
    <3>3. /\ seq_num_ \in Nat /\ orphans \in Nat
          /\ buf \in [Addr -> Nat] /\ key_range_ \in [start : Nat, end : Nat]
      BY <1>1 DEF TypeOK
    <3> QED BY <3>1, <3>2, <3>3 DEF TypeNode
  <2>2. TypeTab'
    BY <1>1 DEF TypeOK, TypeTab, AppendStore, StoreLen, tab
  <2>3. TypeAppend'
    BY <1>1, <1>2, <1>3 DEF TypeAppend
  <2>4. TypeOthers'
    <3>1. restarts \in 0..MaxRestarts /\ append.cur_len \in 0..Memory
      BY <1>1, <1>3 DEF TypeOK
    <3>2. new \in [offset : 0..Memory, chunk : Chunks, run : 0..MaxRestarts]
      BY <1>2, <3>1
    <3>3. live' \subseteq [offset : 0..Memory, chunk : Chunks, run : 0..MaxRestarts]
      BY <1>1, <3>2 DEF TypeOK
    <3> QED BY <1>1, <3>3 DEF TypeOK, TypeOthers, AppendStore, StoreLen, AppendFrame
  <2>5. in_compaction_' \in BOOLEAN
    BY <1>1, Zenon DEF TypeOK, AppendStore, StoreLen, tab
  <2> QED BY <2>1, <2>2, <2>3, <2>4, <2>5, Zenon
          DEF TypeOK, TypeNode, TypeTab, TypeAppend, TypeOthers
<1>5. Current' = Current \cup {new}
  BY <1>1 DEF Current
<1>6. Quiet'
  <2>1. restarts \in Nat
    BY <1>1, Lengths DEF TypeOK
  <2>2. \A b \in live : b.run <= restarts
    BY <1>1 DEF Safe, Quiet
  <2>3. new.run <= restarts
    BY <2>1
  <2>4. \A b \in live' : b.run <= restarts'
    BY <1>1, <2>2, <2>3
  <2> QED BY <1>1, <1>2, <2>4 DEF Quiet
<1>7. Kept'
  <2>1. /\ Indexed(blklist, append.chunk, append.cur_len)
        /\ BloomAt(buf, append.chunk, append.cur_len)
        /\ DataAt(buf, append.chunk, append.cur_len)
    BY <1>1 DEF Safe, InProgress
  <2>2. new.chunk = append.chunk /\ new.offset = append.cur_len
    OBVIOUS
  <2>3. ASSUME NEW b \in Current'
        PROVE  /\ Indexed(blklist, b.chunk, b.offset)
               /\ BloomAt(buf, b.chunk, b.offset)
               /\ DataAt(buf, b.chunk, b.offset)
    <3>1. CASE b \in Current
      BY <1>1, <3>1 DEF Safe, Kept
    <3>2. CASE b = new
      BY <2>1, <2>2, <3>2
    <3> QED BY <1>5, <3>1, <3>2
  <2> QED BY <1>1, <2>3 DEF Kept
<1>8. Below'
  <2>1. ASSUME NEW b \in Current' PROVE End(b) <= dataLen'
    <3>1. CASE b \in Current
      <4>1. End(b) <= append.cur_len /\ End(b) \in Nat
        BY <1>1, <3>1, CurrentFacts DEF Safe, InProgress
      <4> QED BY <1>1, <1>2, <4>1
    <3>2. CASE b = new
      <4>1. End(b) = append.cur_len + BlkLen(append.chunk)
        BY <3>2 DEF End
      <4> QED BY <1>1, <1>2, <4>1
    <3> QED BY <1>5, <3>1, <3>2
  <2> QED BY <2>1 DEF Below, End
<1>9. InProgress'
  BY <1>3 DEF InProgress, Copying
<1> QED BY <1>4, <1>6, <1>7, <1>8, <1>9 DEF IInv, Safe

(* The commit moves nothing but the flush thread. *)
LEMMA AppendCommitStep ==
  ASSUME IInv, AppendCommit
  PROVE  IInv'
<1>1. /\ TypeOK /\ Safe /\ append.at = "commit"
      /\ append' = [append EXCEPT !.at = "range"]
      /\ UNCHANGED <<dataLen, buf, blklist, live, restarts, process>>
  BY DEF IInv, AppendCommit, AppendGoTo, CopyFrame, AppendFrame, tab
<1>2. /\ append \in [at : {"idle", "bloom", "len", "data", "store", "commit", "range"},
                     chunk : Chunks \cup {NoChunk}, cur_len : 0..Memory, undo : 0..Memory]
      /\ append'.at = "range" /\ append'.chunk = append.chunk
      /\ append.chunk \in Chunks
  BY <1>1 DEF TypeOK
<1>3. TypeOK'
  <2>1. TypeNode'
    BY <1>1 DEF TypeOK, TypeNode, AppendCommit, CopyFrame, AppendFrame
  <2>2. TypeTab'
    BY <1>1 DEF TypeOK, TypeTab, AppendCommit, CopyFrame, tab
  <2>3. TypeAppend'
    BY <1>1, <1>2 DEF TypeAppend
  <2>4. TypeOthers'
    BY <1>1 DEF TypeOK, TypeOthers, AppendCommit, CopyFrame, AppendFrame
  <2>5. in_compaction_' \in BOOLEAN
    BY <1>1, Zenon DEF TypeOK, AppendCommit, CopyFrame, tab
  <2> QED BY <2>1, <2>2, <2>3, <2>4, <2>5, Zenon
          DEF TypeOK, TypeNode, TypeTab, TypeAppend, TypeOthers
<1>4. Current' = Current
  BY <1>1 DEF Current
<1>5. process = "up"
  BY <1>1 DEF Safe, Quiet
<1>6. Quiet'
  BY <1>1, <1>4, <1>5 DEF Safe, Quiet
<1>7. Kept' /\ Below'
  BY <1>1, <1>4 DEF Safe, Kept, Below, End
<1>8. InProgress'
  BY <1>2 DEF InProgress, Copying
<1> QED BY <1>3, <1>6, <1>7, <1>8 DEF IInv, Safe

(* A step after which the flush thread is idle and the node is as before. *)
LEMMA AppendLeaves ==
  ASSUME IInv, append' = Idle, AppendFrame, orphans' \in Nat,
         UNCHANGED <<dataLen, buf, key_range_, tab, live>>
  PROVE  IInv'
<1>1. TypeOK /\ Safe
  BY DEF IInv
<1>2. TypeOK'
  <2>1. TypeNode'
    BY <1>1 DEF TypeOK, TypeNode, AppendFrame
  <2>2. TypeTab'
    BY <1>1 DEF TypeOK, TypeTab, tab
  <2>3. TypeAppend'
    BY Lengths DEF TypeAppend, Idle
  <2>4. TypeOthers'
    BY <1>1 DEF TypeOK, TypeOthers, AppendFrame
  <2>5. in_compaction_' \in BOOLEAN
    BY <1>1, Zenon DEF TypeOK, tab
  <2> QED BY <2>1, <2>2, <2>3, <2>4, <2>5, Zenon
          DEF TypeOK, TypeNode, TypeTab, TypeAppend, TypeOthers
<1>3. Safe'
  BY <1>1, AppendReturns DEF tab, AppendFrame
<1> QED BY <1>2, <1>3 DEF IInv

LEMMA AppendEndStep ==
  ASSUME IInv, AppendAbort \/ CheckAndUpdateKeyRange
  PROVE  IInv'
<1>1. orphans \in Nat
  BY DEF IInv, TypeOK
<1>2. CASE AppendAbort
  BY <1>1, <1>2, AppendLeaves DEF AppendAbort
<1>3. CASE CheckAndUpdateKeyRange
  <2>1. orphans' \in Nat
    BY <1>1, <1>3 DEF CheckAndUpdateKeyRange
  <2> QED BY <1>3, <2>1, AppendLeaves DEF CheckAndUpdateKeyRange
<1> QED BY <1>2, <1>3

-----------------------------------------------------------------------------
(* The compaction thread and the process.                                  *)

LEMMA CompactStep ==
  ASSUME IInv, CompactBegin \/ CompactEnd \/ CleanUpRebuild
  PROVE  IInv'
<1>1. TypeOK /\ Safe
  BY DEF IInv
<1>2. UNCHANGED <<dataLen, buf, blklist, append, live, restarts, process,
                  seq_num_, key_range_, orphans>>
  BY DEF CompactBegin, CompactEnd, SetCompactionWorking, CleanUpRebuild,
         CompactFrame, tab
<1>3. TypeOK'
  <2>1. TypeNode'
    BY <1>1, <1>2 DEF TypeOK, TypeNode
  <2>2. TypeTab'
    BY <1>1, <1>2
       DEF TypeOK, TypeTab, CompactBegin, CompactEnd, SetCompactionWorking,
           CleanUpRebuild, tab
  <2>3. TypeAppend'
    BY <1>1, <1>2 DEF TypeOK, TypeAppend
  <2>4. TypeOthers'
    <3>1. rebuild' \in [offset : Nat, dataLen : 0..Memory]
      BY <1>1 DEF TypeOK, CompactBegin, CompactEnd, SetCompactionWorking,
                  CleanUpRebuild, RebuildBlkList
    <3> QED BY <1>1, <1>2, <3>1
            DEF TypeOK, TypeOthers, CompactBegin, CompactEnd, CleanUpRebuild
  <2>5. in_compaction_' \in BOOLEAN
    BY <1>1, Zenon DEF TypeOK, CompactBegin, CompactEnd, SetCompactionWorking,
                       CleanUpRebuild, tab
  <2> QED BY <2>1, <2>2, <2>3, <2>4, <2>5, Zenon
          DEF TypeOK, TypeNode, TypeTab, TypeAppend, TypeOthers
<1>4. Safe'
  BY <1>1, <1>2, Untouched
<1> QED BY <1>3, <1>4 DEF IInv

(* CleanUp drops every committed block, so that an Append in progress has  *)
(* none below it and none above it.                                        *)
LEMMA CleanUpStep ==
  ASSUME IInv, CleanUp
  PROVE  IInv'
<1>1. /\ TypeOK /\ Safe /\ live' = {} /\ dataLen' = 0
      /\ UNCHANGED <<buf, blklist, append, restarts, process>>
  BY DEF IInv, CleanUp, CompactFrame, tab
<1>2. TypeOK'
  <2>1. TypeNode'
    BY <1>1, Lengths DEF TypeOK, TypeNode, CleanUp, CompactFrame
  <2>2. TypeTab'
    BY <1>1 DEF TypeOK, TypeTab, CleanUp, tab
  <2>3. TypeAppend'
    BY <1>1 DEF TypeOK, TypeAppend
  <2>4. TypeOthers'
    BY <1>1 DEF TypeOK, TypeOthers, CleanUp
  <2>5. in_compaction_' \in BOOLEAN
    BY <1>1, Zenon DEF TypeOK, CleanUp, tab
  <2> QED BY <2>1, <2>2, <2>3, <2>4, <2>5, Zenon
          DEF TypeOK, TypeNode, TypeTab, TypeAppend, TypeOthers
<1>3. Current' = {}
  BY <1>1 DEF Current
<1>4. Quiet'
  BY <1>1, <1>3 DEF Safe, Quiet
<1>5. Kept' /\ Below'
  BY <1>3 DEF Kept, Below
<1>6. InProgress'
  BY <1>1, <1>3 DEF Safe, InProgress, Copying
<1> QED BY <1>2, <1>4, <1>5, <1>6 DEF IInv, Safe

(* The constructor runs when nothing is committed by this process, so the  *)
(* header it writes overwrites nothing that is Current.                    *)
LEMMA ConstructNewStep ==
  ASSUME IInv, ConstructNew
  PROVE  IInv'
<1>1. /\ TypeOK /\ Safe /\ process = "down" /\ Write(0, <<0, 0>>, 2)
      /\ UNCHANGED <<dataLen, blklist, append, live, restarts>>
  BY DEF IInv, ConstructNew
<1>2. append.at = "idle" /\ Current = {} /\ Current' = {}
  BY <1>1 DEF Safe, Quiet, Current
<1>3. buf' \in [Addr -> Nat]
  <2>1. \A w \in 1..2 : <<0, 0>>[w] \in Nat
    OBVIOUS
  <2> QED BY <1>1, <2>1, WriteType
<1>4. TypeOK'
  <2>1. TypeNode'
    BY <1>1, <1>3 DEF TypeOK, TypeNode, ConstructNew
  <2>2. TypeTab'
    BY <1>1 DEF TypeOK, TypeTab, ConstructNew
  <2>3. TypeAppend'
    BY <1>1 DEF TypeOK, TypeAppend
  <2>4. TypeOthers'
    BY <1>1 DEF TypeOK, TypeOthers, ConstructNew
  <2>5. in_compaction_' \in BOOLEAN
    BY Zenon DEF ConstructNew
  <2> QED BY <2>1, <2>2, <2>3, <2>4, <2>5, Zenon
          DEF TypeOK, TypeNode, TypeTab, TypeAppend, TypeOthers
<1>5. Quiet'
  BY <1>1, <1>2 DEF Safe, Quiet
<1>6. Kept' /\ Below' /\ InProgress'
  BY <1>1, <1>2 DEF Kept, Below, InProgress, Copying
<1> QED BY <1>4, <1>5, <1>6 DEF IInv, Safe

LEMMA ConstructRebuildStep ==
  ASSUME IInv, ConstructRebuild \/ RebuildDone
  PROVE  IInv'
<1>1. /\ TypeOK /\ Safe
      /\ UNCHANGED <<dataLen, buf, blklist, append, live, restarts, seq_num_,
                     key_range_, orphans>>
      /\ process' # "up" => process # "up"
  BY DEF IInv, ConstructRebuild, RebuildDone, node, tab
<1>2. TypeOK'
  <2>1. TypeNode'
    BY <1>1 DEF TypeOK, TypeNode
  <2>2. TypeTab'
    BY <1>1 DEF TypeOK, TypeTab, ConstructRebuild, RebuildDone, tab
  <2>3. TypeAppend'
    BY <1>1 DEF TypeOK, TypeAppend
  <2>4. TypeOthers'
    <3>1. rebuild' \in [offset : Nat, dataLen : 0..Memory]
      BY <1>1, Lengths DEF TypeOK, ConstructRebuild, RebuildDone,
                           RebuildBlkList, NoLoop
    <3> QED BY <1>1, <3>1 DEF TypeOK, TypeOthers, ConstructRebuild, RebuildDone
  <2>5. in_compaction_' \in BOOLEAN
    BY <1>1, Zenon DEF TypeOK, ConstructRebuild, RebuildDone, tab
  <2> QED BY <2>1, <2>2, <2>3, <2>4, <2>5, Zenon
          DEF TypeOK, TypeNode, TypeTab, TypeAppend, TypeOthers
<1>3. Safe'
  BY <1>1, Untouched
<1> QED BY <1>2, <1>3 DEF IInv

LEMMA RebuildLoopStep ==
  ASSUME IInv, RebuildStep
  PROVE  IInv'
<1> DEFINE chunkLen == buf[rebuild.offset + chunk_bloom_bits_]
           entry == ChunkBlk(chunk_bloom_bits_, rebuild.offset, chunkLen)
<1>1. /\ TypeOK /\ Safe
      /\ blklist' = Append(blklist, entry)
      /\ UNCHANGED <<dataLen, buf, append, live, restarts, process, seq_num_,
                     key_range_, orphans>>
  BY DEF IInv, RebuildStep, node
<1>2. rebuild.offset \in Nat /\ rebuild.dataLen \in Nat
      /\ rebuild.dataLen <= Memory /\ rebuild.offset < rebuild.dataLen
  <2>1. rebuild \in [offset : Nat, dataLen : 0..Memory]
    BY <1>1 DEF TypeOK
  <2> QED BY <2>1, Lengths DEF RebuildStep
<1>3. chunkLen \in Nat
  <2>1. rebuild.offset + chunk_bloom_bits_ \in Addr
    BY <1>2, Lengths DEF Addr
  <2> QED BY <1>1, <2>1 DEF TypeOK
<1>4. entry \in Block
  BY <1>2, <1>3, BlkType
<1>5. TypeOK'
  <2>1. TypeNode'
    BY <1>1 DEF TypeOK, TypeNode
  <2>2. TypeTab'
    BY <1>1, <1>4, IndexGrows DEF TypeOK, TypeTab, RebuildStep
  <2>3. TypeAppend'
    BY <1>1 DEF TypeOK, TypeAppend
  <2>4. TypeOthers'
    <3>1. rebuild' = [rebuild EXCEPT !.offset
                        = @ + chunk_bloom_bits_ + 1 + chunkLen]
      BY DEF RebuildStep
    <3>2. rebuild.offset + chunk_bloom_bits_ + 1 + chunkLen \in Nat
      BY <1>2, <1>3, Lengths
    <3>3. rebuild' \in [offset : Nat, dataLen : 0..Memory]
      <4> HIDE DEF chunkLen
      <4> QED BY <1>1, <3>1, <3>2 DEF TypeOK
    <3> QED BY <1>1, <3>3 DEF TypeOK, TypeOthers, RebuildStep
  <2>5. in_compaction_' \in BOOLEAN
    BY <1>1, Zenon DEF TypeOK, RebuildStep
  <2> QED BY <2>1, <2>2, <2>3, <2>4, <2>5, Zenon
          DEF TypeOK, TypeNode, TypeTab, TypeAppend, TypeOthers
<1>6. Safe'
  BY <1>1, <1>4, IndexOnly
<1> QED BY <1>5, <1>6 DEF IInv

(* A crash ends the run: no block of it is Current in the next one.        *)
LEMMA CrashStep ==
  ASSUME IInv, Crash
  PROVE  IInv'
<1>1. /\ TypeOK /\ Safe /\ restarts' = restarts + 1 /\ restarts < MaxRestarts
      /\ append' = Idle /\ live' \subseteq live /\ restarts \in Nat
      /\ dataLen' \in 0..Memory
  BY Lengths DEF IInv, Crash, TypeOK
<1>2. TypeOK'
  <2>1. TypeNode'
    BY <1>1 DEF TypeOK, TypeNode, Crash
  <2>2. TypeTab'
    BY DEF TypeTab, Crash
  <2>3. TypeAppend'
    BY <1>1, Lengths DEF TypeAppend, Idle
  <2>4. TypeOthers'
    BY <1>1, Lengths DEF TypeOK, TypeOthers, Crash, NoLoop
  <2>5. in_compaction_' \in BOOLEAN
    BY Zenon DEF Crash
  <2> QED BY <2>1, <2>2, <2>3, <2>4, <2>5, Zenon
          DEF TypeOK, TypeNode, TypeTab, TypeAppend, TypeOthers
<1>3. ASSUME NEW b \in live PROVE b.run <= restarts /\ b.run \in Nat
  BY <1>1, <1>3, Lengths DEF Safe, Quiet, TypeOK
<1>4. Current' = {}
  BY <1>1, <1>3 DEF Current
<1>5. append'.at = "idle"
  BY <1>1 DEF Idle
<1>6. Quiet'
  BY <1>1, <1>3, <1>4, <1>5 DEF Quiet
<1>7. Kept' /\ Below' /\ InProgress'
  BY <1>4, <1>5 DEF Kept, Below, InProgress, Copying
<1> QED BY <1>2, <1>6, <1>7 DEF IInv, Safe

LEMMA NextStep == IInv /\ [Next]_vars => IInv'
<1> SUFFICES ASSUME IInv, [Next]_vars PROVE IInv'
  OBVIOUS
<1>1. CASE AppendNext
  BY <1>1, AppendBeginStep, AppendBloomStep, AppendLenStep, AppendDataStep,
     AppendStoreStep, AppendCommitStep, AppendEndStep DEF AppendNext
<1>2. CASE CompactNext
  BY <1>2, CompactStep, CleanUpStep DEF CompactNext
<1>3. CASE ConstructNew
  BY <1>3, ConstructNewStep
<1>4. CASE ConstructRebuild \/ RebuildDone
  BY <1>4, ConstructRebuildStep
<1>5. CASE Crash
  BY <1>5, CrashStep
<1>6. CASE RebuildStep
  BY <1>6, RebuildLoopStep
<1>7. CASE UNCHANGED vars
  <2>1. UNCHANGED <<dataLen, buf, blklist, append, live, restarts, process>>
    BY <1>7 DEF vars, node, tab
  <2>2. TypeOK'
    BY <1>7, Zenon DEF IInv, TypeOK, vars, node, tab
  <2>3. Safe'
    BY <2>1, Untouched DEF IInv
  <2> QED BY <2>2, <2>3 DEF IInv
<1> QED BY <1>1, <1>2, <1>3, <1>4, <1>5, <1>6, <1>7 DEF Next

-----------------------------------------------------------------------------
(* The theorems.                                                           *)

LEMMA Invariance == Spec => []IInv
<1>1. Init => IInv
  BY TypeInit, InitSafe DEF IInv
<1> QED BY <1>1, NextStep, PTL DEF Spec

(* Every variable keeps its type; in particular dataLen and an Append's    *)
(* cur_len never leave the memory, and RebuildBlkList never reads outside  *)
(* it, whatever the two threads and crashes do.                            *)
THEOREM TypeCorrect == Spec => []TypeOK
<1>1. IInv => TypeOK
  BY DEF IInv
<1> QED BY <1>1, Invariance, PTL

(* From the store of the new dataLen on (fixed_range_tab.cc:107), through  *)
(* the commit, a chunk stays indexed and readable word for word until the  *)
(* store of a CleanUp or the end of the process, provided that the length  *)
(* of the bloom data is the same for Append and for the readers.           *)
THEOREM CommittedStaysReadable ==
  ASSUME chunk_bloom_bits_ = CHUNK_BLOOM_FILTER_LEN
  PROVE  Spec => []CommittedReadable
<1>1. IInv => CommittedReadable
  <2> SUFFICES ASSUME IInv, NEW b \in Current
               PROVE  \E w \in 1..Len(blklist) :
                        /\ blklist[w].offset_ = b.offset
                        /\ Reads(blklist[w], b.chunk)
    BY DEF CommittedReadable
  <2> DEFINE entry == ChunkBlk(chunk_bloom_bits_, b.offset, Size(b.chunk))
  <2>1. /\ Indexed(blklist, b.chunk, b.offset)
        /\ BloomAt(buf, b.chunk, b.offset)
        /\ DataAt(buf, b.chunk, b.offset)
    BY DEF IInv, Safe, Kept
  <2>2. PICK w \in 1..Len(blklist) : blklist[w] = entry
    BY <2>1 DEF Indexed
  <2>3. entry.offset_ = b.offset /\ entry.chunkLen_ = Size(b.chunk)
        /\ getDatOffset(entry) = b.offset + CHUNK_BLOOM_FILTER_LEN + 1
    BY DEF ChunkBlk, getDatOffset
  <2>4. b.chunk \in Chunks /\ b.offset \in Nat /\ Size(b.chunk) \in Nat
    BY CurrentFacts, ChunkFacts DEF IInv
  <2>5. ASSUME NEW j \in 1..Size(b.chunk)
        PROVE  buf[getDatOffset(entry) + j - 1] = b.chunk.data[j]
    <3>1. getDatOffset(entry) + j - 1 = b.offset + CHUNK_BLOOM_FILTER_LEN + j
      BY <2>3, <2>4, Lengths
    <3> QED BY <2>1, <3>1 DEF DataAt
  <2>6. Reads(entry, b.chunk)
    BY <2>1, <2>3, <2>5 DEF Reads, BloomAt
  <2> QED BY <2>2, <2>3, <2>6
<1> QED BY <1>1, Invariance, PTL

-----------------------------------------------------------------------------
(* The committed blocks form one chain.  An Append in progress will extend *)
(* it: its cur_len is where the chain ends.                                *)

Chain == /\ CommittedContiguous
         /\ (Copying /\ Current # {}) =>
              \E d \in Current : End(d) = append.cur_len

(* A step that moves neither dataLen nor the history. *)
LEMMA ChainFrame ==
  ASSUME Chain, UNCHANGED <<dataLen, live, restarts>>,
         Copying' => Copying /\ append'.cur_len = append.cur_len
  PROVE  Chain'
<1>1. Current' = Current
  BY DEF Current
<1>2. CommittedContiguous'
  BY <1>1 DEF Chain, CommittedContiguous, End
<1>3. (Copying' /\ Current' # {}) => \E d \in Current' : End(d) = append'.cur_len
  BY <1>1 DEF Chain
<1> QED BY <1>2, <1>3 DEF Chain, End

(* The chain is empty. *)
LEMMA ChainEmpty == Current' = {} => Chain'
  BY DEF Chain, CommittedContiguous

LEMMA ChainBegin ==
  ASSUME IInv, Chain, NEW c \in Chunks, AppendBegin(c)
  PROVE  Chain'
<1>1. /\ UNCHANGED <<dataLen, live, restarts>> /\ append'.cur_len = dataLen
  BY DEF AppendBegin, AppendFrame
<1>2. Current' = Current
  BY <1>1 DEF Current
<1>3. CommittedContiguous'
  BY <1>1, <1>2 DEF Chain, CommittedContiguous, End
<1>4. Current # {} => \E d \in Current : End(d) = dataLen
  BY DEF Chain, CommittedContiguous
<1> QED BY <1>1, <1>2, <1>3, <1>4 DEF Chain, End

(* The new block starts where the chain ends and ends at the new dataLen.  *)
LEMMA ChainStore ==
  ASSUME IInv, Chain, AppendStore
  PROVE  Chain'
<1> DEFINE new == [offset |-> append.cur_len, chunk |-> append.chunk,
                   run |-> restarts]
<1>1. /\ TypeOK /\ Safe /\ Copying
      /\ dataLen' = append.cur_len + BlkLen(append.chunk)
      /\ live' = live \cup {new} /\ restarts' = restarts
      /\ append' = [append EXCEPT !.at = "commit", !.undo = dataLen]
  BY DEF IInv, AppendStore, StoreLen, NewBlk, Copying, AppendFrame
<1>2. append.cur_len \in Nat /\ BlkLen(append.chunk) \in Nat
      /\ BlkLen(append.chunk) >= 1
  BY <1>1, CopyingFacts, ChunkFacts
<1>3. Current' = Current \cup {new}
  BY <1>1 DEF Current
<1>4. new.offset = append.cur_len /\ End(new) = dataLen'
  BY <1>1 DEF End
<1>5. ASSUME NEW b \in Current PROVE End(b) <= new.offset
  BY <1>1, <1>4, <1>5 DEF Safe, InProgress
<1> HIDE DEF new
<1>6. \E b \in Current' : End(b) = dataLen'
  BY <1>3, <1>4
<1>7. \A b, d \in Current' : b # d => End(b) <= d.offset \/ End(d) <= b.offset
  <2>1. \A b, d \in Current : b # d => End(b) <= d.offset \/ End(d) <= b.offset
    BY DEF Chain, CommittedContiguous
  <2> QED BY <1>3, <1>5, <2>1
<1>8. \E first \in Current' : \A b \in Current' \ {first} :
        \E d \in Current' : End(d) = b.offset
  <2>1. CASE Current = {}
    BY <1>3, <2>1
  <2>2. CASE Current # {}
    <3>1. PICK first \in Current : \A b \in Current \ {first} :
            \E d \in Current : End(d) = b.offset
      BY <2>2 DEF Chain, CommittedContiguous
    <3>2. \E d \in Current : End(d) = new.offset
      BY <1>1, <1>4, <2>2 DEF Chain
    <3> QED BY <1>3, <3>1, <3>2
  <2> QED BY <2>1, <2>2
<1>9. CommittedContiguous'
  BY <1>6, <1>7, <1>8 DEF CommittedContiguous, End
<1>10. append'.at = "commit"
  BY <1>1 DEF TypeOK
<1> QED BY <1>9, <1>10 DEF Chain, Copying

LEMMA ChainNext == IInv /\ IInv' /\ Chain /\ [Next]_vars => Chain'
<1> SUFFICES ASSUME IInv, IInv', Chain, [Next]_vars PROVE Chain'
  OBVIOUS
<1>1. ASSUME NEW c \in Chunks, AppendBegin(c) PROVE Chain'
  BY <1>1, ChainBegin
<1>2. CASE AppendStore
  BY <1>2, ChainStore
<1>3. CASE AppendBloom \/ AppendLen \/ AppendData
  <2>1. append \in [at : {"idle", "bloom", "len", "data", "store", "commit", "range"},
                    chunk : Chunks \cup {NoChunk}, cur_len : 0..Memory, undo : 0..Memory]
    BY DEF IInv, TypeOK
  <2>2. append'.cur_len = append.cur_len /\ Copying
    BY <1>3, <2>1 DEF AppendBloom, AppendLen, AppendData, AppendGoTo, Copying
  <2>3. UNCHANGED <<dataLen, live, restarts>>
    BY <1>3 DEF AppendBloom, AppendLen, AppendData, CopyFrame, AppendFrame
  <2> QED BY <2>2, <2>3, ChainFrame
<1>4. CASE AppendAbort \/ CheckAndUpdateKeyRange
  <2>1. UNCHANGED <<dataLen, live, restarts>> /\ append'.at = "idle"
    BY <1>4 DEF AppendAbort, CheckAndUpdateKeyRange, AppendFrame, Idle
  <2> QED BY <2>1, ChainFrame DEF Copying
<1>10. CASE AppendCommit
  <2>1. append \in [at : {"idle", "bloom", "len", "data", "store", "commit", "range"},
                    chunk : Chunks \cup {NoChunk}, cur_len : 0..Memory, undo : 0..Memory]
    BY DEF IInv, TypeOK
  <2>2. UNCHANGED <<dataLen, live, restarts>> /\ append'.at = "range"
    BY <1>10, <2>1 DEF AppendCommit, AppendGoTo, CopyFrame, AppendFrame
  <2> QED BY <2>2, ChainFrame DEF Copying
<1>5. CASE CompactBegin \/ CompactEnd \/ CleanUpRebuild
  <2>1. UNCHANGED <<dataLen, live, restarts, append>>
    BY <1>5 DEF CompactBegin, CompactEnd, CleanUpRebuild, SetCompactionWorking,
                CompactFrame
  <2> QED BY <2>1, ChainFrame DEF Copying
<1>6. CASE CleanUp
  <2>1. Current' = {}
    BY <1>6 DEF CleanUp, Current
  <2> QED BY <2>1, ChainEmpty
<1>7. CASE ConstructNew \/ ConstructRebuild \/ RebuildStep \/ RebuildDone
  <2>1. UNCHANGED <<dataLen, live, restarts, append>>
    BY <1>7 DEF ConstructNew, ConstructRebuild, RebuildStep, RebuildDone, node
  <2> QED BY <2>1, ChainFrame DEF Copying
<1>8. CASE Crash
  <2>1. process' # "up"
    BY <1>8 DEF Crash
  <2>2. Current' = {}
    BY <2>1 DEF IInv, Safe, Quiet
  <2> QED BY <2>2, ChainEmpty
<1>9. CASE UNCHANGED vars
  <2>1. UNCHANGED <<dataLen, live, restarts, append>>
    BY <1>9 DEF vars, node
  <2> QED BY <2>1, ChainFrame DEF Copying
<1> QED BY <1>1, <1>2, <1>3, <1>4, <1>5, <1>6, <1>7, <1>8, <1>9, <1>10
        DEF Next, AppendNext, CompactNext

(* The blocks counted since the last CleanUp are disjoint, leave no gap    *)
(* between them and end at dataLen, even when CleanUp resets dataLen under *)
(* an Append, before its store (fixed_range_tab.cc:107) or between store   *)
(* and commit (109).                                                       *)
THEOREM CommittedStaysContiguous == Spec => []CommittedContiguous
<1>1. Init => Chain
  <2> SUFFICES ASSUME Init PROVE Chain
    OBVIOUS
  <2>1. Current = {}
    BY DEF Init, Current
  <2> QED BY <2>1 DEF Chain, CommittedContiguous
<1>2. Chain => CommittedContiguous
  BY DEF Chain
<1> QED BY <1>1, <1>2, ChainNext, Invariance, PTL DEF Spec

-----------------------------------------------------------------------------
(* Get and searchInChunk.                                                  *)

(* No chunk that Get has left behind holds the key.                        *)
Passed == \A j \in 0..(size - 1) : (i >= size \/ j > i) => ~Contains(j)

(* searchInChunk keeps the key, if the chunk has it, between left and      *)
(* right.  right leaves the chunk only by wrapping, when every key of the  *)
(* chunk is larger.                                                        *)
Window ==
  at = "searchInChunk" =>
    /\ i < size
    /\ \A n \in 1..count(i) : blk(i)[n] = key => left < n /\ n <= right + 1
    /\ \/ right < count(i)
       \/ right = SizeMax /\ left = 0 /\ \A n \in 1..count(i) : key < blk(i)[n]
    /\ left <= count(i)

SearchInv == SearchTypeOK /\ (at \in {"Get", "searchInChunk"} => Passed) /\ Window
        /\ FoundIsNewest /\ ThrowExplained

-----------------------------------------------------------------------------

(* What the assumption says of the list that is being searched.            *)
LEMMA ListFacts ==
  ASSUME SearchTypeOK
  PROVE  /\ size \in Nat /\ size <= SizeMax /\ SizeMax \in Nat /\ key \in Int
         /\ chunks \in Seq(Seq(Int))
         /\ i \in Nat /\ left \in Nat /\ right \in Nat /\ found \in Nat
         /\ i <= SizeMax /\ left <= SizeMax /\ right <= SizeMax
<1>1. chunks \in Seq(Seq(Int)) /\ Len(chunks) <= SizeMax
  BY SearchAssumption DEF SearchTypeOK
<1>2. SizeMax \in Nat /\ key \in Int
  BY SearchAssumption DEF SearchTypeOK
<1>3. i \in 0..SizeMax /\ left \in 0..SizeMax /\ right \in 0..SizeMax
      /\ found \in 0..SizeMax
  BY DEF SearchTypeOK, size_t
<1> QED BY <1>1, <1>2, <1>3 DEF size

LEMMA BlkFacts ==
  ASSUME SearchTypeOK, NEW j \in Nat, j < size
  PROVE  /\ blk(j) \in Seq(Int) /\ Sorted(blk(j))
         /\ count(j) \in Nat /\ 1 <= count(j) /\ 2 * count(j) <= SizeMax
         /\ \A n \in 1..count(j) : blk(j)[n] \in Int
<1>1. j + 1 \in 1..Len(chunks)
  BY ListFacts DEF size
<1>2. blk(j) \in Seq(Int)
  BY <1>1, ListFacts DEF blk
<1>3. Sorted(blk(j)) /\ 1 <= count(j) /\ 2 * count(j) <= SizeMax
  BY <1>1, SearchAssumption DEF SearchTypeOK, blk, count
<1> QED BY <1>2, <1>3 DEF count

LEMMA Minus1Type ==
  ASSUME NEW n \in size_t
  PROVE  Minus1(n) \in size_t
  BY SearchAssumption DEF Minus1, size_t

(* The probe lies in the interval. *)
LEMMA MiddleFacts ==
  ASSUME SearchTypeOK, left <= right
  PROVE  middle \in Nat /\ left <= middle /\ middle <= right
<1>1. left \in Nat /\ right \in Nat
  BY ListFacts
<1> DEFINE h == (right - left) \div 2
<1>2. h \in Nat /\ h <= right - left
  BY <1>1
<1> HIDE DEF h
<1>3. left + h \in Nat /\ left <= left + h /\ left + h <= right
  BY <1>1, <1>2
<1> QED BY <1>3 DEF middle, h

(* Going on to the next older chunk from one that does not hold the key.   *)
LEMMA PassOn ==
  ASSUME SearchTypeOK, Passed, i < size, ~Contains(i), i' = Minus1(i),
         UNCHANGED <<chunks, key>>
  PROVE  Passed'
<1>1. size' = size /\ size \in Nat /\ i \in Nat /\ SizeMax \in Nat /\ size <= SizeMax
  BY ListFacts DEF size
<1>2. \A j : Contains(j)' <=> Contains(j)
  BY DEF Contains, count, blk
<1>3. ASSUME NEW j \in 0..(size - 1), i' >= size \/ j > i'
      PROVE  ~Contains(j)
  <2>1. CASE i = 0
    <3>1. j = i \/ j > i
      BY <1>1, <2>1
    <3> QED BY <3>1 DEF Passed
  <2>2. CASE i # 0
    <3>1. i' = i - 1
      BY <2>2 DEF Minus1
    <3>2. j = i \/ j > i
      BY <1>1, <1>3, <3>1
    <3> QED BY <3>2 DEF Passed
  <2> QED BY <2>1, <2>2
<1> QED BY <1>1, <1>2, <1>3 DEF Passed, Contains, count, blk

LEMMA InitSearchInv == SearchInit => SearchInv
<1> SUFFICES ASSUME SearchInit PROVE SearchInv
  OBVIOUS
<1>1. SearchTypeOK
  <2>1. Len(chunks) \in Nat /\ Len(chunks) <= SizeMax /\ SizeMax \in Nat
    BY SearchAssumption DEF SearchInit
  <2>2. size \in size_t /\ 0 \in size_t
    BY <2>1 DEF size, size_t
  <2>3. i \in size_t
    BY <2>2, Minus1Type DEF SearchInit
  <2> QED BY <2>2, <2>3 DEF SearchInit, SearchTypeOK
<1>2. Passed
  <2>1. size \in Nat /\ SizeMax \in Nat
    BY <1>1, ListFacts
  <2>2. ASSUME NEW j \in 0..(size - 1) PROVE ~(i >= size \/ j > i)
    BY <2>1, <2>2 DEF SearchInit, Minus1
  <2> QED BY <2>2 DEF Passed
<1> QED BY <1>1, <1>2 DEF SearchInit, SearchInv, Window, FoundIsNewest, ThrowExplained

-----------------------------------------------------------------------------
(* The steps of Get.                                                       *)

LEMMA GetThrowsStep ==
  ASSUME SearchInv, GetThrows
  PROVE  SearchInv'
<1>1. SearchTypeOK /\ Passed /\ i >= size /\ at' = "throw"
      /\ UNCHANGED <<chunks, key, i, left, right, found>>
  BY DEF SearchInv, GetThrows
<1>2. SearchTypeOK'
  BY <1>1 DEF SearchTypeOK
<1>3. ThrowExplained'
  <2>1. \A j \in 0..(size - 1) : ~Contains(j)
    BY <1>1 DEF Passed
  <2> QED BY <1>1, <2>1 DEF ThrowExplained, size, Contains, count, blk
<1> QED BY <1>1, <1>2, <1>3 DEF SearchInv, Window, FoundIsNewest

LEMMA GetSearchesStep ==
  ASSUME SearchInv, GetSearches
  PROVE  SearchInv'
<1>1. /\ SearchTypeOK /\ Passed /\ i < size /\ at' = "searchInChunk"
      /\ left' = 0 /\ right' = Minus1(count(i))
      /\ UNCHANGED <<chunks, key, i, found>>
  BY DEF SearchInv, GetSearches
<1>2. i \in Nat /\ SizeMax \in Nat
  BY <1>1, ListFacts
<1>3. count(i) \in Nat /\ 1 <= count(i) /\ 2 * count(i) <= SizeMax
  BY <1>1, <1>2, BlkFacts
<1>4. right' = count(i) - 1
  BY <1>1, <1>3 DEF Minus1
<1>5. SearchTypeOK'
  BY <1>1, <1>2, <1>3, <1>4 DEF SearchTypeOK, size_t
<1>6. Passed'
  BY <1>1 DEF Passed, size, Contains, count, blk
<1>7. Window'
  <2>1. count(i)' = count(i) /\ size' = size
    BY <1>1 DEF count, blk, size
  <2>2. \A n \in 1..count(i) : 0 < n /\ n <= right' + 1
    BY <1>3, <1>4
  <2>3. right' < count(i) /\ left' <= count(i)
    BY <1>1, <1>3, <1>4
  <2>4. /\ i' < size'
        /\ \A n \in 1..count(i)' : left' < n /\ n <= right' + 1
        /\ right' < count(i)' /\ left' <= count(i)'
    BY <1>1, <2>1, <2>2, <2>3
  <2> QED BY <2>4 DEF Window, size, count, blk
<1> QED BY <1>1, <1>5, <1>6, <1>7 DEF SearchInv, FoundIsNewest, ThrowExplained

(* Leaving a chunk without the key, by the filter or by the bisection.     *)
LEMMA LeaveChunk ==
  ASSUME SearchTypeOK, Passed, i < size, ~Contains(i), i' = Minus1(i), at' = "Get",
         UNCHANGED <<chunks, key, left, right, found>>
  PROVE  SearchInv'
<1>1. SearchTypeOK'
  <2>1. i' \in size_t
    BY Minus1Type DEF SearchTypeOK
  <2> QED BY <2>1 DEF SearchTypeOK
<1>2. Passed'
  BY PassOn
<1> QED BY <1>1, <1>2 DEF SearchInv, Window, FoundIsNewest, ThrowExplained

LEMMA GetSkipsStep ==
  ASSUME SearchInv, GetSkips
  PROVE  SearchInv'
<1>1. ~Contains(i)
  BY DEF GetSkips, KeyMayMatch
<1> QED BY <1>1, LeaveChunk DEF SearchInv, GetSkips

LEMMA SearchNotFoundStep ==
  ASSUME SearchInv, SearchNotFound
  PROVE  SearchInv'
<1>1. SearchTypeOK /\ Passed /\ Window /\ at = "searchInChunk" /\ left > right
  BY DEF SearchInv, SearchNotFound
<1>2. i < size /\ i \in Nat /\ left \in Nat /\ right \in Nat /\ left <= SizeMax
  BY <1>1, ListFacts DEF Window
<1>3. count(i) \in Nat
  BY <1>1, <1>2, BlkFacts
<1>4. ASSUME NEW n \in 1..count(i), blk(i)[n] = key PROVE FALSE
  <2>1. left < n /\ n <= right + 1
    BY <1>1, <1>4 DEF Window
  <2> QED BY <1>1, <1>2, <1>3, <2>1
<1>5. ~Contains(i)
  BY <1>4 DEF Contains
<1> QED BY <1>1, <1>2, <1>5, LeaveChunk DEF SearchNotFound

-----------------------------------------------------------------------------
(* The steps of searchInChunk.                                             *)

(* What is known at a probe. *)
LEMMA ProbeFacts ==
  ASSUME SearchInv, Probes
  PROVE  /\ SearchTypeOK /\ Passed /\ Window /\ at = "searchInChunk"
         /\ i \in Nat /\ i < size
         /\ left \in Nat /\ right \in Nat /\ key \in Int /\ SizeMax \in Nat
         /\ left <= SizeMax /\ right <= SizeMax
         /\ count(i) \in Nat /\ 1 <= count(i) /\ 2 * count(i) <= SizeMax
         /\ Sorted(blk(i)) /\ count(i) = Len(blk(i))
         /\ \A n \in 1..count(i) : blk(i)[n] \in Int
         /\ middle \in Nat /\ left <= middle /\ middle <= right
<1>1. SearchTypeOK /\ Passed /\ Window /\ at = "searchInChunk" /\ left <= right
  BY DEF SearchInv, Probes
<1>2. i \in Nat /\ i < size
  BY <1>1, ListFacts DEF Window
<1>3. /\ left \in Nat /\ right \in Nat /\ key \in Int /\ SizeMax \in Nat
      /\ left <= SizeMax /\ right <= SizeMax
  BY <1>1, ListFacts
<1>4. /\ count(i) \in Nat /\ 1 <= count(i) /\ 2 * count(i) <= SizeMax
      /\ Sorted(blk(i)) /\ \A n \in 1..count(i) : blk(i)[n] \in Int
  BY <1>1, <1>2, BlkFacts
<1>5. middle \in Nat /\ left <= middle /\ middle <= right
  BY <1>1, MiddleFacts
<1> QED BY <1>1, <1>2, <1>3, <1>4, <1>5 DEF count

(* vector::at throws only when right has wrapped. *)
LEMMA SearchThrowsStep ==
  ASSUME SearchInv, SearchThrows
  PROVE  SearchInv'
<1>1. Probes /\ middle >= count(i) /\ at' = "throw"
      /\ UNCHANGED <<chunks, key, i, left, right, found>>
  BY DEF SearchThrows
<1>2. \A n \in 1..count(i) : key < blk(i)[n]
  <2>1. ~(right < count(i))
    BY <1>1, ProbeFacts
  <2> QED BY <1>1, <2>1, ProbeFacts DEF Window
<1>3. i < size /\ \A j \in 0..(size - 1) : j > i => ~Contains(j)
  BY <1>1, ProbeFacts DEF Passed
<1>4. ThrowExplained'
  BY <1>1, <1>2, <1>3 DEF ThrowExplained, size, Contains, count, blk
<1>5. SearchTypeOK'
  BY <1>1 DEF SearchInv, SearchTypeOK
<1> QED BY <1>1, <1>4, <1>5 DEF SearchInv, Window, FoundIsNewest

LEMMA SearchFoundStep ==
  ASSUME SearchInv, SearchFound
  PROVE  SearchInv'
<1>1. /\ Probes /\ middle < count(i) /\ blk(i)[middle + 1] = key
      /\ at' = "ok" /\ found' = middle
      /\ UNCHANGED <<chunks, key, i, left, right>>
  BY DEF SearchFound
<1>2. i < size /\ \A j \in 0..(size - 1) : j > i => ~Contains(j)
  BY <1>1, ProbeFacts DEF Passed
<1>3. FoundIsNewest'
  BY <1>1, <1>2 DEF FoundIsNewest, size, Contains, count, blk
<1>4. SearchTypeOK'
  <2>1. middle \in size_t
    BY <1>1, ProbeFacts DEF size_t
  <2> QED BY <1>1, <2>1 DEF SearchInv, SearchTypeOK
<1> QED BY <1>1, <1>3, <1>4 DEF SearchInv, Window, ThrowExplained

(* Moving one bound inside the chunk. *)
LEMMA BoundMoves ==
  ASSUME SearchInv, Probes, UNCHANGED <<chunks, key, at, i, found>>,
         left' \in size_t, right' \in size_t,
         /\ \A n \in 1..count(i) : blk(i)[n] = key => left' < n /\ n <= right' + 1
         /\ right' < count(i) \/ /\ right' = SizeMax /\ left' = 0
                                 /\ \A n \in 1..count(i) : key < blk(i)[n]
         /\ left' <= count(i)
  PROVE  SearchInv'
<1>1. SearchTypeOK'
  BY DEF SearchInv, SearchTypeOK
<1>2. Passed'
  BY ProbeFacts DEF Passed, size, Contains, count, blk
<1>3. at' = "searchInChunk" /\ i < size
  BY ProbeFacts
<1>4. size' = size /\ count(i)' = count(i) /\ blk(i)' = blk(i)
  BY DEF size, count, blk
<1>5. Window'
  BY <1>3, <1>4 DEF Window, size, count, blk
<1> QED BY <1>1, <1>2, <1>3, <1>5 DEF SearchInv, FoundIsNewest, ThrowExplained

LEMMA SearchRightStep ==
  ASSUME SearchInv, SearchRight
  PROVE  SearchInv'
<1> DEFINE p == middle + 1
<1>1. /\ Probes /\ middle < count(i) /\ blk(i)[p] < key /\ left' = p
      /\ UNCHANGED <<chunks, key, at, i, right, found>>
  BY DEF SearchRight
<1>2. middle \in Nat /\ p \in 1..count(i) /\ count(i) \in Nat
  BY <1>1, ProbeFacts
<1>3. ASSUME NEW n \in 1..count(i), blk(i)[n] = key PROVE p < n
  <2>1. blk(i)[p] \in Int /\ blk(i)[n] \in Int /\ key \in Int
    BY <1>1, <1>2, ProbeFacts
  <2>2. CASE n = p
    BY <1>1, <1>3, <2>1, <2>2
  <2>3. CASE n < p
    <3>1. blk(i)[n] < blk(i)[p]
      BY <1>1, <1>2, <2>3, ProbeFacts DEF Sorted
    <3> QED BY <1>1, <1>3, <2>1, <3>1
  <2> QED BY <1>2, <2>2, <2>3
<1>4. right' < count(i)
  <2>1. ~(key < blk(i)[p])
    <3>1. blk(i)[p] \in Int /\ key \in Int
      BY <1>1, <1>2, ProbeFacts
    <3> QED BY <1>1, <3>1
  <2>2. right < count(i)
    BY <1>1, <1>2, <2>1, ProbeFacts DEF Window
  <2> QED BY <1>1, <2>2
<1>5. left' \in size_t /\ right' \in size_t /\ left' <= count(i)
  <2>1. p \in Nat /\ p <= SizeMax /\ p <= count(i)
    BY <1>1, <1>2, ProbeFacts
  <2>2. right \in size_t
    BY <1>1, ProbeFacts DEF size_t
  <2> QED BY <1>1, <2>1, <2>2 DEF size_t
<1>6. \A n \in 1..count(i) : blk(i)[n] = key => left' < n /\ n <= right' + 1
  BY <1>1, <1>3, ProbeFacts DEF Window
<1> QED BY <1>1, <1>4, <1>5, <1>6, BoundMoves

LEMMA SearchLeftStep ==
  ASSUME SearchInv, SearchLeft
  PROVE  SearchInv'
<1> DEFINE p == middle + 1
<1>1. /\ Probes /\ middle < count(i) /\ blk(i)[p] > key /\ right' = Minus1(middle)
      /\ UNCHANGED <<chunks, key, at, i, left, found>>
  BY DEF SearchLeft
<1>2. middle \in Nat /\ p \in 1..count(i) /\ count(i) \in Nat /\ SizeMax \in Nat
      /\ 2 * count(i) <= SizeMax
  BY <1>1, ProbeFacts
<1>3. ASSUME NEW n \in 1..count(i), p <= n PROVE key < blk(i)[n]
  <2>1. blk(i)[p] \in Int /\ blk(i)[n] \in Int /\ key \in Int
    BY <1>1, <1>2, ProbeFacts
  <2>2. CASE n = p
    BY <1>1, <2>1, <2>2
  <2>3. CASE p < n
    <3>1. blk(i)[p] < blk(i)[n]
      BY <1>1, <1>2, <2>3, ProbeFacts DEF Sorted
    <3> QED BY <1>1, <2>1, <3>1
  <2> QED BY <1>2, <1>3, <2>2, <2>3
<1>4. left' \in size_t /\ left' <= count(i)
  BY <1>1, ProbeFacts DEF size_t, Window
<1>5. CASE middle = 0
  <2>1. right' = SizeMax
    BY <1>1, <1>5 DEF Minus1
  <2>2. left' = 0
    BY <1>1, <1>5, ProbeFacts
  <2>3. \A n \in 1..count(i) : key < blk(i)[n]
    BY <1>2, <1>3, <1>5
  <2>4. \A n \in 1..count(i) : blk(i)[n] # key
    <3>1. \A n \in 1..count(i) : blk(i)[n] \in Int
      BY <1>1, ProbeFacts
    <3>2. key \in Int
      BY <1>1, ProbeFacts
    <3> QED BY <2>3, <3>1, <3>2
  <2>5. right' \in size_t
    BY <1>2, <2>1 DEF size_t
  <2> QED BY <1>1, <1>4, <2>1, <2>2, <2>3, <2>4, <2>5, BoundMoves
<1>6. CASE middle # 0
  <2>1. right' = middle - 1
    BY <1>1, <1>6 DEF Minus1
  <2>2. right' \in size_t /\ right' < count(i)
    BY <1>1, <1>2, <1>6, <2>1 DEF size_t
  <2>3. ASSUME NEW n \in 1..count(i), blk(i)[n] = key
        PROVE  left' < n /\ n <= right' + 1
    <3>1. left < n
      BY <1>1, <2>3, ProbeFacts DEF Window
    <3>2. ~(p <= n)
      <4>1. key \in Int
        BY <1>1, ProbeFacts
      <4> QED BY <1>3, <2>3, <4>1
    <3> QED BY <1>1, <1>2, <2>1, <3>1, <3>2
  <2> QED BY <1>1, <1>4, <2>2, <2>3, BoundMoves
<1> QED BY <1>5, <1>6

-----------------------------------------------------------------------------

LEMMA SearchInvariance == SearchSpec => []SearchInv
<1>1. SearchInv /\ [SearchNext]_searchVars => SearchInv'
  <2> SUFFICES ASSUME SearchInv, [SearchNext]_searchVars PROVE SearchInv'
    OBVIOUS
  <2>1. CASE UNCHANGED searchVars
    BY <2>1 DEF searchVars, SearchInv, SearchTypeOK, Passed, Window, FoundIsNewest,
                ThrowExplained, size, Contains, count, blk
  <2> QED BY <2>1, GetThrowsStep, GetSearchesStep, GetSkipsStep,
             SearchNotFoundStep, SearchThrowsStep, SearchFoundStep,
             SearchRightStep, SearchLeftStep DEF SearchNext
<1> QED BY <1>1, InitSearchInv, PTL DEF SearchSpec

(* A value that Get returns is that of the newest chunk that has the key.  *)
THEOREM GetFindsNewest == SearchSpec => []FoundIsNewest
<1>1. SearchInv => FoundIsNewest
  BY DEF SearchInv
<1> QED BY <1>1, SearchInvariance, PTL

(* Get throws only when no chunk has the key, or on a false positive of    *)
(* the filter of a chunk whose keys are all larger                         *)
(* (fixed_range_tab.cc:236), then even if an older chunk has the key.      *)
THEOREM GetThrowsOnlyThere == SearchSpec => []ThrowExplained
<1>1. SearchInv => ThrowExplained
  BY DEF SearchInv
<1> QED BY <1>1, SearchInvariance, PTL

(* Every index of the two loops stays a size_t, wrap-around included       *)
(* (fixed_range_tab.cc:200, 236).                                          *)
THEOREM SearchTypeCorrect == SearchSpec => []SearchTypeOK
<1>1. SearchInv => SearchTypeOK
  BY DEF SearchInv
<1> QED BY <1>1, SearchInvariance, PTL

=============================================================================
