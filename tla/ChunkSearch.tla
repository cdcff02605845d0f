---------------------------- MODULE ChunkSearch ----------------------------
(***************************************************************************)
(* FixedRangeTab::Get and searchInChunk (fixed_range_tab.cc): the chunks   *)
(* of a range are visited from the newest to the oldest, each one whose    *)
(* bloom filter may match is searched by bisection.  All of it is size_t   *)
(* arithmetic: i-- and middle - 1 wrap at 0, and i >= 0 is always true.    *)
(* vector::at throws when its index is past the end.                       *)
(*                                                                         *)
(* A chunk is the sequence of its keys, which the flush that built it      *)
(* wrote in order.  Indexes are those of the code, from 0.                 *)
(***************************************************************************)
EXTENDS Integers, Sequences

CONSTANTS
  Keys,     \* keys, ordered by the internal comparator
  Inputs,   \* the contents that blklist may have
  SizeMax   \* the largest size_t, 2^64 - 1

Sorted(chunk) ==
  \A m, n \in 1..Len(chunk) : m < n => chunk[m] < chunk[n]

ASSUME SearchAssumption ==
  /\ Keys \subseteq Int /\ SizeMax \in Nat
  /\ Inputs \subseteq Seq(Seq(Int))
  \* vectors are far from filling the address space; no chunk is empty
  /\ \A list \in Inputs :
       /\ Len(list) <= SizeMax
       /\ \A n \in 1..Len(list) : /\ Sorted(list[n])
                                  /\ 1 <= Len(list[n])
                                  /\ 2 * Len(list[n]) <= SizeMax

VARIABLES
  chunks, key,    \* what blklist refers to, and what is searched for
  at,             \* the loop of Get, that of searchInChunk, or the outcome
  i,              \* Get's loop variable
  left, right,    \* searchInChunk's bounds
  found           \* where the value was taken from

searchVars == <<chunks, key, at, i, left, right, found>>

size_t == 0..SizeMax

SearchTypeOK ==
  /\ chunks \in Inputs /\ key \in Keys
  /\ at \in {"Get", "searchInChunk", "ok", "throw"}
  /\ i \in size_t /\ left \in size_t /\ right \in size_t /\ found \in size_t

-----------------------------------------------------------------------------

(* Mutant: signed arithmetic. *)
Minus1Signed(n) == n - 1

(* size_t subtraction of 1. *)
Minus1(n) == IF n = 0 THEN SizeMax ELSE n - 1

size == Len(chunks)
blk(j) == chunks[j + 1]
count(j) == Len(blk(j))
Contains(j) == \E n \in 1..count(j) : blk(j)[n] = key

(* FilterPolicy::KeyMayMatch: a bloom filter may match a key that is not   *)
(* there, never the reverse.                                               *)
KeyMayMatch(j) == IF Contains(j) THEN {TRUE} ELSE {TRUE, FALSE}

SearchInit ==
  /\ chunks \in Inputs /\ key \in Keys
  /\ at = "Get" /\ i = Minus1(size)
  /\ left = 0 /\ right = 0 /\ found = 0

(* blklist.at(i) throws. *)
GetThrows ==
  /\ at = "Get" /\ i >= size
  /\ at' = "throw"
  /\ UNCHANGED <<chunks, key, i, left, right, found>>

(* Mutant: right starts at count(). *)
GetSearchesPastEnd ==
  /\ at = "Get" /\ i < size
  /\ TRUE \in KeyMayMatch(i)
  /\ at' = "searchInChunk" /\ left' = 0 /\ right' = count(i)
  /\ UNCHANGED <<chunks, key, i, found>>

(* The filter may match: searchInChunk is called. *)
GetSearches ==
  /\ at = "Get" /\ i < size
  /\ TRUE \in KeyMayMatch(i)
  /\ at' = "searchInChunk" /\ left' = 0 /\ right' = Minus1(count(i))
  /\ UNCHANGED <<chunks, key, i, found>>

(* Mutant: the filter's answer is inverted. *)
GetSkipsMatch ==
  /\ at = "Get" /\ i < size
  /\ TRUE \in KeyMayMatch(i)
  /\ i' = Minus1(i)
  /\ UNCHANGED <<chunks, key, at, left, right, found>>

GetSkips ==
  /\ at = "Get" /\ i < size
  /\ FALSE \in KeyMayMatch(i)
  /\ i' = Minus1(i)
  /\ UNCHANGED <<chunks, key, at, left, right, found>>

(* searchInChunk returns NotFound and Get goes on with the chunk before.   *)
SearchNotFound ==
  /\ at = "searchInChunk" /\ left > right
  /\ at' = "Get" /\ i' = Minus1(i)
  /\ UNCHANGED <<chunks, key, left, right, found>>

middle == left + ((right - left) \div 2)

Probes == at = "searchInChunk" /\ left <= right

(* vKey_.at(current_) throws. *)
SearchThrows ==
  /\ Probes /\ middle >= count(i)
  /\ at' = "throw"
  /\ UNCHANGED <<chunks, key, i, left, right, found>>

SearchFound ==
  /\ Probes /\ middle < count(i) /\ blk(i)[middle + 1] = key
  /\ at' = "ok" /\ found' = middle
  /\ UNCHANGED <<chunks, key, i, left, right>>

(* Mutant: the probe is kept in the interval. *)
SearchRightStays ==
  /\ Probes /\ middle < count(i) /\ blk(i)[middle + 1] < key
  /\ left' = middle
  /\ UNCHANGED <<chunks, key, at, i, right, found>>

SearchRight ==
  /\ Probes /\ middle < count(i) /\ blk(i)[middle + 1] < key
  /\ left' = middle + 1
  /\ UNCHANGED <<chunks, key, at, i, right, found>>

SearchLeft ==
  /\ Probes /\ middle < count(i) /\ blk(i)[middle + 1] > key
  /\ right' = Minus1(middle)
  /\ UNCHANGED <<chunks, key, at, i, left, found>>

SearchNext ==
  \/ GetThrows \/ GetSearches \/ GetSkips
  \/ SearchNotFound \/ SearchThrows \/ SearchFound \/ SearchRight \/ SearchLeft

SearchSpec == SearchInit /\ [][SearchNext]_searchVars

(* The thread that called Get runs on. *)
FairSearchSpec == SearchSpec /\ WF_searchVars(SearchNext)

-----------------------------------------------------------------------------

(* Get returns the newest version of the key: what it found is the key,    *)
(* and no chunk behind the one it stopped at (fixed_range_tab.cc:200-213)  *)
(* holds it.                                                               *)
FoundIsNewest ==
  at = "ok" =>
    /\ i < size /\ found < count(i) /\ blk(i)[found + 1] = key
    /\ \A j \in 0..(size - 1) : j > i => ~Contains(j)

(* When Get throws, either no chunk holds the key and i has wrapped below  *)
(* 0 (line 200), or the filter of a chunk whose keys are all larger gave a *)
(* false positive and right has wrapped (line 236); no newer chunk holds   *)
(* the key.  A search of a chunk that holds the key never throws.  The     *)
(* false positive ends Get even when an older chunk holds the key: that is *)
(* what SearchesAll says must not happen.                                  *)
ThrowExplained ==
  at = "throw" =>
    \/ i >= size /\ \A j \in 0..(size - 1) : ~Contains(j)
    \/ /\ i < size /\ \A n \in 1..count(i) : key < blk(i)[n]
       /\ \A j \in 0..(size - 1) : j > i => ~Contains(j)

(* Every call of Get ends: the bisection shrinks its interval, wrap-around *)
(* included, and the loop over the chunks does not go round for ever.      *)
GetEnds == <>(at \in {"ok", "throw"})

-----------------------------------------------------------------------------
(* What a comment says and the code does not do.                           *)

(* fixed_range_tab.cc:213: Get loops until every chunk has been searched,  *)
(* so that it gives up only on a key that no chunk holds.                  *)
SearchesAll == at = "throw" => \A j \in 0..(size - 1) : ~Contains(j)

=============================================================================
