----------------------------- MODULE BufferPool -----------------------------
(***************************************************************************)
(* BufferAllocator, BufferRequest and BufferHandle of                      *)
(* src/src/buffer_pool.rs and src/src/buffer_handle.rs: a ring of free     *)
(* buffer indices, a count and a mask of the buffers in use.  A holder     *)
(* awaits a BufferRequest and gets a handle.  Dropping the handle gives    *)
(* the buffer back, and so does turning it into a slice or a FlatBuffer:   *)
(* the conversion consumes the handle while the slice lives on.  All of it *)
(* runs in critical sections.                                              *)
(***************************************************************************)
EXTENDS Naturals, FiniteSets

CONSTANTS
    BUFFER_COUNT,
    Holder,     \* what may hold a handle at a time
    None        \* no handle

ASSUME PoolAssumption ==
    /\ BUFFER_COUNT \in 1..8          \* in_use_mask has eight bits
    /\ IsFiniteSet(Holder)

Index == 0..(BUFFER_COUNT - 1)

ASSUME NoneAssumption == None \notin Index

VARIABLES
    alloc_idx, dealloc_idx,
    allocations,   \* the ring of indices
    count,         \* free buffers, a u8
    in_use_mask,   \* as the set of its one bits
    handle,        \* the buffer of each holder's BufferHandle
    slices,        \* buffers that slices point to; a slice lives for ever
    requests,      \* history: requests served, up to one more than buffers
    refused        \* history: a release was refused

allocator == <<alloc_idx, dealloc_idx, allocations, count, in_use_mask>>
vars == <<allocator, handle, slices, requests, refused>>

Init ==
    /\ alloc_idx = 0
    /\ dealloc_idx = 0
    /\ allocations = [i \in Index |-> i]
    /\ count = BUFFER_COUNT
    /\ in_use_mask = {}
    /\ handle = [h \in Holder |-> None]
    /\ slices = {}
    /\ requests = 0
    /\ refused = FALSE

-----------------------------------------------------------------------------

\* Mutant: the mask is not updated.
try_allocUnmarked(index) ==
    /\ index = allocations[alloc_idx]
    /\ alloc_idx' = (alloc_idx + 1) % BUFFER_COUNT
    /\ count' = (count + 255) % 256
    /\ UNCHANGED <<dealloc_idx, allocations, in_use_mask>>

\* Mutant: the ring is read where freed buffers are put.
try_allocLifo(index) ==
    /\ index = allocations[dealloc_idx]
    /\ alloc_idx' = (alloc_idx + 1) % BUFFER_COUNT
    /\ count' = (count + 255) % 256
    /\ in_use_mask' = in_use_mask \cup {index}
    /\ UNCHANGED <<dealloc_idx, allocations>>

\* The next index of the ring.  The check for an empty pool is commented out.
\* The u8 count is modelled as in a build without overflow checks, where it
\* wraps; a build with them panics instead when it is 0, which TypeOK rules out.
try_alloc(index) ==
    /\ index = allocations[alloc_idx]
    /\ alloc_idx' = (alloc_idx + 1) % BUFFER_COUNT
    /\ count' = (count + 255) % 256
    /\ in_use_mask' = in_use_mask \cup {index}
    /\ UNCHANGED <<dealloc_idx, allocations>>

\* The three errors of try_dealloc.
Refused(index) ==
    \/ count = BUFFER_COUNT
    \/ index >= BUFFER_COUNT
    \/ index \notin in_use_mask

\* Mutant: the index is put where the next one will be taken.
PutBackInFront(index) ==
    /\ allocations' = [allocations EXCEPT ![alloc_idx] = index]
    /\ dealloc_idx' = (dealloc_idx + 1) % BUFFER_COUNT
    /\ count' = (count + 1) % 256
    /\ in_use_mask' = in_use_mask \ {index}
    /\ UNCHANGED alloc_idx

\* Mutant: the position does not wrap.
PutBackNoWrap(index) ==
    /\ allocations' = [allocations EXCEPT ![dealloc_idx] = index]
    /\ dealloc_idx' = dealloc_idx + 1
    /\ count' = (count + 1) % 256
    /\ in_use_mask' = in_use_mask \ {index}
    /\ UNCHANGED alloc_idx

PutBack(index) ==
    /\ allocations' = [allocations EXCEPT ![dealloc_idx] = index]
    /\ dealloc_idx' = (dealloc_idx + 1) % BUFFER_COUNT
    /\ count' = (count + 1) % 256
    /\ in_use_mask' = in_use_mask \ {index}
    /\ UNCHANGED alloc_idx

\* release_buffer; Drop ignores its result.  There is no waker to wake, since
\* a poll never finds the pool empty.
release_buffer(index) ==
    IF Refused(index) THEN refused' = TRUE /\ UNCHANGED allocator
                      ELSE PutBack(index) /\ UNCHANGED refused

\* BufferRequest::poll is always ready.
poll(h) ==
    /\ handle[h] = None
    /\ \E index \in Index :
          /\ try_alloc(index)
          /\ handle' = [handle EXCEPT ![h] = index]
    /\ requests' = IF requests <= BUFFER_COUNT THEN requests + 1 ELSE requests
    /\ UNCHANGED <<slices, refused>>

drop(h) ==
    /\ handle[h] # None
    /\ release_buffer(handle[h])
    /\ handle' = [handle EXCEPT ![h] = None]
    /\ UNCHANGED <<slices, requests>>

\* From<BufferHandle>: the slice takes pointer and length, and the handle is
\* dropped at the end of the conversion.
from(h) ==
    /\ handle[h] # None
    /\ release_buffer(handle[h])
    /\ slices' = slices \cup {handle[h]}
    /\ handle' = [handle EXCEPT ![h] = None]
    /\ UNCHANGED requests

Next == \E h \in Holder : poll(h) \/ drop(h) \/ from(h)

Spec == Init /\ [][Next]_vars

-----------------------------------------------------------------------------
(* Properties.  All but the last hold as long as there are no more holders *)
(* than buffers.                                                           *)

\* Every variable keeps its type: both positions stay inside the ring, the ring
\* holds nothing but indices of buffers, and the u8 count stays within the
\* pool's size, so that `count -= 1` in try_alloc never goes below zero.
TypeOK ==
    /\ alloc_idx \in Index
    /\ dealloc_idx \in Index
    /\ allocations \in [Index -> Index]
    /\ count \in 0..BUFFER_COUNT
    /\ in_use_mask \subseteq Index
    /\ handle \in [Holder -> Index \cup {None}]
    /\ slices \subseteq Index
    /\ requests \in 0..(BUFFER_COUNT + 1)
    /\ refused \in BOOLEAN

\* The k-th free index, counted from the next to be given out.
Free(k) == allocations[(alloc_idx + k) % BUFFER_COUNT]

\* The ring, its two positions, the count and the mask tell the same story:
\* between the positions every free index stands exactly once.
RingIsFreeList ==
    /\ dealloc_idx = (alloc_idx + count) % BUFFER_COUNT
    /\ \A i, j \in 0..(count - 1) : Free(i) = Free(j) => i = j
    /\ {Free(k) : k \in 0..(count - 1)} = Index \ in_use_mask

\* No two handles share a buffer, and the mask marks just the buffers of the
\* handles.
HandlesExclusive ==
    /\ \A g, h \in Holder :
          handle[g] # None /\ handle[g] = handle[h] => g = h
    /\ in_use_mask = {handle[h] : h \in Holder} \ {None}

\* The result Drop ignores is always Ok.
ReleaseSucceeds == ~refused

\* A buffer whose handle was turned into a slice is free and will be given
\* out again, but not before every other buffer was: as many requests as
\* there are buffers never meet a living slice.  The firmware makes four.
FirstRoundDistinct ==
    requests <= BUFFER_COUNT =>
        \A h \in Holder : handle[h] \notin slices

\* With an empty pool a request waits for a release.
EmptyPoolWaits ==
    [][count = 0 => \A h \in Holder : handle[h] = None => handle'[h] = None]_vars
=============================================================================
