----------------------------- MODULE GxCopyStore -----------------------------
(***************************************************************************)
(* EFB copies that stay on the GPU until the guest touches their bytes:    *)
(* the copy store (ps5/gpu/gx_copy_store.cpp), the sampled-copy cache, the *)
(* deferred readback and Memory's registry of deferred reads               *)
(* (patches/Wiicompiled.patch).                                            *)
(*                                                                         *)
(* publish() registers a copy for its range of Wii RAM instead of writing  *)
(* it.  A guest access resolves the registrations it overlaps first: each  *)
(* waits for the blits, encodes the GPU image and writes the range.  The   *)
(* wait runs the guest's timing callback, which may access RAM itself.     *)
(* One thread publishes and runs guest code.  RAM is a row of cells; a     *)
(* copy or store writes one number, its own, to all of its cells; the      *)
(* three address windows of a cell are one cell.                           *)
(***************************************************************************)
EXTENDS Naturals, FiniteSets

CONSTANTS
    Cells,     \* cells of Wii RAM
    MaxStamp   \* copies and stores in a run

ASSUME StoreAssumption == Cells \in Nat \ {0} /\ MaxStamp \in Nat

Cell   == 1 .. Cells
Ranges == {a .. b : a \in Cell, b \in Cell} \ {{}}
Copy   == [cells : Ranges, token : 1 .. MaxStamp]

VARIABLES
    ram,        \* what Wii RAM really holds
    reads,      \* Memory's registry: copies not yet written to RAM
    executing,  \* the token whose materialization is under way, or 0
    ranges,     \* the store's tracked ranges, materialized or not
    views,      \* the sampled-copy cache: the GPU images by destination
    stamp,      \* copies and stores so far
    call,       \* the operation in progress
    returned,   \* history: what the last guest read returned
    dirty       \* history: cells the guest's CPU wrote after their last copy

memory == <<ram, reads, executing>>
store  == <<ranges, views>>
vars   == <<memory, store, stamp, call, returned, dirty>>

Idle == [op |-> "none", at |-> "idle", cells |-> {}, todo |-> {}]

Init ==
    /\ ram = [c \in Cell |-> 0]
    /\ reads = {} /\ executing = 0
    /\ ranges = {} /\ views = {}
    /\ stamp = 0 /\ call = Idle
    /\ returned = 0 /\ dirty = {}

-----------------------------------------------------------------------------
(* Helpers of the implementation, each after the slips it could contain.    *)

Return == call' = Idle

\* The bound on a run: n more copies or stores fit.
Room(n) == stamp + n <= MaxStamp

Overlaps(S, cells) == {x \in S : x.cells \intersect cells # {}}

\* The cell a copy starts at: its key in the cache.
Destination(x) == CHOOSE c \in x.cells : \A d \in x.cells : c <= d

\* Slip: whatever the new copy overlaps counts as overwritten.
PartlyNone(cells) == {}

\* publish(): predecessors that the new copy covers only in part.
PartlyCovered(cells) == {x \in Overlaps(ranges, cells) : ~(x.cells \subseteq cells)}

\* The views whose tracked range the operation overlaps.
Stale(cells) ==
    {v \in views : \E x \in Overlaps(ranges, cells) : Destination(v) = Destination(x)}

\* Slip: a predecessor's registration outlives its range.
NotCancelled(cells) == {}

\* CancelDeferredRead() for every overlapped predecessor; a token whose
\* registration has been materialized is unknown and changes nothing.
Cancelled(cells) ==
    {r \in reads : r.token # executing /\ \E x \in Overlaps(ranges, cells) : x.token = r.token}

\* RAM with a copy's image encoded into it.
Settled(r) == [c \in Cell |-> IF c \in r.cells THEN r.token ELSE ram[c]]

-----------------------------------------------------------------------------
(* The operations.                                                          *)

\* A guest load or store of one cell, or a bulk write through a host pointer,
\* begins by resolving what it overlaps.
CallAccess(op, cells) ==
    /\ call = Idle
    /\ op = "read" \/ Room(1)
    /\ call' = [op |-> op, at |-> "resolve", cells |-> cells, todo |-> cells]
    /\ UNCHANGED <<memory, store, stamp, returned, dirty>>

\* publish() resolves the predecessors it covers in part.
CallPublish(cells) ==
    /\ call = Idle /\ Room(1)
    /\ call' = [op |-> "publish", at |-> "resolve", cells |-> cells,
                todo |-> UNION {x.cells : x \in PartlyCovered(cells)}]
    /\ UNCHANGED <<memory, store, stamp, returned, dirty>>

\* ResolveDeferredReads(): take an overlapping registration; it stays in the
\* registry, marked, while its callback runs outside the lock.
ResolveNext ==
    /\ call.at = "resolve"
    /\ \E r \in Overlaps(reads, call.todo) : executing' = r.token
    /\ call' = [call EXCEPT !.at = "materialize"]
    /\ UNCHANGED <<ram, reads, store, stamp, returned, dirty>>

ResolveDone ==
    /\ call.at = "resolve" /\ Overlaps(reads, call.todo) = {}
    /\ call' = [call EXCEPT !.at = "resolved"]
    /\ UNCHANGED <<memory, store, stamp, returned, dirty>>

\* The callback has waited for the blits and encoded the whole image: it writes
\* the range, and only then the registration goes.
Materialize ==
    /\ call.at = "materialize"
    /\ \E r \in reads : /\ r.token = executing
                        /\ ram' = Settled(r)
                        /\ reads' = reads \ {r}
    /\ executing' = 0
    /\ call' = [call EXCEPT !.at = "resolve"]
    /\ UNCHANGED <<store, stamp, returned, dirty>>

\* Slip: the registration goes before its callback runs, and fails with it.
MaterializeDrops ==
    /\ call.at = "materialize"
    /\ reads' = {r \in reads : r.token # executing}
    /\ executing' = 0
    /\ Return
    /\ UNCHANGED <<ram, store, stamp, returned, dirty>>

\* The wait or the encoding fails: RAM is unchanged, the registration is pending
\* again, and the operation ends with an exception.
MaterializeFails ==
    /\ call.at = "materialize"
    /\ executing' = 0
    /\ Return
    /\ UNCHANGED <<ram, reads, store, stamp, returned, dirty>>

Store(cells) ==
    /\ stamp' = stamp + 1
    /\ ram' = [c \in Cell |-> IF c \in cells THEN stamp + 1 ELSE ram[c]]

Load(c) == returned' = ram[c]

\* The resolved load.
Read ==
    /\ call.at = "resolved" /\ call.op = "read"
    /\ \E c \in call.cells : Load(c)
    /\ Return
    /\ UNCHANGED <<memory, store, stamp, dirty>>

\* WriteScalar(): the resolved store; the GPU's view stays until the guest
\* evicts it, as with a CPU cache.
Write ==
    /\ call.at = "resolved" /\ call.op = "write"
    /\ Store(call.cells)
    /\ dirty' = dirty \union call.cells
    /\ Return
    /\ UNCHANGED <<reads, executing, store, returned>>

\* prepare_write() retires the overlapped views and ranges, then its caller
\* writes the bytes through a host pointer.
BulkWrite ==
    /\ call.at = "resolved" /\ call.op = "bulk"
    /\ views' = views \ Stale(call.cells)
    /\ ranges' = ranges \ Overlaps(ranges, call.cells)
    /\ Store(call.cells)
    /\ Return
    /\ UNCHANGED <<reads, executing, returned, dirty>>

\* publish(), once nothing can fail any more: the new registration and view are
\* in place before the predecessors' go.
Publish ==
    /\ call.at = "resolved" /\ call.op = "publish"
    /\ LET copy == [cells |-> call.cells, token |-> stamp + 1]
       IN  /\ reads' = (reads \ Cancelled(call.cells)) \union {copy}
           /\ views' = {v \in views \ Stale(call.cells) : Destination(v) # Destination(copy)} \union {copy}
           /\ ranges' = (ranges \ Overlaps(ranges, call.cells)) \union {copy}
    /\ stamp' = stamp + 1
    /\ dirty' = dirty \ call.cells
    /\ Return
    /\ UNCHANGED <<ram, executing, returned>>

\* The registration or the cache insertion fails: the former is taken back.
PublishFails ==
    /\ call.at = "resolved" /\ call.op = "publish"
    /\ Return
    /\ UNCHANGED <<memory, store, stamp, returned, dirty>>

\* GXDestroyCopyTex and cache maintenance: the view goes, the bytes stay due.
EvictView ==
    /\ call = Idle
    /\ \E v \in views : views' \in {views \ {v}, {}}
    /\ UNCHANGED <<memory, ranges, stamp, call, returned, dirty>>

-----------------------------------------------------------------------------
(* The timing callback inside a materialization's wait.                     *)

InCallback == call.at = "materialize"

\* A scalar access to a cell that no registration covers goes through.
CallbackAccess(c) ==
    /\ InCallback /\ Overlaps(reads, {c}) = {}
    /\ \/ Load(c) /\ UNCHANGED <<ram, stamp, dirty>>
       \/ /\ Room(2) /\ Store({c})
          /\ dirty' = dirty \union {c}
          /\ UNCHANGED returned
    /\ UNCHANGED <<reads, executing, store, call>>

\* One that another registration covers materializes it first, if the blits have
\* all ended by then; otherwise waiting again throws out of both.
CallbackResolves(c) ==
    /\ InCallback
    /\ \E r \in Overlaps(reads, {c}) : /\ r.token # executing
                                       /\ ram' = Settled(r)
                                       /\ reads' = reads \ {r}
    /\ UNCHANGED <<executing, store, stamp, call, returned, dirty>>

\* Slip: the marked registration is taken as resolved, for its callback runs.
ExecutingIgnored(c) == InCallback /\ Load(c) /\ UNCHANGED <<memory, store, stamp, call, dirty>>

\* One that meets the executing registration is refused: the access violation
\* unwinds the callback, the wait and the materialization.
CallbackRefused(c) ==
    /\ InCallback
    /\ \E r \in Overlaps(reads, {c}) : r.token = executing
    /\ executing' = 0
    /\ Return
    /\ UNCHANGED <<ram, reads, store, stamp, returned, dirty>>

Next ==
    \/ \E c \in Cell : CallAccess("read", {c}) \/ CallAccess("write", {c})
    \/ \E cells \in Ranges : CallAccess("bulk", cells) \/ CallPublish(cells)
    \/ ResolveNext \/ ResolveDone \/ Materialize \/ MaterializeFails
    \/ Read \/ Write \/ BulkWrite \/ Publish \/ PublishFails
    \/ EvictView
    \/ \E c \in Cell : CallbackAccess(c) \/ CallbackResolves(c) \/ CallbackRefused(c)

Spec == Init /\ [][Next]_vars

-----------------------------------------------------------------------------
(* Properties.                                                              *)

\* Every variable keeps its type; a registration is marked as executing only
\* while its callback runs, however that ends.
TypeOK ==
    /\ ram \in [Cell -> 0 .. MaxStamp]
    /\ reads \subseteq Copy /\ ranges \subseteq Copy /\ views \subseteq Copy
    /\ executing \in 0 .. MaxStamp /\ (executing # 0 => call.at = "materialize")
    /\ stamp \in 0 .. MaxStamp
    /\ call \in [op : {"none", "read", "write", "bulk", "publish"},
                 at : {"idle", "resolve", "materialize", "resolved"},
                 cells : Ranges \union {{}}, todo : SUBSET Cell]
    /\ returned \in 0 .. MaxStamp
    /\ dirty \subseteq Cell

\* Pending copies never overlap, and the store tracks each of them: the order in
\* which Memory materializes them cannot matter, and none can be orphaned to
\* overwrite later bytes.
PendingDisjoint ==
    /\ reads \subseteq ranges
    /\ \A x, y \in ranges : x # y => x.cells \intersect y.cells = {}

\* What each cell holds in the guest's eyes.
Contents == [c \in Cell |-> IF \E r \in reads : c \in r.cells
                            THEN (CHOOSE r \in reads : c \in r.cells).token
                            ELSE ram[c]]

\* A view the GPU samples shows the bytes of its range, except where the guest's
\* CPU wrote and has not yet evicted it: no view outlives a later overlapping
\* copy or bulk write.
ViewsCurrent ==
    \A v \in views : \A c \in v.cells : c \in dirty \/ Contents[c] = v.token

\* The store, Memory and the texture cache agree on which bytes are due.
StoreAgrees == TypeOK /\ PendingDisjoint /\ ViewsCurrent

\* Deferral is invisible: reads, stores, bulk writes and copies act on RAM as if
\* every copy had been written when it was made, whatever fails in between.
Ram == INSTANCE GuestRam WITH
    mem     <- Contents,
    written <- stamp

ImplementsRam == Ram!Spec
=============================================================================
