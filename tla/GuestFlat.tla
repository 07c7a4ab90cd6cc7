----------------------------- MODULE GuestFlat -----------------------------
(***************************************************************************)
(* Wii RAM over the guest memory: Initialize builds a whole layout of      *)
(* regions or, when a kernel call fails anywhere, takes everything down    *)
(* again (guest_flat_memory_ps5.cpp).  Each call into guest_memory_ps5 is  *)
(* a step.  In another use of the same calls, as in the diagnostics, they  *)
(* come in any order.                                                      *)
(***************************************************************************)
EXTENDS GuestMemory, Sequences, FiniteSetsExt

CONSTANTS Layouts,            \* sequences of [base, size, kind]
          Mem1Span, Mem2Span, \* what the offset masks of MEM1 and MEM2 keep
          Calls,              \* arguments of free calls: offsets, froms, sizes
          Spots               \* where another allocator maps

VARIABLES
    m,       \* see GuestMemory
    use,     \* "flat" | "free": who calls
    at,      \* where Initialize is
    regions, \* the layout being built, or of Current()
    failed,  \* ~State: a call failed
    refused, \* history: a kernel call failed in ~State
    fresh    \* history: Initialize returned and nothing was written since

vars == <<m, use, at, regions, failed, refused, fresh>>

Granularity == 8

At(phase, i) == [phase |-> phase, i |-> i]

Init ==
    /\ m = InitialMemory
    /\ use \in {"flat", "free"}
    /\ at = At("none", 0)
    /\ regions = <<>>
    /\ failed = FALSE /\ refused = FALSE /\ fresh = FALSE

-----------------------------------------------------------------------------
\* The guest address itself: a mirror would have memory of its own.
OffsetUnmasked(region) == IF region.kind = "owned" THEN 0 ELSE region.base

Offset(region) ==
    CASE region.kind = "mem1" -> region.base % Mem1Span
      [] region.kind = "mem2" -> region.base % Mem2Span
      [] OTHER -> 0

Extent(region) == Span(region.base, Rounded(region.size, Granularity))

Valid(layout) ==
    \A i \in DOMAIN layout :
       layout[i].size > 0 =>
          /\ layout[i].kind \in {"owned", "mem1", "mem2"}
          /\ layout[i].base % Granularity = 0
          /\ Extent(layout[i]) \subseteq Span(0, Space)
          /\ \A j \in 1..(i - 1) : layout[j].size > 0 => Extent(layout[i]) \cap Extent(layout[j]) = {}

\* Regions of one kind share a section; an owned region shares with its base only.
SameSection(region, other) ==
    region.kind = other.kind /\ (region.kind = "owned" => region.base = other.base)

Present(layout) == {i \in DOMAIN layout : layout[i].size > 0}

\* The regions that begin a section: sections are numbered in their order.
Leaders(layout) ==
    {i \in Present(layout) : \A j \in Present(layout) : j < i => ~SameSection(layout[i], layout[j])}

SectionCount(layout) == Cardinality(Leaders(layout))

SectionOf(layout, i) ==
    LET leader == CHOOSE j \in Leaders(layout) : SameSection(layout[i], layout[j])
    IN  Cardinality({j \in Leaders(layout) : j <= leader})

\* A section reaches to the end of its last region.
SectionBytes(layout, k) ==
    Max({Offset(layout[i]) + Rounded(layout[i].size, Granularity) :
            i \in {j \in Present(layout) : SectionOf(layout, j) = k}})

ASSUME LayoutAssumption ==
    /\ Layouts \subseteq Seq([base : Nat, size : Nat, kind : STRING])
    /\ \A layout \in Layouts : DOMAIN layout \subseteq Aliases /\ 1..SectionCount(layout) \subseteq Backings
    /\ Mem1Span \in Nat \ {0} /\ Mem2Span \in Nat \ {0}
    /\ Calls.offsets \subseteq Nat /\ Calls.froms \subseteq Nat /\ Calls.sizes \subseteq Nat
    /\ Spots \subseteq Span(0, Space)

\* The engine's regions begin where a mirror of MEM1 or MEM2 does and end
\* before the next one (guest_flat_ps5_test.cpp:132-138); Validate does not ask.
ASSUME MirrorAssumption ==
    \A layout \in Layouts : \A i \in DOMAIN layout :
       /\ layout[i].kind = "mem1" => (layout[i].base % Mem1Span) + layout[i].size <= Mem1Span
       /\ layout[i].kind = "mem2" => (layout[i].base % Mem2Span) + layout[i].size <= Mem2Span

Sections == 1..SectionCount(regions)

Zeroed(mem, b) == [mem EXCEPT !.dirty = @ \ mem.view[b]]

-----------------------------------------------------------------------------
\* A call failed: ~State starts with the last region's alias.
Throw(next) ==
    /\ m' = next
    /\ at' = At("unmap", Len(regions))
    /\ UNCHANGED <<use, regions, failed, refused, fresh>>

Proceed(next, phase, i) ==
    /\ m' = next
    /\ at' = At(phase, i)
    /\ UNCHANGED <<use, regions, failed, refused>>

\* A layout that is refused leaves everything as it is.
Initialize(layout) ==
    /\ use = "flat" /\ at.phase = "none" /\ Valid(layout)
    /\ regions' = layout
    /\ at' = At("reserve", 0)
    /\ UNCHANGED <<m, use, failed, refused, fresh>>

\* Again with the same layout: the memory is cleared; another one is refused.
InitializeAgain ==
    /\ at.phase = "active"
    /\ m' = [m EXCEPT !.dirty = @ \ UNION {m.view[b] : b \in Sections}]
    /\ fresh' = TRUE
    /\ UNCHANGED <<use, at, regions, failed, refused>>

ReserveArena ==
    /\ at.phase = "reserve"
    /\ \E r \in Reserve(m) :
          IF r.rc # "ok" THEN Throw(r.m) ELSE Proceed(r.m, "open", 1) /\ UNCHANGED fresh

OpenSection ==
    /\ at.phase = "open" /\ at.i \in Sections
    /\ \E r \in OpenBacking(m, at.i, Rounded(SectionBytes(regions, at.i), Granularity)) :
          IF r.rc # "ok" THEN Throw(r.m) ELSE Proceed(Zeroed(r.m, at.i), "open", at.i + 1) /\ UNCHANGED fresh

SectionsOpen ==
    /\ at.phase = "open" /\ at.i > SectionCount(regions)
    /\ Proceed(m, "map", 1) /\ UNCHANGED fresh

MapRegion ==
    /\ at.phase = "map" /\ at.i <= Len(regions)
    /\ LET region == regions[at.i]
       IN  IF region.size = 0 THEN Proceed(m, "map", at.i + 1) /\ UNCHANGED fresh
           ELSE \E r \in MapAlias(m, at.i, region.base, SectionOf(regions, at.i), Offset(region),
                                  Rounded(region.size, Granularity)) :
                   IF r.rc # "ok" THEN Throw(r.m) ELSE Proceed(r.m, "map", at.i + 1) /\ UNCHANGED fresh

Activate ==
    /\ at.phase = "map" /\ at.i > Len(regions)
    /\ Proceed(m, "active", 0) /\ fresh' = TRUE

\* ~State goes on after a failure and ends the process then.
Unwind(results, next) ==
    /\ \E r \in results :
          /\ m' = r.m
          /\ failed' = (failed \/ r.rc # "ok")
          /\ refused' = (refused \/ r.rc = "error")
    /\ at' = next
    /\ UNCHANGED <<use, regions, fresh>>

UnmapRegion ==
    /\ at.phase = "unmap" /\ at.i > 0
    /\ Unwind(UnmapAlias(m, at.i), At("unmap", at.i - 1))

AliasesGone ==
    /\ at.phase = "unmap" /\ at.i = 0
    /\ Proceed(m, "close", SectionCount(regions)) /\ UNCHANGED fresh

CloseSection ==
    /\ at.phase = "close" /\ at.i > 0
    /\ Unwind(CloseBacking(m, at.i), At("close", at.i - 1))

CloseSpace ==
    /\ at.phase = "close" /\ at.i = 0
    /\ Unwind(CloseArena(m), At("closed", 0))

\* The exception reaches the caller, which may try again.
Closed ==
    /\ at.phase = "closed"
    /\ at' = At(IF failed THEN "terminated" ELSE "none", 0)
    /\ regions' = IF failed THEN regions ELSE <<>>
    /\ UNCHANGED <<m, use, failed, refused, fresh>>

\* The game writes through a guest address or a host pointer.
Write(u) ==
    /\ at.phase = "active" /\ m.space[u] >= 0
    /\ m' = [m EXCEPT !.dirty = @ \cup {m.space[u]}]
    /\ fresh' = FALSE
    /\ UNCHANGED <<use, at, regions, failed, refused>>

-----------------------------------------------------------------------------
FreeStep(results) ==
    /\ use = "free"
    /\ \E r \in results : m' = r.m
    /\ UNCHANGED <<use, at, regions, failed, refused, fresh>>

FreeCall ==
    \/ FreeStep(Reserve(m))
    \/ \E b \in Backings, n \in Calls.sizes : FreeStep(OpenBacking(m, b, n))
    \/ \E a \in Aliases, b \in Backings, o \in Calls.offsets, f \in Calls.froms, n \in Calls.sizes :
          FreeStep(MapAlias(m, a, o, b, f, n))
    \/ \E a \in Aliases : FreeStep(UnmapAlias(m, a))
    \/ \E b \in Backings : FreeStep(CloseBacking(m, b))
    \/ FreeStep(CloseArena(m))

\* Another allocator takes an address that is free, or gives it back.
Allocator(u) ==
    /\ m.space[u] \in {Free, Foreign}
    /\ m' = [m EXCEPT !.space[u] = IF @ = Free THEN Foreign ELSE Free]
    /\ UNCHANGED <<use, at, regions, failed, refused, fresh>>

Next ==
    \/ \E layout \in Layouts : Initialize(layout)
    \/ InitializeAgain \/ ReserveArena \/ OpenSection \/ SectionsOpen \/ MapRegion \/ Activate
    \/ UnmapRegion \/ AliasesGone \/ CloseSection \/ CloseSpace \/ Closed
    \/ \E u \in Spots : Write(u) \/ Allocator(u)
    \/ FreeCall

Spec == Init /\ [][Next]_vars

-----------------------------------------------------------------------------
\* While the arena is held no address of it can be taken by another allocator,
\* and what one maps is never replaced or unmapped
\* (guest_memory_ps5.cpp:20, 74-77).
ForeignUntouched ==
    /\ ~m.harm
    /\ m.arena => \A u \in DOMAIN m.space : m.space[u] \notin {Free, Foreign}

\* Whichever kernel calls fail, in an orderly use or in calls in any order, no
\* address shows memory that was released or another handle's, and no handle
\* loses sight of what the kernel still holds (guest_memory_ps5.cpp:30-100); nor is
\* another allocator's memory touched.
NothingDangles == HandlesTrue(m) /\ ForeignUntouched

\* An Initialize that throws leaves no memory, no view and no reservation; the
\* process ends instead only when the kernel refused to take something back, not
\* because of the order ~State works in (guest_flat_memory_ps5.cpp:40-51).
FailureLeavesNothing ==
    /\ use = "flat" /\ at.phase = "none" =>
          /\ m.phys = {} /\ ~m.arena
          /\ \A u \in DOMAIN m.space : m.space[u] \in {Free, Foreign}
    /\ failed => refused

\* The guest memory in use and after a failure: nothing shown that is not held,
\* nothing held that nobody closes (guest_memory_ps5.cpp, guest_flat_memory_ps5.cpp).
MemorySound == NothingDangles /\ FailureLeavesNothing

HostPointer(u) ==
    LET within == {i \in DOMAIN regions : u \in Span(regions[i].base, regions[i].size)}
        i == CHOOSE j \in within : \A k \in within : j <= k
    IN  IF at.phase # "active" \/ within = {} THEN None
        ELSE m.back[SectionOf(regions, i)].physical + Offset(regions[i]) + (u - regions[i].base)

Mirrors(i, j, u, v) ==
    /\ regions[i].kind = regions[j].kind /\ regions[i].kind # "owned"
    /\ u % (IF regions[i].kind = "mem1" THEN Mem1Span ELSE Mem2Span) = v % (IF regions[i].kind = "mem1" THEN Mem1Span ELSE Mem2Span)

\* Once RAM is there, a host pointer and the guest address it was asked for are
\* the same memory, mirrors of MEM1 and MEM2 show the same bytes, other
\* addresses stay reserved, and RAM is zero after every Initialize
\* (guest_flat_memory_ps5.cpp:59-63, 102-105, 136-164).
RamServed ==
    at.phase = "active" =>
       /\ \A u \in DOMAIN m.space :
             IF \E i \in DOMAIN regions : u \in Span(regions[i].base, regions[i].size)
             THEN HostPointer(u) = m.space[u] /\ m.space[u] >= 0
             ELSE HostPointer(u) = None
       /\ \A u \in DOMAIN m.space :
             (\A i \in DOMAIN regions : regions[i].size > 0 => u \notin Extent(regions[i])) => m.space[u] = Reserved
       /\ \A i, j \in DOMAIN regions :
             \A u \in Span(regions[i].base, regions[i].size), v \in Span(regions[j].base, regions[j].size) :
                Mirrors(i, j, u, v) => m.space[u] = m.space[v]
       /\ fresh => Shown(m) \cap m.dirty = {}

=============================================================================
