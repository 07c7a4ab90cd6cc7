---------------------------- MODULE GuestMemory ----------------------------
(***************************************************************************)
(* The arena of guest addresses, the backings of direct memory and the     *)
(* aliases that map one into the other (guest_memory_ps5.cpp), over a      *)
(* kernel whose calls may fail.  Operations take the memory m and return   *)
(* the set of what may come of them, [m, rc].                              *)
(*                                                                         *)
(* A unit is half a kernel page.  m.space is what the kernel has at each   *)
(* unit of the guest's address range: nothing, a reservation, another      *)
(* allocator's mapping or a unit of direct memory.                         *)
(***************************************************************************)
EXTENDS Integers, FiniteSets

CONSTANTS Backings, Aliases, \* handles
          Space,             \* units of GuestSpaceSize
          Pool               \* units of direct memory

None == -1

ASSUME MemoryAssumption ==
    /\ IsFiniteSet(Aliases) /\ None \notin Backings
    /\ Space \in Nat /\ Pool \in Nat

PageSize == 2

Free == -1
Reserved == -2
Foreign == -3

Span(first, n) == first..(first + n - 1)

Rounded(n, grain) == ((n + grain - 1) \div grain) * grain

NoBacking == [physical |-> None, size |-> 0, host |-> FALSE, aliases |-> 0]

NoAlias == [address |-> None, size |-> 0, backing |-> None]

\* Direct memory may have been used before: its units are dirty.
InitialMemory ==
    [arena |-> FALSE,                              \* Arena.base is set
     linked |-> {},                                \* Arena.aliases; its order is of no use
     back |-> [b \in Backings |-> NoBacking],
     alias |-> [a \in Aliases |-> NoAlias],
     space |-> [u \in Span(0, Space) |-> Free],
     view |-> [b \in Backings |-> {}],             \* units mapped at Backing.host
     phys |-> {},                                  \* units of direct memory allocated
     dirty |-> Span(0, Pool),
     stray |-> {},                                 \* mappings left behind elsewhere
     harm |-> FALSE]                               \* another allocator's mapping was replaced

Result(m, rc) == [m |-> m, rc |-> rc]

All(n, what) == [u \in 0..(n - 1) |-> what]

\* The kernel replaces what it has in a range.
Put(m, first, n, what) ==
    [m EXCEPT !.space = [u \in DOMAIN @ |-> IF u \in Span(first, n) THEN what[u - first] ELSE @[u]],
              !.harm = @ \/ \E u \in Span(first, n) : m.space[u] = Foreign]

\* Put elsewhere and unmapped again; that call's result is not looked at.
Elsewhere(m, units) == {Result(m, "invalid"), Result([m EXCEPT !.stray = @ \cup {units}], "invalid")}

-----------------------------------------------------------------------------
\* Fixed without overwriting: the kernel refuses an occupied range.
Reserve(m) ==
    IF m.arena THEN {Result(m, "busy")}
    ELSE {Result(m, "error")} \cup Elsewhere(m, {})
         \cup (IF \A u \in DOMAIN m.space : m.space[u] = Free
               THEN {Result([Put(m, 0, Space, All(Space, Reserved)) EXCEPT !.arena = TRUE], "ok")} ELSE {})

OwnedUnits(m, b) == Span(m.back[b].physical, m.back[b].size)

ReleaseBacking(m, b) ==
    IF m.back[b].physical = None THEN {Result(m, "ok")}
    ELSE {Result(m, "error"),
          Result([m EXCEPT !.phys = @ \ OwnedUnits(m, b), !.back[b] = [@ EXCEPT !.physical = None, !.size = 0]], "ok")}

\* Without the count of aliases.
CloseBackingAnyway(m, b) ==
    IF ~m.back[b].host THEN ReleaseBacking(m, b)
    ELSE {Result(m, "error")} \cup ReleaseBacking([m EXCEPT !.back[b].host = FALSE, !.view[b] = {}], b)

CloseBacking(m, b) ==
    IF m.back[b].aliases > 0 THEN {Result(m, "busy")}
    ELSE IF ~m.back[b].host THEN ReleaseBacking(m, b)
    ELSE {Result(m, "error")} \cup ReleaseBacking([m EXCEPT !.back[b].host = FALSE, !.view[b] = {}], b)

\* Where the kernel finds n free units of direct memory.
Places(m, n) ==
    {p \in Span(0, Pool) : p % PageSize = 0 /\ p + n <= Pool /\ Span(p, n) \cap m.phys = {}}

FirstPlace(m, n) == CHOOSE p \in Places(m, n) : \A q \in Places(m, n) : p <= q

\* The handle takes the memory only once it is mapped.
OpenBackingLate(m, b, bytes) ==
    LET rounded == Rounded(bytes, PageSize)
        p == FirstPlace(m, rounded)
        allocated == [m EXCEPT !.phys = @ \cup Span(p, rounded)]
    IN  IF m.back[b].physical # None \/ m.back[b].host THEN {Result(m, "busy")}
        ELSE IF bytes = 0 \/ rounded > Pool THEN {Result(m, "invalid")}
        ELSE {Result(m, "error")}
             \cup (IF Places(m, rounded) = {} THEN {}
                   ELSE {Result([allocated EXCEPT !.back[b] = [@ EXCEPT !.physical = p, !.size = rounded, !.host = TRUE],
                                                  !.view[b] = Span(p, rounded)], "ok"),
                         Result(allocated, "error")})

OpenBacking(m, b, bytes) ==
    LET rounded == Rounded(bytes, PageSize)
        p == FirstPlace(m, rounded)
        allocated == [m EXCEPT !.phys = @ \cup Span(p, rounded),
                               !.back[b] = [@ EXCEPT !.physical = p, !.size = rounded]]
    IN  IF m.back[b].physical # None \/ m.back[b].host THEN {Result(m, "busy")}
        ELSE IF bytes = 0 \/ rounded > Pool THEN {Result(m, "invalid")}
        ELSE {Result(m, "error")}
             \cup (IF Places(m, rounded) = {} THEN {}
                   ELSE {Result([allocated EXCEPT !.back[b].host = TRUE, !.view[b] = Span(p, rounded)], "ok")}
                        \cup {Result(closed.m, "error") : closed \in CloseBacking(allocated, b)})

-----------------------------------------------------------------------------
Aligned(n) == n % PageSize = 0

OverlapsAlias(m, first, n) ==
    \E a \in m.linked : Span(first, n) \cap Span(m.alias[a].address, m.alias[a].size) # {}

MapAlias(m, a, offset, b, from, bytes) ==
    IF m.alias[a].address # None THEN {Result(m, "busy")}
    ELSE IF \/ ~m.arena \/ ~m.back[b].host \/ bytes = 0
            \/ ~Aligned(offset) \/ ~Aligned(from) \/ ~Aligned(bytes)
            \/ offset + bytes > Space \/ from + bytes > m.back[b].size
         THEN {Result(m, "invalid")}
    ELSE IF OverlapsAlias(m, offset, bytes) THEN {Result(m, "busy")}
    ELSE LET first == m.back[b].physical + from
         IN  {Result(m, "error")} \cup Elsewhere(m, Span(first, bytes))
             \cup {Result([Put(m, offset, bytes, [u \in 0..(bytes - 1) |-> first + u]) EXCEPT
                             !.alias[a] = [address |-> offset, size |-> bytes, backing |-> b],
                             !.linked = @ \cup {a},
                             !.back[b].aliases = @ + 1], "ok")}

Forgotten(m, a) ==
    [m EXCEPT !.linked = @ \ {a},
              !.back[m.alias[a].backing].aliases = @ - 1,
              !.alias[a] = NoAlias]

UnmapAlias(m, a) ==
    IF m.alias[a].address = None THEN {Result(m, "ok")}
    ELSE {Result(m, "error"),
          Result(Forgotten(Put(m, m.alias[a].address, m.alias[a].size, All(m.alias[a].size, Reserved)), a), "ok")}

CloseArena(m) ==
    IF m.linked # {} THEN {Result(m, "busy")}
    ELSE IF ~m.arena THEN {Result(m, "ok")}
    ELSE {Result(m, "error"),
          Result([Put(m, 0, Space, All(Space, Free)) EXCEPT !.arena = FALSE], "ok")}

-----------------------------------------------------------------------------
\* The units of direct memory a guest address range shows.
Shown(m) == {m.space[u] : u \in DOMAIN m.space} \ {Free, Reserved, Foreign}

\* Handles and kernel agree: what is allocated belongs to one handle each, what
\* is mapped is allocated, at the host view of its owner or where an alias of it
\* says, one unit after the other.
HandlesTrue(m) ==
    /\ m.phys = UNION {OwnedUnits(m, b) : b \in Backings}
    /\ Shown(m) \subseteq m.phys
    /\ \A b \in Backings :
          /\ m.view[b] = IF m.back[b].host THEN OwnedUnits(m, b) ELSE {}
          /\ \A c \in Backings \ {b} : OwnedUnits(m, b) \cap OwnedUnits(m, c) = {}
          /\ m.back[b].aliases = Cardinality({a \in Aliases : m.alias[a].backing = b})
    /\ \A u \in DOMAIN m.space :
          m.space[u] >= 0 =>
             \E a \in Aliases :
                LET alias == m.alias[a]
                IN  /\ u \in Span(alias.address, alias.size)
                    /\ m.space[u] \in OwnedUnits(m, alias.backing)
                    /\ m.space[u] - u = m.space[alias.address] - alias.address

=============================================================================
