---------------------------- MODULE DeferredPages ----------------------------
(***************************************************************************)
(* The page marks of Memory's deferred reads (patches/Wiicompiled.patch).  *)
(* An access takes a fast path past the registry when the tables say that  *)
(* nothing is pending where it goes: per coarse page a flag and a bias,    *)
(* per block a count of the pending ranges that mark it.  Registering,     *)
(* cancelling and materializing a range keep the tables up to date.        *)
(*                                                                         *)
(* What a range holds is in GxCopyStore.  Which pages are mapped is fixed; *)
(* the other reasons for which a fast path refuses (executable guards,     *)
(* MMIO) only make it rarer, and are left out.                             *)
(***************************************************************************)
EXTENDS Integers, Sequences, FiniteSets

CONSTANTS
    Space,      \* addresses
    BlockSize,  \* 2^kDeferredSubPageShift
    CoarseSize, \* kPageSize
    Scalar,     \* kMaxFastScalarSize
    MarkLimit,  \* of a uint16_t
    Windows,    \* where RAM is seen
    Banks,      \* of RAM: [first, end), in every window
    Plain,      \* coarse pages mapped in full: g_fullPageBias
    Given,      \* the ranges callers register: [start, length]
    Handles     \* tokens: bounds the registrations pending at one time

Address == 0..(Space - 1)
Block   == 0..((Space - 1) \div BlockSize)
Coarse  == 0..((Space - 1) \div CoarseSize)

ASSUME PagesAssumption ==
    /\ Space \in Nat \ {0} /\ BlockSize \in Nat \ {0} /\ CoarseSize \in Nat \ {0}
    /\ Scalar \in Nat \ {0} /\ MarkLimit \in Nat \ {0}
    /\ Windows \subseteq Nat /\ IsFiniteSet(Windows)
    /\ \A bank \in Banks : bank.end \in Nat /\ \A w \in Windows : w + bank.end <= Space
    /\ Plain \subseteq Coarse
    /\ \A g \in Given : g.start \in Address /\ g.length \in Nat

VARIABLES
    pending, \* the registered ranges, each with the token of its registration
    running, \* tokens whose callbacks are under way, each inside the one before
    marks,   \* g_deferredReadCoveredSubPages
    covered, \* g_deferredReadCoveredPages: those that are set
    fast     \* g_fullReadablePageBias: those that are not zero

pageVars == <<pending, running, marks, covered, fast>>

-----------------------------------------------------------------------------
\* Slip: an access that starts before the range reaches into it.
FromInside(g) == g.start

\* A scalar access may begin this far ahead of a range.
From(g) == IF g.start >= Scalar - 1 THEN g.start - (Scalar - 1) ELSE 0

Upto(g) == g.start + g.length - 1

Blocks(g) == (From(g) \div BlockSize)..(Upto(g) \div BlockSize)
Pages(g)  == (From(g) \div CoarseSize)..(Upto(g) \div CoarseSize)

\* RangesOverlap() of a page with the extent of a range.
Touches(g, page) == page * CoarseSize <= Upto(g) /\ From(g) < (page + 1) * CoarseSize

Marking(ranges, b) == {x \in ranges : b \in Blocks(x.range)}

\* AdjustDeferredReadSubPages() of all of a registration's ranges.
Adjusted(ranges, delta) == [b \in Block |-> (marks[b] + delta * Cardinality(Marking(ranges, b))) % MarkLimit]

\* RefreshDeferredReadPages() of them: each page they mark is judged anew by
\* what is registered now.
Refresh(ranges, registered) ==
    LET stale  == {page \in Coarse : \E x \in ranges : page \in Pages(x.range)}
        marked == {page \in stale : \E x \in registered : Touches(x.range, page)}
    IN  /\ covered' = (covered \ stale) \cup marked
        /\ fast' = (fast \ stale) \cup ((stale \ marked) \cap Plain)

Of(token) == {x \in pending : x.token = token}

\* A bound: fewer ranges mark a block at one time than its counter can tell.
Countable(ranges) ==
    \A b \in Block : Cardinality(Marking(pending, b)) + Cardinality(Marking(ranges, b)) < MarkLimit

-----------------------------------------------------------------------------
PagesInit ==
    /\ pending = {} /\ running = <<>>
    /\ marks = [b \in Block |-> 0]
    /\ covered = {} /\ fast = Plain

Insert(token, ranges) ==
    LET new == {[token |-> token, range |-> g] : g \in ranges}
    IN  /\ Of(token) = {} /\ Countable(new)
        /\ pending' = pending \cup new
        /\ marks' = Adjusted(new, 1)
        /\ Refresh(new, pending \cup new)
        /\ UNCHANGED running

RegisterDeferredRead(token, g) ==
    /\ g.length > 0 /\ g.length <= Space - g.start
    /\ Insert(token, {g})

\* The address is physical; the range is registered where every window shows it.
\* All of RAM is mapped.
RegisterDeferredRamRead(token, g) ==
    /\ g.length > 0
    /\ \E bank \in Banks : bank.first <= g.start /\ g.start < bank.end /\ g.length <= bank.end - g.start
    /\ Insert(token, {[start |-> w + g.start, length |-> g.length] : w \in Windows})

\* Slip: the pages are judged while what goes is still registered.
RetireEarly(ranges) ==
    /\ pending' = pending \ ranges
    /\ marks' = Adjusted(ranges, -1)
    /\ Refresh(ranges, pending)

Retire(ranges) ==
    /\ pending' = pending \ ranges
    /\ marks' = Adjusted(ranges, -1)
    /\ Refresh(ranges, pending \ ranges)

IsRunning(token) == \E i \in DOMAIN running : running[i] = token

CancelDeferredRead(token) ==
    /\ Of(token) # {} /\ ~IsRunning(token)
    /\ Retire(Of(token))
    /\ UNCHANGED running

\* Refused while a callback runs.
ClearDeferredReads ==
    /\ running = <<>> /\ pending # {}
    /\ Retire(pending)
    /\ UNCHANGED running

\* The loop of ResolveDeferredReads() finds a registration in the way of an
\* access, at one of its bytes; one that is running refuses it. Callbacks may
\* register, cancel and access too.
TakeNext(a) ==
    /\ \E x \in pending :
          /\ x.range.start <= a /\ a <= Upto(x.range)
          /\ ~IsRunning(x.token)
          /\ running' = Append(running, x.token)
    /\ UNCHANGED <<pending, marks, covered, fast>>

Innermost == running[Len(running)]
Back == running' = SubSeq(running, 1, Len(running) - 1)

Materialized == running # <<>> /\ Retire(Of(Innermost)) /\ Back

\* The callback fails or throws: its registration stays.
NotMaterialized == running # <<>> /\ Back /\ UNCHANGED <<pending, marks, covered, fast>>

PagesNext ==
    \/ \E token \in Handles, g \in Given : RegisterDeferredRead(token, g) \/ RegisterDeferredRamRead(token, g)
    \/ \E token \in Handles : CancelDeferredRead(token)
    \/ \E a \in Address : TakeNext(a)
    \/ ClearDeferredReads \/ Materialized \/ NotMaterialized

PagesSpec == PagesInit /\ [][PagesNext]_pageVars

-----------------------------------------------------------------------------
(* The fast paths.                                                          *)

\* TryGetReadableScalarHost()
LoadsFast(a) ==
    LET page == a \div CoarseSize
    IN  page \in fast \/ (page \in covered \cap Plain /\ marks[a \div BlockSize] = 0)

\* Not DeferredScalarPending(), which every store asks.
StoresFast(a, n) ==
    \/ a \div CoarseSize \notin covered /\ (a + n - 1) \div CoarseSize \notin covered
    \/ marks[a \div BlockSize] = 0

\* Slip: only the block a range begins in.
RangeUnmarkedFirst(a, n) == marks[a \div BlockSize] = 0

RangeUnmarked(a, n) == \A b \in (a \div BlockSize)..((a + n - 1) \div BlockSize) : marks[b] = 0

\* ResolveRangeHost(): one proof for every access to a range. One that is
\* written only asks no readable bias.
RangeFast(a, n) ==
    LET page == a \div CoarseSize
    IN  /\ (a + n - 1) \div CoarseSize = page
        /\ page \in covered => RangeUnmarked(a, n)

-----------------------------------------------------------------------------
\* Where an access of n bytes has one of the range.
Reaching(g, n) == ((g.start - n + 1)..Upto(g)) \cap (0..(Space - n))

\* No scalar access that reaches a pending range by any of its bytes takes a
\* fast path past the registry, also when it begins in the page before.
ScalarsResolve ==
    \A x \in pending, n \in 1..Scalar :
       \A a \in Reaching(x.range, n) : ~LoadsFast(a) /\ ~StoresFast(a, n)

\* No range resolved once for all its accesses has a pending byte.
RangesResolve ==
    \A x \in pending, n \in 1..CoarseSize :
       \A a \in Reaching(x.range, n) : ~RangeFast(a, n)

\* What is retired leaves no mark: a block is slow, and a page covered, only as
\* long as a pending range is near it, and every other plain page is fast again.
FastAgain ==
    /\ \A b \in Block : marks[b] # 0 => \E x \in pending : b \in Blocks(x.range)
    /\ \A page \in covered : \E x \in pending : page \in Pages(x.range)
    /\ fast = Plain \ covered

\* In whatever order ranges that share blocks and pages are registered, cancelled
\* and materialized: no access passes the registry by where a byte is pending
\* (patches/Wiicompiled.patch:3685, 3741), and none asks it for nothing.
PagesAgree == ScalarsResolve /\ RangesResolve /\ FastAgain

=============================================================================
