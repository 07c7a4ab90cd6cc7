-------------------------- MODULE GuestFlat_proofs --------------------------
(***************************************************************************)
(* The guest memory is sound for any handles, address range, pool and      *)
(* layouts, whichever kernel calls fail.                                   *)
(*                                                                         *)
(* NothingDangles is not inductive: an unmapping is right because the      *)
(* aliases do not overlap, a release because no alias is left, and both    *)
(* counts are of the same aliases.  MemoryTrue adds these.                 *)
(*                                                                         *)
(* RamServed needs what Initialize has done so far: which regions are      *)
(* mapped and where, and that what is mapped is still zero (ServedTrue).   *)
(***************************************************************************)
EXTENDS GuestFlat, FiniteSetTheorems, WellFoundedInduction, TLAPS

BackingType == [physical : Int, size : Nat, host : BOOLEAN, aliases : Int]

AliasType == [address : Int, size : Nat, backing : Backings \cup {None}]

MemoryType ==
    [arena : BOOLEAN, linked : SUBSET Aliases, back : [Backings -> BackingType],
     alias : [Aliases -> AliasType], space : [Span(0, Space) -> Int], view : [Backings -> SUBSET Int],
     phys : SUBSET Int, dirty : SUBSET Int, stray : SUBSET (SUBSET Int), harm : BOOLEAN]

Users(n, b) == {a \in Aliases : n.alias[a].backing = b}

Reach(n, a) == Span(n.alias[a].address, n.alias[a].size)

\* What a handle holds is its own, and it knows who uses it.
BackingTrue(n, b) ==
    /\ n.view[b] = IF n.back[b].host THEN OwnedUnits(n, b) ELSE {}
    /\ n.back[b].physical = None => n.back[b].size = 0 /\ ~n.back[b].host
    /\ n.back[b].physical # None => n.back[b].physical \in Nat
    /\ n.back[b].aliases = Cardinality(Users(n, b))
    /\ \A c \in Backings : c # b => OwnedUnits(n, b) \cap OwnedUnits(n, c) = {}

\* An alias shows a stretch of what its backing holds, and no other alias does there.
AliasTrue(n, a) ==
    /\ n.arena /\ n.alias[a].backing \in Backings /\ n.back[n.alias[a].backing].host
    /\ n.alias[a].address \in Nat /\ n.alias[a].size > 0 /\ n.alias[a].address + n.alias[a].size <= Space
    /\ \A u \in Reach(n, a) :
          /\ n.space[u] \in OwnedUnits(n, n.alias[a].backing)
          /\ n.space[u] - u = n.space[n.alias[a].address] - n.alias[a].address
    /\ \A c \in n.linked : c # a => Reach(n, a) \cap Reach(n, c) = {}

\* Every address is an alias's, reserved, or the outside's.
AddressTrue(n, u) ==
    /\ n.space[u] >= 0 => \E a \in n.linked : u \in Reach(n, a)
    /\ n.arena => n.space[u] >= 0 \/ n.space[u] = Reserved
    /\ ~n.arena => n.space[u] \in {Free, Foreign}

MemoryTrue(n) ==
    /\ n \in MemoryType /\ ~n.harm
    /\ n.phys = UNION {OwnedUnits(n, b) : b \in Backings}
    /\ \A b \in Backings : BackingTrue(n, b)
    /\ \A a \in Aliases : IF a \in n.linked THEN n.alias[a].address # None ELSE n.alias[a] = NoAlias
    /\ \A a \in n.linked : AliasTrue(n, a)
    /\ \A u \in Span(0, Space) : AddressTrue(n, u)

-----------------------------------------------------------------------------
(* Numbers and sets.                                                        *)

LEMMA LeastOf ==
  ASSUME NEW T \in SUBSET Nat, T # {}
  PROVE  \E x \in T : \A y \in T : x <= y
<1>1. PICK x \in T : \A y \in T : ~(<<y, x>> \in OpToRel(<, Nat))
  BY NatLessThanWellFounded, WFMin
<1>2. \A y \in T : ~(y < x)
  BY <1>1 DEF OpToRel
<1> QED
  BY <1>2

\* By a smallest set without a greatest element.
LEMMA GreatestOf ==
  ASSUME NEW S \in SUBSET Nat, S # {}, IsFiniteSet(S)
  PROVE  \E x \in S : \A y \in S : y <= x
<1> DEFINE Without(T) == T # {} /\ IsFiniteSet(T) /\ \A x \in T : \E y \in T : ~(y <= x)
           Sizes == {n \in Nat : \E T \in SUBSET Nat : Without(T) /\ Cardinality(T) = n}
<1>1. Sizes = {}
  <2> SUFFICES ASSUME Sizes # {} PROVE FALSE
    OBVIOUS
  <2>1. PICK n \in Sizes : \A k \in Sizes : n <= k
    BY LeastOf
  <2>2. PICK T \in SUBSET Nat : Without(T) /\ Cardinality(T) = n
    BY <2>1
  <2>3. PICK a \in T : TRUE
    BY <2>2
  <2>4. IsFiniteSet(T \ {a}) /\ Cardinality(T \ {a}) = n - 1 /\ n - 1 \in Nat
    <3>1. IsFiniteSet(T) /\ a \in T /\ Cardinality(T) = n
      BY <2>2, <2>3
    <3>2. IsFiniteSet(T \ {a}) /\ Cardinality(T \ {a}) = Cardinality(T) - 1
      BY <3>1, FS_RemoveElement
    <3>3. Cardinality(T \ {a}) \in Nat
      BY <3>2, FS_CardinalityType
    <3> QED
      BY <3>1, <3>2, <3>3
  <2>5. T \ {a} # {} /\ n - 1 \notin Sizes
    BY <2>1, <2>2, <2>3, <2>4
  <2>6. PICK x \in T \ {a} : \A y \in T \ {a} : y <= x
    BY <2>4, <2>5
  <2>7. CASE a <= x
    BY <2>2, <2>6, <2>7
  <2>8. CASE ~(a <= x)
    <3>1. \A y \in T : y <= a
      BY <2>2, <2>6, <2>8
    <3> QED
      BY <2>2, <2>3, <3>1
  <2> QED
    BY <2>7, <2>8
<1>2. Cardinality(S) \notin Sizes /\ Cardinality(S) \in Nat
  BY <1>1, FS_CardinalityType
<1> QED
  BY <1>2

\* Rounding goes up, by less than a grain.
LEMMA RoundedUp ==
  ASSUME NEW n \in Nat, NEW grain \in Nat \ {0}
  PROVE  Rounded(n, grain) \in Nat /\ n <= Rounded(n, grain) /\ Rounded(n, grain) < n + grain
<1> DEFINE q == (n + grain - 1) \div grain
<1>1. n + grain - 1 \in Nat
  OBVIOUS
<1>2. q \in Nat /\ q * grain <= n + grain - 1 /\ n + grain - 1 < q * grain + grain
  BY <1>1
<1> HIDE DEF q
<1>3. q * grain \in Nat
  BY <1>2
<1> QED
  BY <1>2, <1>3 DEF Rounded, q

-----------------------------------------------------------------------------
(* The backings.                                                            *)

Holding(x, p, size) == [x EXCEPT !.physical = p, !.size = size]

Hosted(x, h) == [x EXCEPT !.host = h]

LEMMA BackingFields ==
  ASSUME NEW x \in BackingType, NEW p \in Int, NEW s \in Nat
  PROVE  /\ Holding(x, p, s) \in BackingType
         /\ Holding(x, p, s).physical = p /\ Holding(x, p, s).size = s
         /\ Holding(x, p, s).host = x.host /\ Holding(x, p, s).aliases = x.aliases
  BY DEF BackingType, Holding

LEMMA HostedFields ==
  ASSUME NEW x \in BackingType, NEW h \in BOOLEAN
  PROVE  /\ Hosted(x, h) \in BackingType
         /\ Hosted(x, h).physical = x.physical /\ Hosted(x, h).size = x.size
         /\ Hosted(x, h).host = h /\ Hosted(x, h).aliases = x.aliases
  BY DEF BackingType, Hosted

LEMMA UsersFinite ==
  ASSUME NEW n, NEW b
  PROVE  /\ IsFiniteSet(Users(n, b)) /\ Cardinality(Users(n, b)) \in Nat
         /\ (Cardinality(Users(n, b)) = 0 <=> Users(n, b) = {})
<1>1. IsFiniteSet(Aliases) /\ Users(n, b) \subseteq Aliases
  BY MemoryAssumption DEF Users
<1>2. IsFiniteSet(Users(n, b))
  BY <1>1, FS_Subset
<1> QED
  BY <1>2, FS_CardinalityType, FS_EmptySet

\* A handle nobody uses, or that is not mapped, is no alias's.
LEMMA Unused ==
  ASSUME NEW n, MemoryTrue(n), NEW b \in Backings
  PROVE  /\ n.back[b].aliases \in Nat
         /\ n.back[b].aliases = 0 <=> Users(n, b) = {}
         /\ ~n.back[b].host => n.back[b].aliases = 0
         /\ \A a \in n.linked : n.alias[a].backing = b => n.back[b].aliases # 0
<1>1. n.back[b].aliases = Cardinality(Users(n, b))
  BY DEF MemoryTrue, BackingTrue
<1>2. n.linked \subseteq Aliases /\ None # b
  BY MemoryAssumption DEF MemoryTrue, MemoryType
<1>3. ~n.back[b].host => Users(n, b) = {}
  BY <1>2 DEF MemoryTrue, AliasTrue, Users, NoAlias
<1>4. \A a \in n.linked : n.alias[a].backing = b => a \in Users(n, b)
  BY <1>2 DEF Users
<1> QED
  BY <1>1, <1>3, <1>4, UsersFinite

\* A change of a handle nobody uses.
LEMMA HandleChanges ==
  ASSUME NEW n, MemoryTrue(n), NEW b \in Backings, n.back[b].aliases = 0,
         NEW k, k \in MemoryType, k.arena = n.arena, k.linked = n.linked, k.alias = n.alias, k.space = n.space,
         k.harm = n.harm,
         \A c \in Backings : c # b => k.back[c] = n.back[c] /\ k.view[c] = n.view[c],
         k.back[b].aliases = 0,
         k.view[b] = IF k.back[b].host THEN OwnedUnits(k, b) ELSE {},
         k.back[b].physical = None => k.back[b].size = 0 /\ ~k.back[b].host,
         k.back[b].physical # None => k.back[b].physical \in Nat,
         \A c \in Backings : c # b => OwnedUnits(k, b) \cap OwnedUnits(n, c) = {},
         k.phys = UNION {OwnedUnits(k, c) : c \in Backings}
  PROVE  MemoryTrue(k)
<1>1. \A c \in Backings : c # b => OwnedUnits(k, c) = OwnedUnits(n, c)
  BY DEF OwnedUnits
<1>2. \A c : Users(k, c) = Users(n, c)
  BY DEF Users
<1>3. Cardinality(Users(k, b)) = 0
  BY <1>2, Unused, UsersFinite
<1>4. \A c \in Backings : BackingTrue(k, c)
  BY <1>1, <1>2, <1>3 DEF MemoryTrue, BackingTrue
<1>5. \A a \in n.linked : n.alias[a].backing # b
  BY Unused
<1>6. \A a \in n.linked : n.alias[a].backing \in Backings /\ AliasTrue(n, a)
  BY DEF MemoryTrue, AliasTrue
<1>7. \A a \in k.linked : AliasTrue(k, a)
  BY <1>1, <1>5, <1>6 DEF AliasTrue, Reach
<1>8. \A u \in Span(0, Space) : AddressTrue(k, u)
  BY DEF MemoryTrue, AddressTrue, Reach
<1> QED
  BY <1>4, <1>7, <1>8 DEF MemoryTrue

\* Of an unmapped handle its memory is released, or the kernel refuses.
LEMMA ReleaseKeeps ==
  ASSUME NEW n, MemoryTrue(n), NEW b \in Backings, n.back[b].aliases = 0, ~n.back[b].host,
         NEW r \in ReleaseBacking(n, b)
  PROVE  /\ MemoryTrue(r.m) /\ r.m.alias = n.alias /\ r.m.linked = n.linked /\ r.m.arena = n.arena
         /\ \A c \in Backings : c # b => r.m.back[c] = n.back[c]
         /\ r.rc \in {"ok", "error"}
         /\ r.rc = "ok" => r.m.back[b].physical = None
<1>1. CASE r = Result(n, "ok") /\ n.back[b].physical = None
  BY <1>1 DEF Result
<1>2. CASE r = Result(n, "error")
  BY <1>2 DEF Result
<1> DEFINE k == [n EXCEPT !.phys = @ \ OwnedUnits(n, b), !.back[b] = [@ EXCEPT !.physical = None, !.size = 0]]
<1>3. CASE r = Result(k, "ok")
  <2>1. n \in MemoryType /\ n.back[b] \in BackingType
    BY DEF MemoryTrue, MemoryType
  <2>2. /\ Holding(n.back[b], None, 0) \in BackingType
        /\ Holding(n.back[b], None, 0).physical = None /\ Holding(n.back[b], None, 0).size = 0
        /\ Holding(n.back[b], None, 0).host = n.back[b].host
        /\ Holding(n.back[b], None, 0).aliases = n.back[b].aliases
    <3>1. None \in Int
      BY DEF None
    <3> QED
      BY <2>1, <3>1, BackingFields
  <2>3. k.back = [n.back EXCEPT ![b] = Holding(n.back[b], None, 0)] /\ k.phys = n.phys \ OwnedUnits(n, b)
    BY <2>1 DEF MemoryType, Holding
  <2>4. /\ k.arena = n.arena /\ k.linked = n.linked /\ k.alias = n.alias /\ k.space = n.space
        /\ k.harm = n.harm /\ k.view = n.view /\ k \in MemoryType
    BY <2>1, <2>2, <2>3 DEF MemoryType
  <2> HIDE DEF k
  <2>5. /\ k.back[b].physical = None /\ k.back[b].size = 0 /\ k.back[b].host = n.back[b].host
        /\ k.back[b].aliases = n.back[b].aliases /\ \A c \in Backings : c # b => k.back[c] = n.back[c]
    BY <2>1, <2>2, <2>3 DEF MemoryType
  <2>6. OwnedUnits(k, b) = {} /\ \A c \in Backings : c # b => OwnedUnits(k, c) = OwnedUnits(n, c)
    BY <2>5 DEF OwnedUnits, Span, None
  <2>7. k.phys = UNION {OwnedUnits(k, c) : c \in Backings}
    BY <2>3, <2>6 DEF MemoryTrue, BackingTrue
  <2>8. k.view[b] = {}
    BY <2>4 DEF MemoryTrue, BackingTrue
  <2>9. MemoryTrue(k)
    BY <2>4, <2>5, <2>6, <2>7, <2>8, HandleChanges
  <2> QED
    BY <1>3, <2>4, <2>5, <2>9 DEF Result
<1> QED
  BY <1>1, <1>2, <1>3 DEF ReleaseBacking

LEMMA CloseKeeps ==
  ASSUME NEW n, MemoryTrue(n), NEW b \in Backings, NEW r \in CloseBacking(n, b)
  PROVE  /\ MemoryTrue(r.m) /\ r.m.alias = n.alias /\ r.m.linked = n.linked /\ r.m.arena = n.arena
         /\ \A c \in Backings : c # b => r.m.back[c] = n.back[c]
         /\ r.rc \in {"ok", "busy", "error"}
         /\ r.rc = "ok" => r.m.back[b].physical = None
         /\ r.rc = "busy" => n.linked # {}
<1>0. n.back[b].aliases \in Nat /\ (n.back[b].aliases # 0 => Users(n, b) # {})
  BY Unused
<1>1. CASE r = Result(n, "error")
  BY <1>1 DEF Result
<1>2. CASE r = Result(n, "busy") /\ n.back[b].aliases > 0
  <2>1. PICK a \in Aliases : n.alias[a].backing = b
    BY <1>0, <1>2 DEF Users
  <2>2. a \in n.linked
    BY <2>1, MemoryAssumption DEF MemoryTrue, NoAlias
  <2> QED
    BY <1>2, <2>2 DEF Result
<1>3. CASE n.back[b].aliases = 0 /\ ~n.back[b].host /\ r \in ReleaseBacking(n, b)
  BY <1>3, ReleaseKeeps
<1> DEFINE k == [n EXCEPT !.back[b].host = FALSE, !.view[b] = {}]
<1>4. CASE n.back[b].aliases = 0 /\ n.back[b].host /\ r \in ReleaseBacking(k, b)
  <2>1. n \in MemoryType /\ n.back[b] \in BackingType
    BY DEF MemoryTrue, MemoryType
  <2>2. [n.back[b] EXCEPT !.host = FALSE] \in BackingType
    BY <2>1 DEF BackingType
  <2>3. k.back = [n.back EXCEPT ![b] = [n.back[b] EXCEPT !.host = FALSE]] /\ k.view = [n.view EXCEPT ![b] = {}]
    BY <2>1 DEF MemoryType
  <2>4. /\ k.arena = n.arena /\ k.linked = n.linked /\ k.alias = n.alias /\ k.space = n.space
        /\ k.harm = n.harm /\ k.phys = n.phys /\ k \in MemoryType
    BY <2>1, <2>2, <2>3 DEF MemoryType
  <2> HIDE DEF k
  <2>5. /\ k.back[b].physical = n.back[b].physical /\ k.back[b].size = n.back[b].size /\ ~k.back[b].host
        /\ k.back[b].aliases = n.back[b].aliases /\ k.view[b] = {}
        /\ \A c \in Backings : c # b => k.back[c] = n.back[c] /\ k.view[c] = n.view[c]
    BY <2>1, <2>3 DEF MemoryType, BackingType
  <2>6. \A c \in Backings : OwnedUnits(k, c) = OwnedUnits(n, c)
    BY <2>5 DEF OwnedUnits
  <2>7. k.phys = UNION {OwnedUnits(k, c) : c \in Backings}
    BY <2>4, <2>6 DEF MemoryTrue
  <2>8. /\ n.back[b].physical = None => n.back[b].size = 0
        /\ n.back[b].physical # None => n.back[b].physical \in Nat
        /\ \A c \in Backings : c # b => OwnedUnits(n, b) \cap OwnedUnits(n, c) = {}
    BY DEF MemoryTrue, BackingTrue
  <2>9. /\ k.back[b].aliases = 0 /\ k.view[b] = (IF k.back[b].host THEN OwnedUnits(k, b) ELSE {})
        /\ k.back[b].physical = None => k.back[b].size = 0 /\ ~k.back[b].host
        /\ k.back[b].physical # None => k.back[b].physical \in Nat
        /\ \A c \in Backings : c # b => OwnedUnits(k, b) \cap OwnedUnits(n, c) = {}
    BY <1>4, <2>5, <2>6, <2>8
  <2>10. MemoryTrue(k)
    BY <1>4, <2>4, <2>5, <2>7, <2>9, HandleChanges
  <2> QED
    BY <1>4, <2>4, <2>5, <2>9, <2>10, ReleaseKeeps
<1> QED
  BY <1>0, <1>1, <1>2, <1>3, <1>4 DEF CloseBacking

\* The pool is searched from its start.
LEMMA FirstFits ==
  ASSUME NEW n, NEW k, Places(n, k) # {}
  PROVE  FirstPlace(n, k) \in Places(n, k)
<1>1. Places(n, k) \subseteq Nat
  BY MemoryAssumption DEF Places, Span
<1>2. PICK p \in Places(n, k) : \A q \in Places(n, k) : p <= q
  BY <1>1, LeastOf
<1> QED
  BY <1>2 DEF FirstPlace

\* New memory is nobody else's; what cannot be mapped is released or kept.
LEMMA OpenKeeps ==
  ASSUME NEW n, MemoryTrue(n), NEW b \in Backings, NEW bytes \in Nat, NEW r \in OpenBacking(n, b, bytes)
  PROVE  /\ MemoryTrue(r.m) /\ r.m.alias = n.alias /\ r.m.linked = n.linked /\ r.m.arena = n.arena
         /\ \A c \in Backings : c # b => r.m.back[c] = n.back[c]
         /\ r.rc = "ok" => r.m.dirty = n.dirty /\ \A c \in Backings : c # b => r.m.view[c] = n.view[c]
<1> DEFINE rounded == Rounded(bytes, PageSize)
           p == FirstPlace(n, rounded)
           new == Holding(n.back[b], p, rounded)
           k == [n EXCEPT !.phys = @ \cup Span(p, rounded), !.back[b] = [@ EXCEPT !.physical = p, !.size = rounded]]
           mapped == [k EXCEPT !.back[b].host = TRUE, !.view[b] = Span(p, rounded)]
<1>1. n \in MemoryType /\ n.back[b] \in BackingType /\ rounded \in Nat
  BY RoundedUp DEF MemoryTrue, MemoryType, PageSize
<1>2. CASE r.m = n /\ r.rc # "ok"
  BY <1>2
<1>3. ASSUME n.back[b].physical = None, ~n.back[b].host, Places(n, rounded) # {}
      PROVE  /\ MemoryTrue(k) /\ MemoryTrue(mapped)
             /\ k.alias = n.alias /\ k.linked = n.linked /\ k.arena = n.arena
             /\ mapped.alias = n.alias /\ mapped.linked = n.linked /\ mapped.arena = n.arena
             /\ \A c \in Backings : c # b => k.back[c] = n.back[c] /\ mapped.back[c] = n.back[c]
             /\ mapped.dirty = n.dirty /\ \A c \in Backings : c # b => mapped.view[c] = n.view[c]
  <2>1. p \in Nat /\ Span(p, rounded) \cap n.phys = {} /\ Span(p, rounded) \subseteq Int
    BY <1>3, FirstFits, MemoryAssumption DEF Places, Span
  <2> HIDE DEF p, rounded
  <2>0. p \in Int /\ rounded \in Nat /\ TRUE \in BOOLEAN
    BY <1>1, <2>1
  <2>2. /\ new \in BackingType /\ new.physical = p /\ new.size = rounded /\ new.host = FALSE
        /\ new.aliases = n.back[b].aliases
    <3>1. n.back[b].host = FALSE
      BY <1>1, <1>3 DEF BackingType
    <3> QED
      BY <1>1, <2>0, <3>1, BackingFields
  <2>3. k.back = [n.back EXCEPT ![b] = new] /\ k.phys = n.phys \cup Span(p, rounded)
    BY <1>1 DEF MemoryType, Holding
  <2> HIDE DEF new
  <2>7. /\ Hosted(new, TRUE) \in BackingType
        /\ Hosted(new, TRUE).physical = p /\ Hosted(new, TRUE).size = rounded
        /\ Hosted(new, TRUE).host = TRUE /\ Hosted(new, TRUE).aliases = n.back[b].aliases
    BY <2>0, <2>2, HostedFields
  <2>4. /\ k.arena = n.arena /\ k.linked = n.linked /\ k.alias = n.alias /\ k.space = n.space
        /\ k.harm = n.harm /\ k.view = n.view /\ k.dirty = n.dirty /\ k \in MemoryType
    BY <1>1, <2>1, <2>2, <2>3 DEF MemoryType
  <2> HIDE DEF k
  <2>5. mapped.back = [n.back EXCEPT ![b] = Hosted(new, TRUE)]
        /\ mapped.view = [n.view EXCEPT ![b] = Span(p, rounded)]
    BY <1>1, <2>3, <2>4 DEF MemoryType, Hosted
  <2>6. /\ mapped.arena = n.arena /\ mapped.linked = n.linked /\ mapped.alias = n.alias /\ mapped.space = n.space
        /\ mapped.harm = n.harm /\ mapped.phys = k.phys /\ mapped.dirty = n.dirty
        /\ mapped \in MemoryType
    <3>1. mapped.back \in [Backings -> BackingType] /\ mapped.view \in [Backings -> SUBSET Int]
      <4>1. n.back \in [Backings -> BackingType] /\ n.view \in [Backings -> SUBSET Int]
        BY <1>1 DEF MemoryType
      <4> HIDE DEF mapped
      <4>2. Hosted(new, TRUE) \in BackingType /\ Span(p, rounded) \in SUBSET Int
        BY <2>1, <2>7
      <4>3. mapped.back \in [Backings -> BackingType]
        BY <2>5, <4>1, <4>2
      <4>4. mapped.view \in [Backings -> SUBSET Int]
        BY <2>5, <4>1, <4>2
      <4> QED
        BY <4>3, <4>4
    <3>2. /\ mapped.arena = k.arena /\ mapped.linked = k.linked /\ mapped.alias = k.alias /\ mapped.space = k.space
          /\ mapped.harm = k.harm /\ mapped.phys = k.phys /\ mapped.dirty = k.dirty
      BY <2>4 DEF MemoryType
    <3>3. mapped = [[k EXCEPT !.back = mapped.back] EXCEPT !.view = mapped.view]
      BY <2>4 DEF MemoryType
    <3> HIDE DEF mapped
    <3>4. mapped \in MemoryType
      BY <2>4, <3>1, <3>3 DEF MemoryType
    <3> QED
      BY <2>4, <3>2, <3>4
  <2> HIDE DEF mapped
  <2>9. /\ k.back[b] = new /\ mapped.back[b] = Hosted(new, TRUE) /\ mapped.view[b] = Span(p, rounded)
        /\ \A c \in Backings : c # b => k.back[c] = n.back[c] /\ mapped.back[c] = n.back[c] /\ mapped.view[c] = n.view[c]
    BY <1>1, <2>3, <2>5 DEF MemoryType
  <2>10. /\ OwnedUnits(k, b) = Span(p, rounded) /\ OwnedUnits(mapped, b) = Span(p, rounded)
         /\ \A c \in Backings : c # b => /\ OwnedUnits(k, c) = OwnedUnits(n, c)
                                         /\ OwnedUnits(mapped, c) = OwnedUnits(n, c)
    BY <2>2, <2>7, <2>9 DEF OwnedUnits
  <2>11. n.phys = UNION {OwnedUnits(n, c) : c \in Backings} /\ OwnedUnits(n, b) = {}
    BY <1>3 DEF MemoryTrue, BackingTrue, OwnedUnits, Span, None
  <2>12. k.phys = UNION {OwnedUnits(k, c) : c \in Backings} /\ mapped.phys = UNION {OwnedUnits(mapped, c) : c \in Backings}
    BY <2>3, <2>6, <2>10, <2>11
  <2>13. \A c \in Backings : c # b => Span(p, rounded) \cap OwnedUnits(n, c) = {}
    BY <2>1, <2>11
  <2>14. n.back[b].aliases = 0 /\ n.view[b] = {} /\ p # None
    BY <1>3, <2>1, Unused DEF MemoryTrue, BackingTrue, None
  <2>15. /\ k.back[b].aliases = 0 /\ k.view[b] = (IF k.back[b].host THEN OwnedUnits(k, b) ELSE {})
         /\ k.back[b].physical \in Nat /\ k.back[b].physical # None
         /\ \A c \in Backings : c # b => k.back[c] = n.back[c] /\ k.view[c] = n.view[c]
         /\ \A c \in Backings : c # b => OwnedUnits(k, b) \cap OwnedUnits(n, c) = {}
    BY <2>1, <2>2, <2>4, <2>9, <2>10, <2>13, <2>14
  <2>16. /\ mapped.back[b].aliases = 0 /\ mapped.view[b] = (IF mapped.back[b].host THEN OwnedUnits(mapped, b) ELSE {})
         /\ mapped.back[b].physical \in Nat /\ mapped.back[b].physical # None
         /\ \A c \in Backings : c # b => mapped.back[c] = n.back[c] /\ mapped.view[c] = n.view[c]
         /\ \A c \in Backings : c # b => OwnedUnits(mapped, b) \cap OwnedUnits(n, c) = {}
    BY <2>1, <2>7, <2>9, <2>10, <2>13, <2>14
  <2>17. MemoryTrue(k)
    BY <2>4, <2>12, <2>14, <2>15, HandleChanges
  <2>18. MemoryTrue(mapped)
    BY <2>4, <2>6, <2>12, <2>14, <2>16, HandleChanges
  <2> QED
    BY <2>4, <2>6, <2>9, <2>17, <2>18
<1>4. CASE r = Result(mapped, "ok") /\ n.back[b].physical = None /\ ~n.back[b].host /\ Places(n, rounded) # {}
  BY <1>3, <1>4 DEF Result
<1>5. ASSUME NEW closed \in CloseBacking(k, b), r = Result(closed.m, "error"),
             n.back[b].physical = None, ~n.back[b].host, Places(n, rounded) # {}
      PROVE  /\ MemoryTrue(r.m) /\ r.m.alias = n.alias /\ r.m.linked = n.linked /\ r.m.arena = n.arena
             /\ r.rc # "ok" /\ \A c \in Backings : c # b => r.m.back[c] = n.back[c]
  <2> HIDE DEF k
  <2>1. /\ MemoryTrue(k) /\ k.alias = n.alias /\ k.linked = n.linked /\ k.arena = n.arena
        /\ \A c \in Backings : c # b => k.back[c] = n.back[c]
    BY <1>3, <1>5
  <2>2. /\ MemoryTrue(closed.m) /\ closed.m.alias = k.alias /\ closed.m.linked = k.linked /\ closed.m.arena = k.arena
        /\ \A c \in Backings : c # b => closed.m.back[c] = k.back[c]
    <3> HIDE DEF mapped, p, rounded
    <3>1. b \in Backings /\ closed \in CloseBacking(k, b)
      BY <1>5
    <3> QED
      BY ONLY <2>1, <3>1, CloseKeeps
  <2> QED
    BY <1>5, <2>1, <2>2 DEF Result
<1> HIDE DEF mapped, p
<1>6. \/ r.m = n /\ r.rc # "ok"
      \/ /\ n.back[b].physical = None /\ ~n.back[b].host /\ Places(n, rounded) # {}
         /\ r = Result(mapped, "ok") \/ \E closed \in CloseBacking(k, b) : r = Result(closed.m, "error")
  BY DEF OpenBacking, Result, mapped, p
<1> QED
  BY <1>2, <1>4, <1>5, <1>6

-----------------------------------------------------------------------------
(* The arena.                                                               *)

\* What was left elsewhere, and what was written, concern nobody.
LEMMA OutsideChanges ==
  ASSUME NEW n, MemoryTrue(n),
         NEW k, k \in MemoryType, k.arena = n.arena, k.linked = n.linked, k.alias = n.alias, k.space = n.space,
         k.harm = n.harm, k.back = n.back, k.view = n.view, k.phys = n.phys
  PROVE  MemoryTrue(k)
<1>1. \A c : OwnedUnits(k, c) = OwnedUnits(n, c) /\ Users(k, c) = Users(n, c) /\ Reach(k, c) = Reach(n, c)
  BY DEF OwnedUnits, Users, Reach
<1>2. \A c \in Backings : BackingTrue(k, c)
  BY <1>1 DEF MemoryTrue, BackingTrue
<1>3. \A a \in k.linked : AliasTrue(k, a)
  BY <1>1 DEF MemoryTrue, AliasTrue
<1>4. \A u \in Span(0, Space) : AddressTrue(k, u)
  BY <1>1 DEF MemoryTrue, AddressTrue
<1> QED
  BY <1>1, <1>2, <1>3, <1>4 DEF MemoryTrue

LEMMA ElsewhereKeeps ==
  ASSUME NEW n, MemoryTrue(n), NEW units \in SUBSET Int, NEW r \in Elsewhere(n, units)
  PROVE  /\ MemoryTrue(r.m) /\ r.m.back = n.back /\ r.m.alias = n.alias /\ r.m.linked = n.linked
         /\ r.m.arena = n.arena /\ r.m.phys = n.phys /\ r.rc = "invalid"
<1> DEFINE k == [n EXCEPT !.stray = @ \cup {units}]
<1>1. /\ k \in MemoryType /\ k.arena = n.arena /\ k.linked = n.linked /\ k.alias = n.alias /\ k.space = n.space
      /\ k.harm = n.harm /\ k.back = n.back /\ k.view = n.view /\ k.phys = n.phys
  BY DEF MemoryTrue, MemoryType
<1> HIDE DEF k
<1>2. MemoryTrue(k)
  BY <1>1, OutsideChanges
<1>3. r = Result(n, "invalid") \/ r = Result(k, "invalid")
  BY DEF Elsewhere, k
<1> QED
  BY <1>1, <1>2, <1>3 DEF Result

\* Without an alias the addresses may change hands.
LEMMA AddressesChange ==
  ASSUME NEW n, MemoryTrue(n), n.linked = {},
         NEW k, k \in MemoryType, k.linked = {}, k.alias = n.alias, ~k.harm, k.back = n.back, k.view = n.view,
         k.phys = n.phys, \A u \in Span(0, Space) : IF k.arena THEN k.space[u] = Reserved ELSE k.space[u] \in {Free, Foreign}
  PROVE  MemoryTrue(k)
<1>1. \A c : OwnedUnits(k, c) = OwnedUnits(n, c) /\ Users(k, c) = Users(n, c)
  BY DEF OwnedUnits, Users
<1>2. \A c \in Backings : BackingTrue(k, c)
  BY <1>1 DEF MemoryTrue, BackingTrue
<1>3. \A u \in Span(0, Space) : AddressTrue(k, u)
  BY DEF AddressTrue, Free, Reserved, Foreign
<1> QED
  BY <1>1, <1>2, <1>3 DEF MemoryTrue

\* What the kernel puts in a range of addresses.
PutIn(n, first, count, what) ==
    /\ n \in MemoryType /\ ~n.harm /\ first \in Nat /\ count \in Nat /\ first + count <= Space
    /\ what \in [0..(count - 1) -> Int] /\ \A u \in Span(first, count) : n.space[u] # Foreign

LEMMA PutFields ==
  ASSUME NEW n, NEW first, NEW count, NEW what, PutIn(n, first, count, what)
  PROVE  /\ Put(n, first, count, what) \in MemoryType /\ ~Put(n, first, count, what).harm
         /\ \A u \in Span(0, Space) :
               Put(n, first, count, what).space[u] = IF u \in Span(first, count) THEN what[u - first] ELSE n.space[u]
         /\ Put(n, first, count, what).arena = n.arena /\ Put(n, first, count, what).linked = n.linked
         /\ Put(n, first, count, what).back = n.back /\ Put(n, first, count, what).alias = n.alias
         /\ Put(n, first, count, what).view = n.view /\ Put(n, first, count, what).phys = n.phys
         /\ Put(n, first, count, what).dirty = n.dirty
<1> USE DEF PutIn
<1> DEFINE space == [u \in DOMAIN n.space |-> IF u \in Span(first, count) THEN what[u - first] ELSE n.space[u]]
           k == Put(n, first, count, what)
<1>1. DOMAIN n.space = Span(0, Space) /\ \A u \in Span(0, Space) : n.space[u] \in Int
  BY DEF MemoryType
<1>2. \A u \in Span(first, count) : what[u - first] \in Int
  BY DEF Span
<1>3. space \in [Span(0, Space) -> Int]
  BY <1>1, <1>2
<1>4. (n.harm \/ \E u \in Span(first, count) : n.space[u] = Foreign) = FALSE
  BY DEF MemoryType
<1>5. k = [n EXCEPT !.space = space, !.harm = n.harm \/ \E u \in Span(first, count) : n.space[u] = Foreign]
  BY DEF Put
<1>6. k = [n EXCEPT !.space = space, !.harm = FALSE]
  BY <1>4, <1>5
<1>7. \A u \in Span(0, Space) : space[u] = IF u \in Span(first, count) THEN what[u - first] ELSE n.space[u]
  BY <1>1
<1> HIDE DEF space, k
<1>8. k \in MemoryType /\ ~k.harm /\ k.space = space /\ k.arena = n.arena /\ k.linked = n.linked
      /\ k.back = n.back /\ k.alias = n.alias /\ k.view = n.view /\ k.phys = n.phys
      /\ k.dirty = n.dirty
  BY <1>3, <1>6 DEF MemoryType
<1> QED
  BY <1>7, <1>8 DEF k

\* The whole range at once.
LEMMA ArenaPut ==
  ASSUME NEW n, MemoryTrue(n), NEW what \in {Free, Reserved}, \A u \in Span(0, Space) : n.space[u] # Foreign,
         NEW q, q = Put(n, 0, Space, All(Space, what))
  PROVE  /\ q \in MemoryType /\ ~q.harm /\ \A u \in Span(0, Space) : q.space[u] = what
         /\ q.linked = n.linked /\ q.back = n.back /\ q.alias = n.alias /\ q.view = n.view /\ q.phys = n.phys
<1>1. what \in Int /\ All(Space, what) \in [0..(Space - 1) -> Int] /\ Space \in Nat /\ 0 + Space <= Space
  BY MemoryAssumption DEF All, Free, Reserved
<1>2. \A u \in Span(0, Space) : u - 0 \in 0..(Space - 1) /\ All(Space, what)[u - 0] = what
  BY <1>1 DEF All, Span
<1>3. n \in MemoryType /\ ~n.harm
  BY DEF MemoryTrue
<1>4. /\ q \in MemoryType /\ ~q.harm
      /\ \A u \in Span(0, Space) : q.space[u] = IF u \in Span(0, Space) THEN All(Space, what)[u - 0] ELSE n.space[u]
      /\ q.linked = n.linked /\ q.back = n.back /\ q.alias = n.alias /\ q.view = n.view /\ q.phys = n.phys
  <2>1. 0 \in Nat /\ q = Put(n, 0, Space, All(Space, what)) /\ \A u \in Span(0, Space) : n.space[u] # Foreign
    OBVIOUS
  <2> QED
    <3>1. PutIn(n, 0, Space, All(Space, what))
      BY ONLY <1>1, <1>3, <2>1 DEF PutIn
    <3> QED
      BY ONLY <2>1, <3>1, PutFields
<1> QED
  BY <1>2, <1>4

LEMMA ReserveKeeps ==
  ASSUME NEW n, MemoryTrue(n), NEW r \in Reserve(n)
  PROVE  /\ MemoryTrue(r.m) /\ r.m.back = n.back /\ r.m.alias = n.alias /\ r.m.linked = n.linked
         /\ r.m.phys = n.phys
         /\ IF r.rc = "ok" THEN r.m.arena ELSE r.m.arena = n.arena
<1> DEFINE k == [Put(n, 0, Space, All(Space, Reserved)) EXCEPT !.arena = TRUE]
<1>1. CASE r.m = n /\ r.rc # "ok"
  BY <1>1
<1>2. CASE r \in Elsewhere(n, {})
  BY <1>2, ElsewhereKeeps
<1>3. CASE r = Result(k, "ok") /\ ~n.arena /\ \A u \in DOMAIN n.space : n.space[u] = Free
  <2>1. n.linked = {}
    BY <1>3 DEF MemoryTrue, AliasTrue
  <2>2. \A u \in Span(0, Space) : n.space[u] # Foreign
    BY <1>3 DEF MemoryTrue, MemoryType, Free, Foreign
  <2>3. /\ MemoryTrue(k) /\ k.back = n.back /\ k.alias = n.alias /\ k.linked = n.linked /\ k.phys = n.phys
        /\ k.arena = TRUE
    <3> DEFINE q == Put(n, 0, Space, All(Space, Reserved))
    <3>1. /\ q \in MemoryType /\ ~q.harm /\ \A u \in Span(0, Space) : q.space[u] = Reserved
          /\ q.linked = n.linked /\ q.back = n.back /\ q.alias = n.alias /\ q.view = n.view /\ q.phys = n.phys
      BY <2>2, ArenaPut
    <3>2. k = [q EXCEPT !.arena = TRUE]
      OBVIOUS
    <3> HIDE DEF q, k
    <3>3. /\ k \in MemoryType /\ ~k.harm /\ k.linked = n.linked /\ k.back = n.back /\ k.alias = n.alias
          /\ k.view = n.view /\ k.phys = n.phys /\ k.arena = TRUE /\ k.space = q.space
      BY <3>1, <3>2 DEF MemoryType
    <3>4. \A u \in Span(0, Space) : IF k.arena THEN k.space[u] = Reserved ELSE k.space[u] \in {Free, Foreign}
      BY <3>1, <3>3
    <3>5. MemoryTrue(n) /\ n.linked = {} /\ k.linked = {}
      BY <2>1, <3>3
    <3>6. MemoryTrue(k)
      BY ONLY <3>3, <3>4, <3>5, AddressesChange
    <3> QED
      BY <3>3, <3>6
  <2> HIDE DEF k
  <2> QED
    BY <1>3, <2>3 DEF Result
<1> QED
  BY <1>1, <1>2, <1>3 DEF Reserve, Result

LEMMA CloseArenaKeeps ==
  ASSUME NEW n, MemoryTrue(n), NEW r \in CloseArena(n)
  PROVE  /\ MemoryTrue(r.m) /\ r.m.back = n.back /\ r.m.alias = n.alias /\ r.m.linked = n.linked
         /\ r.m.phys = n.phys /\ r.rc \in {"ok", "busy", "error"}
         /\ r.rc = "busy" => n.linked # {}
         /\ r.rc = "ok" => ~r.m.arena
<1> DEFINE k == [Put(n, 0, Space, All(Space, Free)) EXCEPT !.arena = FALSE]
<1>1. CASE r = Result(n, "busy") /\ n.linked # {}
  BY <1>1 DEF Result
<1>2. CASE r = Result(n, "ok") /\ ~n.arena
  BY <1>2 DEF Result
<1>3. CASE r = Result(n, "error")
  BY <1>3 DEF Result
<1>4. CASE r = Result(k, "ok") /\ n.arena /\ n.linked = {}
  <2>1. \A u \in Span(0, Space) : n.space[u] # Foreign
    BY <1>4 DEF MemoryTrue, AddressTrue, Reserved, Foreign
  <2>2. /\ MemoryTrue(k) /\ k.back = n.back /\ k.alias = n.alias /\ k.linked = n.linked /\ k.phys = n.phys
        /\ ~k.arena
    <3> DEFINE q == Put(n, 0, Space, All(Space, Free))
    <3>1. /\ q \in MemoryType /\ ~q.harm /\ \A u \in Span(0, Space) : q.space[u] = Free
          /\ q.linked = n.linked /\ q.back = n.back /\ q.alias = n.alias /\ q.view = n.view /\ q.phys = n.phys
      BY <2>1, ArenaPut
    <3>2. k = [q EXCEPT !.arena = FALSE]
      OBVIOUS
    <3> HIDE DEF q, k
    <3>3. /\ k \in MemoryType /\ ~k.harm /\ k.linked = n.linked /\ k.back = n.back /\ k.alias = n.alias
          /\ k.view = n.view /\ k.phys = n.phys /\ k.arena = FALSE /\ k.space = q.space
      BY <3>1, <3>2 DEF MemoryType
    <3>4. \A u \in Span(0, Space) : IF k.arena THEN k.space[u] = Reserved ELSE k.space[u] \in {Free, Foreign}
      BY <3>1, <3>3
    <3>5. MemoryTrue(n) /\ n.linked = {} /\ k.linked = {}
      BY <1>4, <3>3
    <3>6. MemoryTrue(k)
      BY ONLY <3>3, <3>4, <3>5, AddressesChange
    <3> QED
      BY <3>3, <3>6
  <2> HIDE DEF k
  <2> QED
    BY <1>4, <2>2 DEF Result
<1> QED
  BY <1>1, <1>2, <1>3, <1>4 DEF CloseArena

-----------------------------------------------------------------------------
(* The aliases.                                                             *)

Counted(x, count) == [x EXCEPT !.aliases = count]

LEMMA CountedFields ==
  ASSUME NEW x \in BackingType, NEW count \in Int
  PROVE  /\ Counted(x, count) \in BackingType
         /\ Counted(x, count).physical = x.physical /\ Counted(x, count).size = x.size
         /\ Counted(x, count).host = x.host /\ Counted(x, count).aliases = count
  BY DEF BackingType, Counted

\* What an alias of b changes in the backings.
LEMMA CountChanges ==
  ASSUME NEW n, MemoryTrue(n), NEW b \in Backings, NEW k,
         k.back = [n.back EXCEPT ![b] = Counted(n.back[b], Cardinality(Users(k, b)))], k.view = n.view,
         \A c \in Backings : c # b => Users(k, c) = Users(n, c)
  PROVE  /\ k.back \in [Backings -> BackingType]
         /\ \A c \in Backings : /\ OwnedUnits(k, c) = OwnedUnits(n, c) /\ k.back[c].host = n.back[c].host
                                /\ k.back[c].physical = n.back[c].physical /\ BackingTrue(k, c)
<1> DEFINE count == Cardinality(Users(k, b))
<1>1. n.back \in [Backings -> BackingType] /\ count \in Int
  BY UsersFinite DEF MemoryTrue, MemoryType
<1>0. k.back = [n.back EXCEPT ![b] = Counted(n.back[b], count)]
  OBVIOUS
<1> HIDE DEF count
<1>2. /\ Counted(n.back[b], count) \in BackingType
      /\ Counted(n.back[b], count).physical = n.back[b].physical
      /\ Counted(n.back[b], count).size = n.back[b].size /\ Counted(n.back[b], count).host = n.back[b].host
      /\ Counted(n.back[b], count).aliases = count
  BY <1>1, CountedFields
<1>3. k.back[b] = Counted(n.back[b], count) /\ \A c \in Backings : c # b => k.back[c] = n.back[c]
  BY <1>0, <1>1
<1>4. \A c \in Backings : /\ OwnedUnits(k, c) = OwnedUnits(n, c) /\ k.back[c].host = n.back[c].host
                          /\ k.back[c].physical = n.back[c].physical /\ k.back[c].size = n.back[c].size
  BY <1>2, <1>3 DEF OwnedUnits
<1>5. \A c \in Backings : k.back[c].aliases = Cardinality(Users(k, c))
  BY <1>2, <1>3 DEF MemoryTrue, BackingTrue, count
<1>6. \A c \in Backings : BackingTrue(k, c)
  <2> SUFFICES ASSUME NEW c \in Backings PROVE BackingTrue(k, c)
    OBVIOUS
  <2>1. BackingTrue(n, c)
    BY DEF MemoryTrue
  <2> QED
    BY <1>4, <1>5, <2>1 DEF BackingTrue
<1>7. k.back \in [Backings -> BackingType]
  BY <1>0, <1>1, <1>2
<1> QED
  BY <1>4, <1>6, <1>7

\* An alias whose addresses stay as they are.
LEMMA AliasStays ==
  ASSUME NEW n, MemoryTrue(n), NEW c \in n.linked,
         NEW k, k.arena = n.arena, k.alias[c] = n.alias[c],
         \A d \in Backings : OwnedUnits(k, d) = OwnedUnits(n, d) /\ k.back[d].host = n.back[d].host,
         \A u \in Reach(n, c) : k.space[u] = n.space[u],
         \A d \in k.linked : d # c => Reach(n, c) \cap Reach(k, d) = {}
  PROVE  AliasTrue(k, c)
<1>1. AliasTrue(n, c) /\ Reach(k, c) = Reach(n, c)
  BY DEF MemoryTrue, Reach
<1>2. n.alias[c].address \in Reach(n, c)
  BY <1>1 DEF AliasTrue, Reach, Span, MemoryTrue, MemoryType, AliasType
<1> QED
  BY <1>1, <1>2 DEF AliasTrue

\* A released stretch is the arena's again.
LEMMA ForgottenKeeps ==
  ASSUME NEW n, MemoryTrue(n), NEW a \in n.linked,
         NEW k, k = Forgotten(Put(n, n.alias[a].address, n.alias[a].size, All(n.alias[a].size, Reserved)), a)
  PROVE  /\ MemoryTrue(k) /\ k.arena = n.arena /\ k.linked = n.linked \ {a} /\ k.phys = n.phys
         /\ \A c \in Backings : k.back[c].physical = n.back[c].physical
<1> DEFINE q == Put(n, n.alias[a].address, n.alias[a].size, All(n.alias[a].size, Reserved))
           b == n.alias[a].backing
           x == n.back[b]
<1>1. /\ n \in MemoryType /\ a \in Aliases /\ AliasTrue(n, a) /\ b \in Backings /\ ~n.harm
      /\ n.alias[a].size \in Nat /\ n.alias[a].address \in Nat
  BY DEF MemoryTrue, MemoryType, AliasTrue, AliasType
<1>2. \A u \in Span(0, Space) : n.space[u] # Foreign
  BY <1>1 DEF MemoryTrue, AddressTrue, AliasTrue, Reserved, Foreign
<1>3. Reach(n, a) \subseteq Span(0, Space) /\ n.alias[a].address + n.alias[a].size <= Space
  BY <1>1, MemoryAssumption DEF Reach, Span, AliasTrue
<1>4. All(n.alias[a].size, Reserved) \in [0..(n.alias[a].size - 1) -> Int]
      /\ \A u \in Reach(n, a) : All(n.alias[a].size, Reserved)[u - n.alias[a].address] = Reserved
  BY <1>1 DEF All, Reserved, Reach, Span
<1>5. /\ q \in MemoryType /\ ~q.harm /\ q.arena = n.arena /\ q.linked = n.linked
      /\ \A u \in Span(0, Space) : q.space[u] = IF u \in Reach(n, a) THEN Reserved ELSE n.space[u]
      /\ q.back = n.back /\ q.alias = n.alias /\ q.view = n.view /\ q.phys = n.phys
  <2>1. \A u \in Reach(n, a) : n.space[u] # Foreign
    BY <1>2, <1>3
  <2>2. Reach(n, a) = Span(n.alias[a].address, n.alias[a].size)
    BY DEF Reach
  <2>3. /\ q \in MemoryType /\ ~q.harm /\ q.arena = n.arena /\ q.linked = n.linked
        /\ \A u \in Span(0, Space) : q.space[u] = IF u \in Span(n.alias[a].address, n.alias[a].size)
                                                  THEN All(n.alias[a].size, Reserved)[u - n.alias[a].address]
                                                  ELSE n.space[u]
        /\ q.back = n.back /\ q.alias = n.alias /\ q.view = n.view /\ q.phys = n.phys
    <3>1. PutIn(n, n.alias[a].address, n.alias[a].size, All(n.alias[a].size, Reserved))
      BY ONLY <1>1, <1>3, <1>4, <2>1, <2>2 DEF PutIn
    <3> QED
      BY ONLY <3>1, PutFields DEF q
  <2> HIDE DEF q
  <2> QED
    BY <1>4, <2>2, <2>3
<1> HIDE DEF q
<1>6. k = [q EXCEPT !.linked = @ \ {a}, !.back[q.alias[a].backing].aliases = @ - 1, !.alias[a] = NoAlias]
  BY DEF Forgotten, q
<1>7. NoAlias \in AliasType /\ x \in BackingType /\ x.aliases \in Int /\ x.aliases - 1 \in Int
  BY <1>1 DEF NoAlias, AliasType, None, MemoryType, BackingType
<1>8. /\ k.back = [n.back EXCEPT ![b] = Counted(x, x.aliases - 1)]
      /\ k.alias = [n.alias EXCEPT ![a] = NoAlias] /\ k.linked = n.linked \ {a}
      /\ k.arena = n.arena /\ k.space = q.space /\ k.harm = q.harm /\ k.view = n.view /\ k.phys = n.phys
      /\ k.dirty = q.dirty /\ k.stray = q.stray
  BY <1>5, <1>6 DEF MemoryType, Counted
<1>9. /\ k.alias[a] = NoAlias /\ \A c \in Aliases : c # a => k.alias[c] = n.alias[c]
      /\ k.alias \in [Aliases -> AliasType]
  BY <1>1, <1>7, <1>8 DEF MemoryType
<1>10. Users(k, b) = Users(n, b) \ {a} /\ a \in Users(n, b) /\ \A c \in Backings : c # b => Users(k, c) = Users(n, c)
  BY <1>1, <1>9, MemoryAssumption DEF Users, NoAlias
<1>11. Cardinality(Users(k, b)) = x.aliases - 1
  <2>1. IsFiniteSet(Users(n, b)) /\ x.aliases = Cardinality(Users(n, b))
    BY <1>1, UsersFinite DEF MemoryTrue, BackingTrue
  <2> QED
    <3>1. Cardinality(Users(n, b) \ {a}) = Cardinality(Users(n, b)) - 1
      BY ONLY <1>10, <2>1, FS_RemoveElement
    <3> QED
      BY <1>10, <2>1, <3>1
<1> HIDE DEF x, b
<1>12. /\ k.back \in [Backings -> BackingType]
       /\ \A c \in Backings : /\ OwnedUnits(k, c) = OwnedUnits(n, c) /\ k.back[c].host = n.back[c].host
                              /\ k.back[c].physical = n.back[c].physical /\ BackingTrue(k, c)
  <2>1. /\ b \in Backings /\ MemoryTrue(n) /\ k.view = n.view
        /\ k.back = [n.back EXCEPT ![b] = Counted(n.back[b], Cardinality(Users(k, b)))]
    BY <1>1, <1>8, <1>11 DEF x
  <2> QED
    BY ONLY <1>10, <2>1, CountChanges
<1>13. \A c \in k.linked : AliasTrue(k, c)
  <2> SUFFICES ASSUME NEW c \in n.linked, c # a PROVE AliasTrue(k, c)
    BY <1>8
  <2>1. AliasTrue(n, c) /\ c \in Aliases /\ n.alias[c].address \in Nat /\ n.alias[c].size \in Nat
    BY <1>1 DEF MemoryTrue, MemoryType, AliasTrue, AliasType
  <2>2. Reach(n, c) \subseteq Span(0, Space)
    BY <2>1, MemoryAssumption DEF Reach, Span, AliasTrue
  <2>3. Reach(n, c) \cap Reach(n, a) = {}
    BY <2>1 DEF AliasTrue
  <2>4. \A u \in Reach(n, c) : k.space[u] = n.space[u]
    BY <1>5, <1>8, <2>2, <2>3
  <2>5. \A d \in k.linked : d # c => Reach(n, c) \cap Reach(k, d) = {}
    BY <1>1, <1>8, <1>9, <2>1 DEF AliasTrue, Reach, MemoryType
  <2> QED
    BY <1>8, <1>9, <1>12, <2>1, <2>4, <2>5, AliasStays
<1>14. \A u \in Span(0, Space) : AddressTrue(k, u)
  <2> SUFFICES ASSUME NEW u \in Span(0, Space) PROVE AddressTrue(k, u)
    OBVIOUS
  <2>1. AddressTrue(n, u) /\ k.arena /\ n.arena
    BY <1>1, <1>8 DEF MemoryTrue, AliasTrue
  <2>2. CASE u \in Reach(n, a)
    BY <1>5, <1>8, <2>1, <2>2 DEF AddressTrue, Reserved
  <2>3. CASE u \notin Reach(n, a)
    <3>1. k.space[u] = n.space[u]
      BY <1>5, <1>8, <2>3
    <3>2. \A c \in n.linked \ {a} : Reach(k, c) = Reach(n, c) /\ c \in k.linked
      BY <1>1, <1>8, <1>9 DEF Reach, MemoryType
    <3> QED
      BY <2>1, <2>3, <3>1, <3>2 DEF AddressTrue
  <2> QED
    BY <2>2, <2>3
<1>15. k \in MemoryType
  <2>1. q.space \in [Span(0, Space) -> Int] /\ q.harm \in BOOLEAN /\ q.dirty \in SUBSET Int /\ q.stray \in SUBSET (SUBSET Int)
        /\ n.arena \in BOOLEAN /\ n.linked \in SUBSET Aliases /\ n.view \in [Backings -> SUBSET Int] /\ n.phys \in SUBSET Int
    BY <1>1, <1>5 DEF MemoryType
  <2>2. k.linked \in SUBSET Aliases
    BY <1>8, <2>1
  <2> DEFINE linked == k.linked
             back == k.back
             alias == k.alias
  <2>3. k = [[[q EXCEPT !.linked = linked] EXCEPT !.back = back] EXCEPT !.alias = alias]
    BY <1>5, <1>6 DEF MemoryType
  <2>4. linked \in SUBSET Aliases /\ back \in [Backings -> BackingType] /\ alias \in [Aliases -> AliasType]
    BY <1>9, <1>12, <2>2
  <2> HIDE DEF linked, back, alias
  <2> QED
    BY ONLY <1>5, <2>3, <2>4 DEF MemoryType
<1>16. \A c \in Aliases : IF c \in k.linked THEN k.alias[c].address # None ELSE k.alias[c] = NoAlias
  BY <1>8, <1>9 DEF MemoryTrue
<1>17. k.phys = UNION {OwnedUnits(k, c) : c \in Backings} /\ ~k.harm
  BY <1>5, <1>8, <1>12 DEF MemoryTrue
<1>18. MemoryTrue(k)
  BY <1>12, <1>13, <1>14, <1>15, <1>16, <1>17 DEF MemoryTrue
<1> QED
  BY <1>8, <1>12, <1>18

LEMMA UnmapKeeps ==
  ASSUME NEW n, MemoryTrue(n), NEW a \in Aliases, NEW r \in UnmapAlias(n, a)
  PROVE  /\ MemoryTrue(r.m) /\ r.m.arena = n.arena /\ r.m.phys = n.phys
         /\ \A c \in Backings : r.m.back[c].physical = n.back[c].physical
         /\ r.m.linked \subseteq n.linked
         /\ r.rc \in {"ok", "error"}
         /\ r.rc = "ok" => a \notin r.m.linked
<1> DEFINE k == Forgotten(Put(n, n.alias[a].address, n.alias[a].size, All(n.alias[a].size, Reserved)), a)
<1>1. CASE n.alias[a].address = None /\ r = Result(n, "ok")
  <2>1. a \notin n.linked
    BY <1>1 DEF MemoryTrue
  <2> QED
    BY <1>1, <2>1 DEF Result
<1>2. CASE r = Result(n, "error")
  BY <1>2 DEF Result
<1>3. CASE n.alias[a].address # None /\ r = Result(k, "ok")
  <2>1. a \in n.linked
    BY <1>3 DEF MemoryTrue, NoAlias
  <2>2. /\ MemoryTrue(k) /\ k.arena = n.arena /\ k.linked = n.linked \ {a} /\ k.phys = n.phys
        /\ \A c \in Backings : k.back[c].physical = n.back[c].physical
    BY <2>1, ForgottenKeeps
  <2> HIDE DEF k
  <2> QED
    BY <1>3, <2>2 DEF Result
<1> QED
  BY <1>1, <1>2, <1>3 DEF UnmapAlias

\* One unit after the other.
Stretch(first, bytes) == [u \in 0..(bytes - 1) |-> first + u]

StretchIn(physical, size, first, bytes, offset) ==
    /\ physical \in Nat /\ size \in Nat /\ first \in Nat /\ bytes \in Nat /\ offset \in Nat
    /\ bytes # 0 /\ physical <= first /\ first + bytes <= physical + size

LEMMA StretchOf ==
  ASSUME NEW physical, NEW size, NEW first, NEW bytes, NEW offset, StretchIn(physical, size, first, bytes, offset)
  PROVE  /\ Stretch(first, bytes) \in [0..(bytes - 1) -> Int]
         /\ \A u \in Span(offset, bytes) :
               /\ Stretch(first, bytes)[u - offset] \in Span(physical, size)
               /\ Stretch(first, bytes)[u - offset] >= 0
               /\ Stretch(first, bytes)[u - offset] - u = Stretch(first, bytes)[0] - offset
<1> USE DEF StretchIn
<1>1. Stretch(first, bytes) \in [0..(bytes - 1) -> Int]
  BY DEF Stretch
<1>2. \A v \in 0..(bytes - 1) : Stretch(first, bytes)[v] = first + v
  BY DEF Stretch
<1> SUFFICES ASSUME NEW u \in Span(offset, bytes)
             PROVE  /\ Stretch(first, bytes)[u - offset] \in Span(physical, size)
                    /\ Stretch(first, bytes)[u - offset] >= 0
                    /\ Stretch(first, bytes)[u - offset] - u = Stretch(first, bytes)[0] - offset
  BY <1>1
<1>3. u \in Int /\ offset <= u /\ u <= offset + bytes - 1
  BY DEF Span
<1>4. u - offset \in 0..(bytes - 1) /\ 0 \in 0..(bytes - 1)
  BY <1>3
<1>5. Stretch(first, bytes)[u - offset] = first + (u - offset)
  BY <1>2, <1>4
<1>6. Stretch(first, bytes)[0] = first + 0
  BY <1>2, <1>4
<1> QED
  BY <1>3, <1>5, <1>6 DEF Span

AliasTo(offset, bytes, b) == [address |-> offset, size |-> bytes, backing |-> b]

\* k is n with an alias where none is, showing a stretch of what the backing holds.
MapsTo(n, k, a, b, offset, bytes) ==
    /\ MemoryTrue(n) /\ a \in Aliases /\ n.alias[a].address = None /\ b \in Backings /\ n.arena /\ n.back[b].host
    /\ offset \in Nat /\ bytes \in Nat /\ bytes # 0 /\ offset + bytes <= Space
    /\ \A c \in n.linked : Span(offset, bytes) \cap Reach(n, c) = {}
    /\ k.back = [n.back EXCEPT ![b] = Counted(n.back[b], n.back[b].aliases + 1)]
    /\ k.alias = [n.alias EXCEPT ![a] = AliasTo(offset, bytes, b)] /\ k.linked = n.linked \cup {a}
    /\ k.arena = n.arena /\ ~k.harm /\ k.view = n.view /\ k.phys = n.phys
    /\ k.back \in [Backings -> BackingType] /\ k.alias \in [Aliases -> AliasType] => k \in MemoryType
    /\ \A u \in Span(0, Space) : u \notin Span(offset, bytes) => k.space[u] = n.space[u]
    /\ \A u \in Span(offset, bytes) :
          /\ k.space[u] \in OwnedUnits(n, b) /\ k.space[u] >= 0
          /\ k.space[u] - u = k.space[offset] - offset

LEMMA MappedKeeps ==
  ASSUME NEW n, NEW k, NEW a, NEW b, NEW offset, NEW bytes, MapsTo(n, k, a, b, offset, bytes)
  PROVE  /\ MemoryTrue(k)
         /\ \A c \in Backings : k.back[c].physical = n.back[c].physical
<1> USE DEF MapsTo
<1> DEFINE reach == Span(offset, bytes)
           new == AliasTo(offset, bytes, b)
<1>0. new \in AliasType /\ new.address = offset /\ new.size = bytes /\ new.backing = b
  BY DEF AliasType, AliasTo
<1>18. k.alias = [n.alias EXCEPT ![a] = new]
  OBVIOUS
<1> HIDE DEF new
<1>1. n \in MemoryType /\ ~n.harm /\ a \notin n.linked /\ n.alias[a] = NoAlias /\ BackingTrue(n, b)
  BY DEF MemoryTrue
<1>2. reach \subseteq Span(0, Space) /\ bytes > 0
  BY MemoryAssumption DEF Span
<1>3. /\ k.alias[a] = new /\ \A c \in Aliases : c # a => k.alias[c] = n.alias[c]
      /\ k.alias \in [Aliases -> AliasType]
  BY <1>0, <1>1, <1>18 DEF MemoryType
<1>4. Users(k, b) = Users(n, b) \cup {a} /\ a \notin Users(n, b) /\ \A c \in Backings : c # b => Users(k, c) = Users(n, c)
  BY <1>0, <1>1, <1>3, MemoryAssumption DEF Users, NoAlias
<1>5. Cardinality(Users(k, b)) = n.back[b].aliases + 1
  <2>1. IsFiniteSet(Users(n, b)) /\ n.back[b].aliases = Cardinality(Users(n, b))
    BY <1>1, UsersFinite DEF BackingTrue
  <2>2. Cardinality(Users(n, b) \cup {a}) = Cardinality(Users(n, b)) + 1
    BY ONLY <1>4, <2>1, FS_AddElement
  <2> QED
    BY ONLY <1>4, <2>1, <2>2
<1>6. /\ k.back \in [Backings -> BackingType]
      /\ \A c \in Backings : /\ OwnedUnits(k, c) = OwnedUnits(n, c) /\ k.back[c].host = n.back[c].host
                             /\ k.back[c].physical = n.back[c].physical /\ BackingTrue(k, c)
  <2>1. /\ b \in Backings /\ MemoryTrue(n) /\ k.view = n.view
        /\ k.back = [n.back EXCEPT ![b] = Counted(n.back[b], Cardinality(Users(k, b)))]
    BY <1>5
  <2> QED
    BY ONLY <1>4, <2>1, CountChanges
<1>7. Reach(k, a) = reach /\ \A c \in n.linked : Reach(k, c) = Reach(n, c) /\ reach \cap Reach(n, c) = {}
  BY <1>0, <1>1, <1>3 DEF Reach, MemoryType
<1>8. /\ \A u \in reach : k.space[u] \in OwnedUnits(k, b) /\ k.space[u] >= 0 /\ k.space[u] - u = k.space[offset] - offset
      /\ \A u \in Span(0, Space) : u \notin reach => k.space[u] = n.space[u]
  BY <1>6
<1>9. \A d \in k.linked : d \in n.linked \/ d = a
  OBVIOUS
<1>10. /\ k.arena /\ k.linked = n.linked \cup {a} /\ k.arena = n.arena /\ k.phys = n.phys /\ ~k.harm /\ MemoryTrue(n)
       /\ k.back[b].host /\ offset + bytes <= Space /\ offset \in Nat /\ b \in Backings /\ a \in Aliases
       /\ new.address = offset /\ new.size = bytes /\ new.backing = b
       /\ k.alias \in [Aliases -> AliasType]  => k \in MemoryType
  BY <1>0, <1>6
<1> HIDE DEF reach
<1>11. \A c \in n.linked : AliasTrue(k, c)
  <2> SUFFICES ASSUME NEW c \in n.linked PROVE AliasTrue(k, c)
    OBVIOUS
  <2>1. AliasTrue(n, c) /\ c \in Aliases /\ c # a
    BY ONLY <1>1, <1>10, c \in n.linked DEF MemoryTrue, MemoryType
  <2>2. n.alias[c].address \in Nat /\ n.alias[c].size \in Nat /\ n.alias[c].address + n.alias[c].size <= Space
    BY ONLY <1>1, <2>1 DEF MemoryType, AliasTrue, AliasType
  <2>3. Reach(n, c) \subseteq Span(0, Space)
    BY ONLY <2>2, MemoryAssumption DEF Reach, Span
  <2>4. \A u \in Reach(n, c) : k.space[u] = n.space[u]
    BY ONLY <1>7, <1>8, <2>3, c \in n.linked
  <2>5. \A d \in k.linked : d # c => Reach(n, c) \cap Reach(k, d) = {}
    BY ONLY <1>7, <1>10, <2>1, c \in n.linked DEF AliasTrue
  <2>6. k.alias[c] = n.alias[c] /\ \A d \in Backings : OwnedUnits(k, d) = OwnedUnits(n, d) /\ k.back[d].host = n.back[d].host
    BY ONLY <1>3, <1>6, <2>1
  <2> QED
    BY ONLY <1>10, <2>4, <2>5, <2>6, c \in n.linked, AliasStays
<1>12. AliasTrue(k, a)
  <2>1. \A d \in k.linked : d # a => Reach(k, a) \cap Reach(k, d) = {}
    BY ONLY <1>7, <1>9
  <2> QED
    BY ONLY <1>2, <1>3, <1>7, <1>8, <1>10, <2>1 DEF AliasTrue
<1>13. \A u \in Span(0, Space) : AddressTrue(k, u)
  <2> SUFFICES ASSUME NEW u \in Span(0, Space) PROVE AddressTrue(k, u)
    OBVIOUS
  <2>1. AddressTrue(n, u)
    BY ONLY <1>10, u \in Span(0, Space) DEF MemoryTrue
  <2>2. CASE u \in reach
    BY ONLY <1>7, <1>8, <1>10, <2>2 DEF AddressTrue
  <2>3. CASE u \notin reach
    <3>1. k.space[u] = n.space[u]
      BY ONLY <1>8, <2>3, u \in Span(0, Space)
    <3> QED
      BY ONLY <1>7, <1>10, <2>1, <3>1 DEF AddressTrue
  <2> QED
    BY <2>2, <2>3
<1>14. \A c \in Aliases : IF c \in k.linked THEN k.alias[c].address # None ELSE k.alias[c] = NoAlias
  BY ONLY <1>3, <1>10 DEF MemoryTrue, None
<1>15. k.phys = UNION {OwnedUnits(k, c) : c \in Backings}
  BY ONLY <1>6, <1>10 DEF MemoryTrue
<1>16. \A c \in k.linked : AliasTrue(k, c)
  BY ONLY <1>9, <1>11, <1>12
<1>17. MemoryTrue(k)
  BY ONLY <1>3, <1>6, <1>10, <1>13, <1>14, <1>15, <1>16 DEF MemoryTrue
<1> QED
  BY <1>6, <1>17

\* From n to k the alias a of the backing b came to be.
Shows(n, k, a, b, offset, from, bytes) ==
    /\ k.linked = n.linked \cup {a} /\ k.alias = [n.alias EXCEPT ![a] = AliasTo(offset, bytes, b)]
    /\ k.space[offset] = n.back[b].physical + from
    /\ \A u \in Span(0, Space) : u \notin Span(offset, bytes) => k.space[u] = n.space[u]
    /\ k.view = n.view /\ k.dirty = n.dirty

LEMMA MapKeeps ==
  ASSUME NEW n, MemoryTrue(n), NEW a \in Aliases, NEW b \in Backings,
         NEW offset \in Nat, NEW from \in Nat, NEW bytes \in Nat, NEW r \in MapAlias(n, a, offset, b, from, bytes)
  PROVE  /\ MemoryTrue(r.m) /\ r.m.arena = n.arena /\ r.m.phys = n.phys
         /\ \A c \in Backings : r.m.back[c].physical = n.back[c].physical
         /\ r.m.linked \subseteq n.linked \cup {a}
         /\ r.rc = "ok" => Shows(n, r.m, a, b, offset, from, bytes)
<1> DEFINE what == Stretch(n.back[b].physical + from, bytes)
           k == [Put(n, offset, bytes, what) EXCEPT
                    !.alias[a] = AliasTo(offset, bytes, b),
                    !.linked = @ \cup {a}, !.back[b].aliases = @ + 1]
           first == n.back[b].physical + from
<1>1. CASE r.m = n /\ r.rc # "ok"
  BY <1>1
<1>2. CASE r \in Elsewhere(n, Span(first, bytes))
  <2>1. Span(first, bytes) \in SUBSET Int
    BY DEF Span
  <2> QED
    BY <1>2, <2>1, ElsewhereKeeps
<1>3. CASE /\ n.alias[a].address = None /\ n.arena /\ n.back[b].host /\ bytes # 0 /\ offset + bytes <= Space
           /\ from + bytes <= n.back[b].size /\ ~OverlapsAlias(n, offset, bytes)
           /\ r = Result(k, "ok")
  <2> DEFINE q == Put(n, offset, bytes, what)
             new == AliasTo(offset, bytes, b)
  <2>0. /\ MemoryTrue(n) /\ n.alias[a].address = None /\ n.arena /\ n.back[b].host /\ bytes # 0
        /\ offset + bytes <= Space /\ from + bytes <= n.back[b].size /\ ~OverlapsAlias(n, offset, bytes)
        /\ a \in Aliases /\ b \in Backings /\ offset \in Nat /\ from \in Nat /\ bytes \in Nat
    BY <1>3
  <2>1. /\ n \in MemoryType /\ ~n.harm /\ n.back[b].physical \in Nat /\ n.back[b].size \in Nat
        /\ \A u \in Span(0, Space) : n.space[u] # Foreign
    <3>1. n \in MemoryType /\ ~n.harm /\ BackingTrue(n, b) /\ \A u \in Span(0, Space) : AddressTrue(n, u)
      BY ONLY <2>0 DEF MemoryTrue
    <3>2. n.back[b].physical \in Nat
      BY ONLY <2>0, <3>1 DEF BackingTrue
    <3>3. n.back[b].size \in Nat
      BY ONLY <2>0, <3>1 DEF MemoryType, BackingType
    <3>4. \A u \in Span(0, Space) : n.space[u] # Foreign
      BY ONLY <2>0, <3>1 DEF AddressTrue, Reserved, Foreign
    <3> QED
      BY ONLY <3>1, <3>2, <3>3, <3>4
  <2>2. n.back[b].physical + from \in Int
    BY ONLY <2>0, <2>1
  <2>3. k = [q EXCEPT !.alias[a] = new, !.linked = @ \cup {a}, !.back[b].aliases = @ + 1]
    OBVIOUS
  <2>4. new \in AliasType
    BY DEF AliasType, AliasTo
  <2>5. /\ what \in [0..(bytes - 1) -> Int]
        /\ \A u \in Span(offset, bytes) :
              /\ what[u - offset] \in OwnedUnits(n, b) /\ what[u - offset] >= 0
              /\ what[u - offset] - u = what[0] - offset
    <3>1. /\ what \in [0..(bytes - 1) -> Int]
          /\ \A u \in Span(offset, bytes) :
                /\ what[u - offset] \in Span(n.back[b].physical, n.back[b].size) /\ what[u - offset] >= 0
                /\ what[u - offset] - u = what[0] - offset
      <4>1. PICK physical \in Nat, size \in Nat : physical = n.back[b].physical /\ size = n.back[b].size
        BY ONLY <2>1
      <4>2. PICK start \in Nat : start = physical + from
        BY ONLY <4>1, from \in Nat, physical \in Nat
      <4>3. StretchIn(physical, size, start, bytes, offset)
        BY <2>0, <4>1, <4>2 DEF StretchIn
      <4>4. /\ Stretch(start, bytes) \in [0..(bytes - 1) -> Int]
            /\ \A u \in Span(offset, bytes) :
                  /\ Stretch(start, bytes)[u - offset] \in Span(physical, size)
                  /\ Stretch(start, bytes)[u - offset] >= 0
                  /\ Stretch(start, bytes)[u - offset] - u = Stretch(start, bytes)[0] - offset
        BY ONLY <4>3, StretchOf
      <4> QED
        BY ONLY <4>1, <4>2, <4>4
    <3> HIDE DEF what
    <3> QED
      BY ONLY <3>1 DEF OwnedUnits
  <2> HIDE DEF q, new, k, what
  <2>6. Span(offset, bytes) \subseteq Span(0, Space) /\ offset \in Span(offset, bytes)
    BY <1>3, MemoryAssumption DEF Span
  <2>7. /\ q \in MemoryType /\ ~q.harm /\ q.arena = n.arena /\ q.linked = n.linked
        /\ \A u \in Span(0, Space) : q.space[u] = IF u \in Span(offset, bytes) THEN what[u - offset] ELSE n.space[u]
        /\ q.back = n.back /\ q.alias = n.alias /\ q.view = n.view /\ q.phys = n.phys
        /\ q.dirty = n.dirty
    <3>1. \A u \in Span(offset, bytes) : n.space[u] # Foreign
      BY ONLY <2>1, <2>6
    <3>2. PutIn(n, offset, bytes, what)
      BY ONLY <2>0, <2>1, <2>5, <3>1 DEF PutIn
    <3> QED
      BY ONLY <3>2, PutFields DEF q
  <2>8. /\ k.back = [q.back EXCEPT ![b] = Counted(q.back[b], q.back[b].aliases + 1)]
        /\ k.alias = [q.alias EXCEPT ![a] = new] /\ k.linked = q.linked \cup {a}
        /\ k.arena = q.arena /\ k.space = q.space /\ k.harm = q.harm /\ k.view = q.view /\ k.phys = q.phys
        /\ k.dirty = q.dirty
        /\ k.back \in [Backings -> BackingType] /\ k.alias \in [Aliases -> AliasType] => k \in MemoryType
    <3>1. /\ k.back = [q.back EXCEPT ![b] = Counted(q.back[b], q.back[b].aliases + 1)]
          /\ k.alias = [q.alias EXCEPT ![a] = new] /\ k.linked = q.linked \cup {a}
          /\ k.arena = q.arena /\ k.space = q.space /\ k.harm = q.harm /\ k.view = q.view /\ k.phys = q.phys
          /\ k.dirty = q.dirty
      BY ONLY <2>3, <2>7 DEF MemoryType, Counted
    <3>2. ASSUME k.back \in [Backings -> BackingType], k.alias \in [Aliases -> AliasType] PROVE k \in MemoryType
      <4> DEFINE linked == k.linked
                 back == k.back
                 alias == k.alias
      <4>1. k = [[[q EXCEPT !.linked = linked] EXCEPT !.back = back] EXCEPT !.alias = alias]
        BY ONLY <2>3, <2>7 DEF MemoryType
      <4>2. linked \in SUBSET Aliases
        BY ONLY <2>0, <2>7, <3>1 DEF MemoryType
      <4>3. q \in MemoryType /\ back \in [Backings -> BackingType] /\ alias \in [Aliases -> AliasType]
        BY <2>7, <3>2
      <4> HIDE DEF linked, back, alias
      <4> QED
        BY ONLY <4>1, <4>2, <4>3 DEF MemoryType
    <3> QED
      BY ONLY <3>1, <3>2
  <2>9. \A u \in Span(0, Space) : u \notin Span(offset, bytes) => k.space[u] = n.space[u]
    BY ONLY <2>7, <2>8
  <2>10. \A u \in Span(offset, bytes) : k.space[u] = what[u - offset] /\ k.space[offset] = what[offset - offset]
    BY ONLY <2>6, <2>7, <2>8
  <2>11. \A u \in Span(offset, bytes) : /\ k.space[u] \in OwnedUnits(n, b) /\ k.space[u] >= 0
                                        /\ k.space[u] - u = k.space[offset] - offset
    <3>1. offset - offset = 0
      OBVIOUS
    <3> QED
      BY ONLY <2>5, <2>10, <3>1
  <2>12. \A c \in n.linked : Span(offset, bytes) \cap Reach(n, c) = {}
    BY <1>3 DEF OverlapsAlias, Reach
  <2>13. /\ k.back = [n.back EXCEPT ![b] = Counted(n.back[b], n.back[b].aliases + 1)]
         /\ k.alias = [n.alias EXCEPT ![a] = new] /\ k.linked = n.linked \cup {a}
         /\ k.arena = n.arena /\ ~k.harm /\ k.view = n.view /\ k.phys = n.phys
    BY <2>7, <2>8
  <2>14. /\ MemoryTrue(k)
         /\ \A c \in Backings : k.back[c].physical = n.back[c].physical
    <3>1. k.back \in [Backings -> BackingType] /\ k.alias \in [Aliases -> AliasType] => k \in MemoryType
      BY ONLY <2>8
    <3>2. MapsTo(n, k, a, b, offset, bytes)
      BY ONLY <2>0, <2>9, <2>11, <2>12, <2>13, <3>1 DEF new, MapsTo
    <3>3. QED
      BY ONLY <3>2, MappedKeeps
  <2>15. what[0] = n.back[b].physical + from
    BY <2>0, <2>2 DEF what, Stretch
  <2>16. k.space[offset] = n.back[b].physical + from
    <3>1. offset - offset = 0
      OBVIOUS
    <3> QED
      BY ONLY <2>6, <2>10, <2>15, <3>1
  <2>17. k.dirty = n.dirty
    BY <2>7, <2>8
  <2> QED
    <3>1. Shows(n, k, a, b, offset, from, bytes)
      BY <2>9, <2>13, <2>16, <2>17 DEF Shows, new
    <3> QED
      BY <1>3, <2>13, <2>14, <3>1 DEF Result
<1>4. CASE /\ n.alias[a].address = None /\ ~OverlapsAlias(n, offset, bytes)
           /\ ~(\/ ~n.arena \/ ~n.back[b].host \/ bytes = 0
                \/ ~Aligned(offset) \/ ~Aligned(from) \/ ~Aligned(bytes)
                \/ offset + bytes > Space \/ from + bytes > n.back[b].size)
  <2>1. r = Result(n, "error") \/ r \in Elsewhere(n, Span(first, bytes)) \/ r = Result(k, "ok")
    BY <1>4 DEF MapAlias, Stretch, AliasTo
  <2>2. n.back[b].size \in Nat
    BY DEF MemoryTrue, MemoryType, BackingType
  <2>3. offset + bytes <= Space /\ from + bytes <= n.back[b].size
    BY <1>4, <2>2, MemoryAssumption
  <2> HIDE DEF k
  <2> QED
    BY <1>1, <1>2, <1>3, <1>4, <2>1, <2>3 DEF Result
<1>5. CASE ~(/\ n.alias[a].address = None /\ ~OverlapsAlias(n, offset, bytes)
             /\ ~(\/ ~n.arena \/ ~n.back[b].host \/ bytes = 0
                  \/ ~Aligned(offset) \/ ~Aligned(from) \/ ~Aligned(bytes)
                  \/ offset + bytes > Space \/ from + bytes > n.back[b].size))
  <2>1. r = Result(n, "busy") \/ r = Result(n, "invalid")
    BY <1>5 DEF MapAlias
  <2> QED
    BY <1>1, <2>1 DEF Result
<1> QED
  BY <1>4, <1>5

-----------------------------------------------------------------------------
(* The layouts.                                                             *)

LayoutTrue(layout) ==
    /\ layout \in Seq([base : Nat, size : Nat, kind : STRING])
    /\ DOMAIN layout = 1..Len(layout) /\ DOMAIN layout \subseteq Aliases /\ 1..SectionCount(layout) \subseteq Backings

LEMMA NoLayout == LayoutTrue(<<>>)
<1>1. Leaders(<<>>) = {}
  BY DEF Leaders, Present
<1>2. SectionCount(<<>>) = 0
  BY <1>1, FS_EmptySet DEF SectionCount
<1> QED
  BY <1>2 DEF LayoutTrue

LEMMA SomeLayout ==
  ASSUME NEW layout \in Layouts PROVE LayoutTrue(layout)
  BY LayoutAssumption DEF LayoutTrue

\* A section has a number, and every number a section.
LEMMA SectionsNumbered ==
  ASSUME NEW layout, LayoutTrue(layout)
  PROVE  /\ SectionCount(layout) \in Nat
         /\ \A i \in Present(layout) : SectionOf(layout, i) \in 1..SectionCount(layout)
         /\ \A k \in 1..SectionCount(layout) : \E i \in Present(layout) : SectionOf(layout, i) = k
<1> DEFINE L == Leaders(layout)
           count == SectionCount(layout)
           UpTo(x) == {j \in L : j <= x}
           rank == [j \in L |-> Cardinality(UpTo(j))]
<1>1. L \subseteq Present(layout) /\ Present(layout) \subseteq DOMAIN layout /\ Len(layout) \in Nat
      /\ DOMAIN layout = 1..Len(layout)
  BY DEF LayoutTrue, Leaders, Present
<1>2. IsFiniteSet(L) /\ L \subseteq Nat /\ Present(layout) \subseteq Nat
  <2>1. IsFiniteSet(1..Len(layout)) /\ 1..Len(layout) \subseteq Nat
    BY <1>1, FS_Interval
  <2>2. L \subseteq 1..Len(layout) /\ Present(layout) \subseteq 1..Len(layout)
    BY <1>1
  <2> HIDE DEF L
  <2>3. IsFiniteSet(L)
    BY <2>1, <2>2, FS_Subset
  <2> QED
    BY <2>1, <2>2, <2>3
<1>3. count = Cardinality(L) /\ count \in Nat
  BY <1>2, FS_CardinalityType DEF SectionCount
<1>4. \A i \in L : UpTo(i) \subseteq L /\ i \in UpTo(i)
  BY <1>2
<1>5. \A i \in L : rank[i] \in 1..count
  <2> TAKE i \in L
  <2>1. IsFiniteSet(UpTo(i)) /\ Cardinality(UpTo(i)) <= Cardinality(L)
    BY <1>2, <1>4, FS_Subset
  <2>2. Cardinality(UpTo(i)) \in Nat /\ Cardinality(UpTo(i)) # 0
    BY <1>4, <2>1, FS_CardinalityType, FS_EmptySet
  <2> QED
    BY <1>3, <2>1, <2>2
<1>6. \A i, j \in L : i < j => rank[i] # rank[j]
  <2> SUFFICES ASSUME NEW i \in L, NEW j \in L, i < j PROVE Cardinality(UpTo(i)) # Cardinality(UpTo(j))
    OBVIOUS
  <2>1. UpTo(i) \subseteq UpTo(j) /\ j \in UpTo(j) /\ j \notin UpTo(i)
    BY <1>2
  <2>2. IsFiniteSet(UpTo(j))
    BY <1>2, <1>4, FS_Subset
  <2> HIDE DEF UpTo
  <2> QED
    BY <2>1, <2>2, FS_Subset
<1>7. rank \in Injection(L, 1..count)
  <2>1. rank \in [L -> 1..count]
    BY <1>5
  <2>2. \A i, j \in L : rank[i] = rank[j] => i = j
    <3> SUFFICES ASSUME NEW i \in L, NEW j \in L, rank[i] = rank[j], i # j PROVE FALSE
      OBVIOUS
    <3>1. i < j \/ j < i
      BY <1>2
    <3> HIDE DEF L, rank
    <3> QED
      BY <1>6, <3>1
  <2> HIDE DEF L, rank, count
  <2> QED
    BY <2>1, <2>2 DEF Injection, IsInjective
<1>8. rank \in Surjection(L, 1..count)
  <2>1. IsFiniteSet(1..count) /\ Cardinality(1..count) = count
    BY <1>3, FS_Interval
  <2> QED
    BY <1>3, <1>7, <2>1, FS_Injection
<1>9. \A k \in 1..count : \E i \in L : rank[i] = k
  BY <1>8 DEF Surjection
<1>10. \A i \in Present(layout) : \E j \in L : SameSection(layout[i], layout[j])
  <2> TAKE i \in Present(layout)
  <2> DEFINE T == {j \in Present(layout) : SameSection(layout[i], layout[j])}
  <2>1. T \in SUBSET Nat /\ i \in T
    BY <1>2 DEF SameSection
  <2>2. PICK j \in T : \A l \in T : j <= l
    BY <2>1, LeastOf
  <2>3. \A l \in Present(layout) : l < j => ~SameSection(layout[j], layout[l])
    BY <1>2, <2>2 DEF SameSection
  <2> QED
    BY <2>2, <2>3 DEF Leaders
<1>11. \A i \in Present(layout) : \E j \in L : SectionOf(layout, i) = rank[j]
  <2> TAKE i \in Present(layout)
  <2> DEFINE leader == CHOOSE j \in L : SameSection(layout[i], layout[j])
  <2>1. leader \in L
    BY <1>10
  <2>2. SectionOf(layout, i) = Cardinality(UpTo(leader))
    BY DEF SectionOf
  <2> QED
    BY <2>1, <2>2
<1>12. \A i \in L : SectionOf(layout, i) = rank[i]
  <2> TAKE i \in L
  <2> DEFINE leader == CHOOSE j \in L : SameSection(layout[i], layout[j])
  <2>1. SameSection(layout[i], layout[i])
    BY DEF SameSection
  <2>2. leader \in L /\ SameSection(layout[i], layout[leader])
    BY <2>1
  <2>3. leader = i
    <3>1. i \in Present(layout) /\ leader \in Present(layout) /\ i \in Nat /\ leader \in Nat
      BY <1>1, <1>2, <2>2
    <3>2. ~(leader < i)
      BY <2>2, <3>1 DEF Leaders
    <3>3. ~(i < leader)
      BY <2>2, <3>1 DEF Leaders, SameSection
    <3> QED
      BY <3>1, <3>2, <3>3
  <2> QED
    BY <2>3 DEF SectionOf
<1> HIDE DEF rank
<1> QED
  BY <1>1, <1>3, <1>5, <1>9, <1>11, <1>12

LEMMA OffsetOf ==
  ASSUME NEW layout, LayoutTrue(layout), NEW i \in DOMAIN layout
  PROVE  /\ layout[i].base \in Nat /\ layout[i].size \in Nat /\ Offset(layout[i]) \in Nat
         /\ Rounded(layout[i].size, Granularity) \in Nat /\ layout[i].size <= Rounded(layout[i].size, Granularity)
<1>1. layout[i].base \in Nat /\ layout[i].size \in Nat
  <2> DEFINE Region == [base : Nat, size : Nat, kind : STRING]
  <2>1. i \in 1..Len(layout) /\ layout \in Seq(Region)
    BY DEF LayoutTrue
  <2> HIDE DEF Region
  <2>2. layout[i] \in Region
    BY ONLY <2>1
  <2> QED
    BY <2>2 DEF Region
<1>2. layout[i].base % Mem1Span \in Nat /\ layout[i].base % Mem2Span \in Nat
  BY <1>1, LayoutAssumption
<1>3. Offset(layout[i]) \in Nat
  BY <1>2 DEF Offset
<1>4. Granularity \in Nat \ {0}
  BY DEF Granularity
<1> QED
  BY <1>1, <1>3, <1>4, RoundedUp

LEMMA SectionSize ==
  ASSUME NEW layout, LayoutTrue(layout), NEW k \in 1..SectionCount(layout)
  PROVE  Rounded(SectionBytes(layout, k), Granularity) \in Nat
<1> DEFINE T == {j \in Present(layout) : SectionOf(layout, j) = k}
           end == [i \in T |-> Offset(layout[i]) + Rounded(layout[i].size, Granularity)]
           Ends == {Offset(layout[i]) + Rounded(layout[i].size, Granularity) : i \in T}
<1>1. T \subseteq DOMAIN layout /\ T \subseteq 1..Len(layout) /\ T # {}
  BY SectionsNumbered DEF LayoutTrue, Present
<1>2. IsFiniteSet(T)
  <2>1. Len(layout) \in Nat
    BY DEF LayoutTrue
  <2>2. IsFiniteSet(1..Len(layout))
    BY <2>1, FS_Interval
  <2> QED
    BY <1>1, <2>2, FS_Subset
<1>3. \A i \in T : end[i] \in Nat
  <2> TAKE i \in T
  <2>1. Offset(layout[i]) \in Nat /\ Rounded(layout[i].size, Granularity) \in Nat
    BY <1>1, OffsetOf
  <2> QED
    BY <2>1
<1>4. end \in Surjection(T, Ends) /\ Ends \in SUBSET Nat /\ Ends # {}
  <2>1. Ends = {end[i] : i \in T}
    OBVIOUS
  <2>2. end \in [T -> Ends]
    OBVIOUS
  <2>3. \A x \in Ends : \E i \in T : end[i] = x
    BY <2>1
  <2>4. Ends \subseteq Nat /\ Ends # {}
    BY <1>1, <1>3, <2>1
  <2> HIDE DEF end, Ends, T
  <2> QED
    BY <2>2, <2>3, <2>4 DEF Surjection
<1> HIDE DEF end
<1>5. IsFiniteSet(Ends)
  BY <1>2, <1>4, FS_Surjection
<1>6. SectionBytes(layout, k) = CHOOSE x \in Ends : \A y \in Ends : x >= y
  BY DEF SectionBytes, Max
<1> HIDE DEF Ends
<1>7. \E x \in Ends : \A y \in Ends : y <= x
  BY <1>4, <1>5, GreatestOf
<1>8. \E x \in Ends : \A y \in Ends : x >= y
  BY <1>4, <1>7
<1>9. SectionBytes(layout, k) \in Nat
  BY <1>4, <1>6, <1>8
<1> QED
  BY <1>9, RoundedUp DEF Granularity

-----------------------------------------------------------------------------
(* Initialize, ~State and the free calls.                                   *)

\* Where Initialize and ~State are; only an orderly use has a layout.
ControlTrue ==
    /\ LayoutTrue(regions) /\ at.i \in Nat
    /\ use \in {"flat", "free"} /\ (use = "free" => at.phase = "none")
    /\ at.phase = "map" => at.i # 0
    /\ at.phase = "unmap" => at.i <= Len(regions)
    /\ at.phase = "close" => at.i <= SectionCount(regions)

Held == {b \in Backings : m.back[b].physical # None}

Bare == m.linked = {} /\ Held = {} /\ ~m.arena

\* What ~State has still to take down, unless a call of it has failed.
UnwindTrue ==
    /\ failed => refused
    /\ use = "flat" =>
         /\ at.phase \in {"none", "reserve"} => Bare
         /\ at.phase = "open" => m.linked = {} /\ Held \subseteq Sections
         /\ at.phase \in {"map", "active"} => m.linked \subseteq DOMAIN regions /\ Held \subseteq Sections
         /\ at.phase = "unmap" => (failed \/ m.linked \subseteq 1..at.i) /\ Held \subseteq Sections
         /\ at.phase = "close" => failed \/ (m.linked = {} /\ Held \subseteq 1..at.i)
         /\ at.phase = "closed" => failed \/ Bare

FlatInv == MemoryTrue(m) /\ ControlTrue /\ UnwindTrue

LEMMA InitTrue == Init => FlatInv
<1> SUFFICES ASSUME Init PROVE FlatInv
  OBVIOUS
<1>1. m = InitialMemory /\ regions = <<>> /\ at = At("none", 0) /\ use \in {"flat", "free"} /\ ~failed
  BY DEF Init
<1>2. \A b \in Backings : OwnedUnits(m, b) = {}
  <2> TAKE b \in Backings
  <2>1. m.back[b].physical = None /\ m.back[b].size = 0
    BY <1>1 DEF InitialMemory, NoBacking
  <2> QED
    BY <2>1 DEF OwnedUnits, Span, None
<1>3. NoAlias \in AliasType /\ NoBacking \in BackingType
  BY DEF NoAlias, AliasType, NoBacking, BackingType, None
<1>4. m \in MemoryType
  <2>1. [u \in Span(0, Space) |-> Free] \in [Span(0, Space) -> Int]
    BY DEF Free
  <2>2. Span(0, Pool) \in SUBSET Int
    BY MemoryAssumption DEF Span
  <2>3. [b \in Backings |-> NoBacking] \in [Backings -> BackingType] /\ [a \in Aliases |-> NoAlias] \in [Aliases -> AliasType]
    BY <1>3
  <2> QED
    BY <1>1, <2>1, <2>2, <2>3 DEF InitialMemory, MemoryType
<1>5. \A b \in Backings : BackingTrue(m, b)
  <2> TAKE b \in Backings
  <2>1. Users(m, b) = {}
    BY <1>1, MemoryAssumption DEF Users, InitialMemory, NoAlias
  <2>2. Cardinality(Users(m, b)) = 0
    BY <2>1, FS_EmptySet
  <2> QED
    BY <1>1, <1>2, <2>2 DEF BackingTrue, InitialMemory, NoBacking
<1>6. \A u \in Span(0, Space) : AddressTrue(m, u)
  BY <1>1 DEF AddressTrue, InitialMemory, Free
<1>7. MemoryTrue(m)
  BY <1>1, <1>2, <1>4, <1>5, <1>6 DEF MemoryTrue, InitialMemory
<1>8. ControlTrue
  BY <1>1, NoLayout DEF ControlTrue, At
<1>9. Bare /\ UnwindTrue
  BY <1>1 DEF Bare, Held, UnwindTrue, At, InitialMemory, NoBacking
<1> QED
  BY <1>7, <1>8, <1>9 DEF FlatInv

LEMMA InitializeTrue ==
  ASSUME FlatInv, NEW layout \in Layouts, Initialize(layout)
  PROVE  FlatInv'
<1>1. LayoutTrue(layout)
  BY SomeLayout
<1>2. use = "flat" /\ at.phase = "none" /\ regions' = layout /\ at' = At("reserve", 0)
      /\ m' = m /\ use' = use /\ failed' = failed /\ refused' = refused
  BY DEF Initialize
<1>3. ControlTrue'
  BY <1>1, <1>2 DEF FlatInv, ControlTrue, At
<1>4. UnwindTrue'
  BY <1>2 DEF FlatInv, UnwindTrue, At, Bare, Held
<1> QED
  BY <1>2, <1>3, <1>4 DEF FlatInv

LEMMA DirtyKeeps ==
  ASSUME NEW n, MemoryTrue(n), NEW dirty \in SUBSET Int, NEW k, k = [n EXCEPT !.dirty = dirty]
  PROVE  /\ MemoryTrue(k) /\ k.back = n.back /\ k.linked = n.linked /\ k.arena = n.arena
         /\ k.alias = n.alias /\ k.space = n.space /\ k.view = n.view /\ k.dirty = dirty
<1>1. /\ k \in MemoryType /\ k.arena = n.arena /\ k.linked = n.linked /\ k.alias = n.alias /\ k.space = n.space
      /\ k.harm = n.harm /\ k.back = n.back /\ k.view = n.view /\ k.phys = n.phys /\ k.dirty = dirty
  BY DEF MemoryTrue, MemoryType
<1>2. MemoryTrue(k)
  BY ONLY <1>1, MemoryTrue(n), OutsideChanges
<1> QED
  BY <1>1, <1>2

LEMMA InitializeAgainTrue ==
  ASSUME FlatInv, InitializeAgain
  PROVE  FlatInv'
<1> DEFINE dirty == m.dirty \ UNION {m.view[b] : b \in Sections}
<1>1. at.phase = "active" /\ m' = [m EXCEPT !.dirty = dirty]
      /\ use' = use /\ at' = at /\ regions' = regions /\ failed' = failed /\ refused' = refused
  BY DEF InitializeAgain
<1>2. MemoryTrue(m) /\ dirty \in SUBSET Int
  BY DEF FlatInv, MemoryTrue, MemoryType
<1> HIDE DEF dirty
<1>3. MemoryTrue(m') /\ m'.back = m.back /\ m'.linked = m.linked /\ m'.arena = m.arena
  BY <1>1, <1>2, DirtyKeeps
<1>4. ControlTrue' /\ UnwindTrue'
  BY <1>1, <1>3 DEF FlatInv, ControlTrue, UnwindTrue, Bare, Held, Sections
<1> QED
  BY <1>3, <1>4 DEF FlatInv

LEMMA WriteTrue ==
  ASSUME FlatInv, NEW u \in Spots, Write(u)
  PROVE  FlatInv'
<1> DEFINE dirty == m.dirty \cup {m.space[u]}
<1>1. at.phase = "active" /\ m' = [m EXCEPT !.dirty = dirty]
      /\ use' = use /\ at' = at /\ regions' = regions /\ failed' = failed /\ refused' = refused
  BY DEF Write
<1>2. MemoryTrue(m) /\ dirty \in SUBSET Int
  BY LayoutAssumption DEF FlatInv, MemoryTrue, MemoryType
<1> HIDE DEF dirty
<1>3. MemoryTrue(m') /\ m'.back = m.back /\ m'.linked = m.linked /\ m'.arena = m.arena
  BY <1>1, <1>2, DirtyKeeps
<1>4. ControlTrue' /\ UnwindTrue'
  BY <1>1, <1>3 DEF FlatInv, ControlTrue, UnwindTrue, Bare, Held, Sections
<1> QED
  BY <1>3, <1>4 DEF FlatInv

\* The addresses another allocator may take are not the arena's.
LEMMA AllocatorTrue ==
  ASSUME FlatInv, NEW u \in Spots, Allocator(u)
  PROVE  FlatInv'
<1>1. m.space[u] \in {Free, Foreign} /\ m' = [m EXCEPT !.space[u] = IF m.space[u] = Free THEN Foreign ELSE Free]
      /\ use' = use /\ at' = at /\ regions' = regions /\ failed' = failed /\ refused' = refused
  BY DEF Allocator
<1>2. MemoryTrue(m) /\ m \in MemoryType /\ ~m.harm /\ u \in Span(0, Space) /\ AddressTrue(m, u)
  BY LayoutAssumption DEF FlatInv, MemoryTrue
<1>3. ~m.arena
  BY <1>1, <1>2 DEF AddressTrue, Free, Foreign, Reserved
<1>4. m.linked = {}
  BY <1>2, <1>3 DEF MemoryTrue, AliasTrue
<1> DEFINE there == IF m.space[u] = Free THEN Foreign ELSE Free
           space == [m.space EXCEPT ![u] = there]
<1>5. there \in {Free, Foreign} /\ there \in Int
  BY DEF Free, Foreign
<1> HIDE DEF there
<1>6. space \in [Span(0, Space) -> Int] /\ \A v \in Span(0, Space) : space[v] \in {Free, Foreign}
  BY <1>2, <1>3, <1>5 DEF MemoryTrue, MemoryType, AddressTrue
<1>7. m' = [m EXCEPT !.space = space]
  BY <1>1 DEF there
<1> HIDE DEF space
<1>8. /\ m' \in MemoryType /\ m'.arena = m.arena /\ m'.linked = m.linked /\ m'.alias = m.alias /\ m'.space = space
      /\ m'.harm = m.harm /\ m'.back = m.back /\ m'.view = m.view /\ m'.phys = m.phys
  BY ONLY <1>2, <1>6, <1>7 DEF MemoryType
<1>9. MemoryTrue(m')
  <2>1. /\ MemoryTrue(m) /\ m'.linked = {} /\ m.linked = {} /\ ~m'.harm
        /\ \A v \in Span(0, Space) : IF m'.arena THEN m'.space[v] = Reserved ELSE m'.space[v] \in {Free, Foreign}
    BY ONLY <1>2, <1>3, <1>4, <1>6, <1>8
  <2> QED
    BY ONLY <1>8, <2>1, AddressesChange
<1>10. ControlTrue' /\ UnwindTrue'
  BY <1>1, <1>8 DEF FlatInv, ControlTrue, UnwindTrue, Bare, Held, Sections
<1> QED
  BY <1>9, <1>10 DEF FlatInv

\* Nobody else has a layout.
LEMMA FreeStepTrue ==
  ASSUME FlatInv, NEW results, FreeStep(results), \A r \in results : MemoryTrue(r.m)
  PROVE  FlatInv'
<1>1. use = "free" /\ MemoryTrue(m') /\ use' = use /\ at' = at /\ regions' = regions
      /\ failed' = failed /\ refused' = refused
  BY DEF FreeStep
<1> QED
  BY <1>1 DEF FlatInv, ControlTrue, UnwindTrue

LEMMA FreeCallTrue ==
  ASSUME FlatInv, FreeCall
  PROVE  FlatInv'
<1>1. MemoryTrue(m) /\ Calls.offsets \subseteq Nat /\ Calls.froms \subseteq Nat /\ Calls.sizes \subseteq Nat
  BY LayoutAssumption DEF FlatInv
<1>2. CASE FreeStep(Reserve(m))
  BY <1>1, <1>2, ReserveKeeps, FreeStepTrue
<1>3. ASSUME NEW b \in Backings, NEW n \in Calls.sizes, FreeStep(OpenBacking(m, b, n)) PROVE FlatInv'
  BY <1>1, <1>3, OpenKeeps, FreeStepTrue
<1>4. ASSUME NEW a \in Aliases, NEW b \in Backings, NEW o \in Calls.offsets, NEW f \in Calls.froms,
             NEW n \in Calls.sizes, FreeStep(MapAlias(m, a, o, b, f, n))
      PROVE  FlatInv'
  BY <1>1, <1>4, MapKeeps, FreeStepTrue
<1>5. ASSUME NEW a \in Aliases, FreeStep(UnmapAlias(m, a)) PROVE FlatInv'
  BY <1>1, <1>5, UnmapKeeps, FreeStepTrue
<1>6. ASSUME NEW b \in Backings, FreeStep(CloseBacking(m, b)) PROVE FlatInv'
  BY <1>1, <1>6, CloseKeeps, FreeStepTrue
<1>7. CASE FreeStep(CloseArena(m))
  BY <1>1, <1>7, CloseArenaKeeps, FreeStepTrue
<1> QED
  BY <1>2, <1>3, <1>4, <1>5, <1>6, <1>7 DEF FreeCall

\* A step that is refused hands over to ~State.
LEMMA ThrowTrue ==
  ASSUME FlatInv, at.phase \in {"reserve", "open", "map"}, NEW next, Throw(next), MemoryTrue(next),
         next.linked \subseteq DOMAIN regions, \A b \in Backings : next.back[b].physical # None => b \in Sections
  PROVE  FlatInv'
<1>1. m' = next /\ at' = At("unmap", Len(regions)) /\ use' = use /\ regions' = regions /\ failed' = failed
      /\ refused' = refused
  BY DEF Throw
<1>2. Len(regions) \in Nat /\ DOMAIN regions = 1..Len(regions) /\ use = "flat"
  BY DEF FlatInv, ControlTrue, LayoutTrue
<1>3. ControlTrue'
  BY <1>1, <1>2 DEF FlatInv, ControlTrue, At
<1>4. UnwindTrue'
  BY <1>1, <1>2 DEF FlatInv, UnwindTrue, At, Held, Sections
<1> QED
  BY <1>1, <1>3, <1>4 DEF FlatInv

LEMMA ReserveArenaTrue ==
  ASSUME FlatInv, ReserveArena
  PROVE  FlatInv'
<1>1. PICK r \in Reserve(m) :
         IF r.rc # "ok" THEN Throw(r.m) ELSE Proceed(r.m, "open", 1) /\ UNCHANGED fresh
  BY DEF ReserveArena
<1>2. at.phase = "reserve" /\ MemoryTrue(m) /\ Bare /\ use = "flat"
  BY DEF ReserveArena, FlatInv, UnwindTrue, ControlTrue
<1>3. MemoryTrue(r.m) /\ r.m.back = m.back /\ r.m.linked = m.linked
  BY <1>2, ReserveKeeps
<1>4. CASE r.rc # "ok"
  <2>1. r.m.linked \subseteq DOMAIN regions /\ \A b \in Backings : r.m.back[b].physical # None => b \in Sections
    BY <1>2, <1>3 DEF Bare, Held
  <2> QED
    BY <1>1, <1>2, <1>3, <1>4, <2>1, ThrowTrue
<1>5. CASE r.rc = "ok"
  <2>1. m' = r.m /\ at' = At("open", 1) /\ use' = use /\ regions' = regions /\ failed' = failed /\ refused' = refused
    BY <1>1, <1>5 DEF Proceed
  <2>2. ControlTrue' /\ UnwindTrue'
    BY <1>2, <1>3, <2>1 DEF FlatInv, ControlTrue, UnwindTrue, At, Bare, Held, Sections
  <2> QED
    BY <1>3, <2>1, <2>2 DEF FlatInv
<1> QED
  BY <1>4, <1>5

LEMMA OpenSectionTrue ==
  ASSUME FlatInv, OpenSection
  PROVE  FlatInv'
<1> DEFINE bytes == Rounded(SectionBytes(regions, at.i), Granularity)
<1>1. PICK r \in OpenBacking(m, at.i, bytes) :
         IF r.rc # "ok" THEN Throw(r.m) ELSE Proceed(Zeroed(r.m, at.i), "open", at.i + 1) /\ UNCHANGED fresh
  BY DEF OpenSection
<1>2. at.phase = "open" /\ at.i \in Sections /\ MemoryTrue(m) /\ LayoutTrue(regions) /\ use = "flat"
  BY DEF OpenSection, FlatInv, ControlTrue
<1>3. at.i \in Backings /\ bytes \in Nat
  BY <1>2, SectionSize DEF LayoutTrue, Sections
<1> HIDE DEF bytes
<1>4. MemoryTrue(r.m) /\ r.m.linked = m.linked /\ \A c \in Backings : c # at.i => r.m.back[c] = m.back[c]
  BY <1>2, <1>3, OpenKeeps
<1>5. m.linked = {} /\ r.m.linked \subseteq DOMAIN regions /\ \A b \in Backings : r.m.back[b].physical # None => b \in Sections
  BY <1>2, <1>4 DEF FlatInv, UnwindTrue, Held
<1>6. CASE r.rc # "ok"
  BY <1>1, <1>2, <1>4, <1>5, <1>6, ThrowTrue
<1>7. CASE r.rc = "ok"
  <2> DEFINE dirty == r.m.dirty \ r.m.view[at.i]
  <2>1. m' = [r.m EXCEPT !.dirty = dirty] /\ at' = At("open", at.i + 1) /\ use' = use /\ regions' = regions
        /\ failed' = failed /\ refused' = refused
    BY <1>1, <1>7 DEF Proceed, Zeroed
  <2>2. dirty \in SUBSET Int
    BY <1>4 DEF MemoryTrue, MemoryType
  <2> HIDE DEF dirty
  <2>3. MemoryTrue(m') /\ m'.back = r.m.back /\ m'.linked = r.m.linked
    BY <1>4, <2>1, <2>2, DirtyKeeps
  <2>4. ControlTrue'
    BY <1>2, <2>1 DEF FlatInv, ControlTrue, At
  <2>5. UnwindTrue'
    BY <1>4, <1>5, <2>1, <2>3 DEF FlatInv, UnwindTrue, At, Held, Sections
  <2> QED
    BY <2>3, <2>4, <2>5 DEF FlatInv
<1> QED
  BY <1>6, <1>7

\* The regions' aliases come next, then the use.
LEMMA PhaseTrue ==
  ASSUME FlatInv, SectionsOpen \/ Activate
  PROVE  FlatInv'
<1>1. /\ m' = m /\ use' = use /\ regions' = regions /\ failed' = failed /\ refused' = refused
      /\ \/ at.phase = "open" /\ at' = At("map", 1)
         \/ at.phase = "map" /\ at' = At("active", 0)
  BY DEF SectionsOpen, Activate, Proceed
<1>2. ControlTrue' /\ UnwindTrue'
  BY <1>1 DEF FlatInv, ControlTrue, UnwindTrue, At, Held, Sections
<1> QED
  BY <1>1, <1>2 DEF FlatInv

LEMMA MapRegionTrue ==
  ASSUME FlatInv, MapRegion
  PROVE  FlatInv'
<1> DEFINE region == regions[at.i]
           bytes == Rounded(region.size, Granularity)
           section == SectionOf(regions, at.i)
<1>1. /\ at.phase = "map" /\ at.i \in Nat /\ at.i # 0 /\ at.i <= Len(regions) /\ MemoryTrue(m) /\ LayoutTrue(regions)
      /\ use = "flat"
  BY DEF MapRegion, FlatInv, ControlTrue
<1>2. at.i \in DOMAIN regions /\ at.i \in Aliases /\ DOMAIN regions = 1..Len(regions)
  BY <1>1 DEF LayoutTrue
<1>3. region.base \in Nat /\ region.size \in Nat /\ Offset(region) \in Nat /\ bytes \in Nat
  BY <1>1, <1>2, OffsetOf
<1>4. m.linked \subseteq DOMAIN regions /\ Held \subseteq Sections
  BY <1>1 DEF FlatInv, UnwindTrue
<1>5. CASE region.size = 0
  <2>1. m' = m /\ at' = At("map", at.i + 1) /\ use' = use /\ regions' = regions /\ failed' = failed /\ refused' = refused
    BY <1>5 DEF MapRegion, Proceed
  <2>2. ControlTrue' /\ UnwindTrue'
    BY <1>1, <1>4, <2>1 DEF FlatInv, ControlTrue, UnwindTrue, At, Held, Sections
  <2> QED
    BY <1>1, <2>1, <2>2 DEF FlatInv
<1>6. CASE region.size # 0
  <2>1. section \in Backings
    <3>1. at.i \in Present(regions)
      BY <1>2, <1>3, <1>6 DEF Present
    <3> QED
      BY <1>1, <3>1, SectionsNumbered DEF LayoutTrue
  <2>2. PICK r \in MapAlias(m, at.i, region.base, section, Offset(region), bytes) :
           IF r.rc # "ok" THEN Throw(r.m) ELSE Proceed(r.m, "map", at.i + 1) /\ UNCHANGED fresh
    BY <1>6 DEF MapRegion
  <2> DEFINE base == region.base
             from == Offset(region)
  <2> HIDE DEF section, bytes, base, from
  <2>3. /\ MemoryTrue(r.m) /\ \A c \in Backings : r.m.back[c].physical = m.back[c].physical
        /\ r.m.linked \subseteq m.linked \cup {at.i}
    <3>1. base \in Nat /\ from \in Nat /\ r \in MapAlias(m, at.i, base, section, from, bytes)
      BY <1>3, <2>2 DEF base, from
    <3> QED
      BY ONLY <1>1, <1>2, <1>3, <2>1, <3>1, MapKeeps
  <2>4. r.m.linked \subseteq DOMAIN regions /\ \A b \in Backings : r.m.back[b].physical # None => b \in Sections
    BY <1>2, <1>4, <2>3 DEF Held
  <2>5. CASE r.rc # "ok"
    BY <1>1, <2>2, <2>3, <2>4, <2>5, ThrowTrue
  <2>6. CASE r.rc = "ok"
    <3>1. m' = r.m /\ at' = At("map", at.i + 1) /\ use' = use /\ regions' = regions /\ failed' = failed /\ refused' = refused
      BY <2>2, <2>6 DEF Proceed
    <3>2. ControlTrue'
      BY <1>1, <3>1 DEF FlatInv, ControlTrue, At
    <3>3. UnwindTrue'
      BY <2>4, <3>1 DEF FlatInv, UnwindTrue, At, Held, Sections
    <3> QED
      BY <2>3, <3>1, <3>2, <3>3 DEF FlatInv
  <2> QED
    BY <2>5, <2>6
<1> QED
  BY <1>5, <1>6

\* A refusal of the kernel is what makes ~State fail.
LEMMA UnwindStep ==
  ASSUME FlatInv, NEW results, NEW next, Unwind(results, next)
  PROVE  \E r \in results :
            /\ m' = r.m /\ at' = next /\ use' = use /\ regions' = regions
            /\ failed' = (failed \/ r.rc # "ok") /\ refused' = (refused \/ r.rc = "error")
  BY DEF Unwind

LEMMA UnmapRegionTrue ==
  ASSUME FlatInv, UnmapRegion
  PROVE  FlatInv'
<1>1. PICK r \in UnmapAlias(m, at.i) :
         /\ m' = r.m /\ at' = At("unmap", at.i - 1) /\ use' = use /\ regions' = regions
         /\ failed' = (failed \/ r.rc # "ok") /\ refused' = (refused \/ r.rc = "error")
  BY UnwindStep DEF UnmapRegion
<1>2. /\ at.phase = "unmap" /\ at.i \in Nat /\ at.i > 0 /\ at.i <= Len(regions) /\ MemoryTrue(m) /\ LayoutTrue(regions)
      /\ use = "flat" /\ (failed \/ m.linked \subseteq 1..at.i) /\ Held \subseteq Sections /\ (failed => refused)
  BY DEF UnmapRegion, FlatInv, ControlTrue, UnwindTrue
<1>3. at.i \in Aliases
  BY <1>2 DEF LayoutTrue
<1>4. /\ MemoryTrue(r.m) /\ \A c \in Backings : r.m.back[c].physical = m.back[c].physical
      /\ r.m.linked \subseteq m.linked /\ r.rc \in {"ok", "error"}
      /\ r.rc = "ok" => at.i \notin r.m.linked
  BY <1>2, <1>3, UnmapKeeps
<1>5. ControlTrue'
  BY <1>1, <1>2 DEF FlatInv, ControlTrue, At
<1>6. Held' \subseteq Sections'
  BY <1>1, <1>2, <1>4 DEF Held, Sections
<1>7. failed' \/ m'.linked \subseteq 1..(at.i - 1)
  <2> SUFFICES ASSUME ~failed' PROVE m'.linked \subseteq 1..(at.i - 1)
    OBVIOUS
  <2>1. r.m.linked \subseteq 1..at.i /\ at.i \notin r.m.linked
    BY <1>1, <1>2, <1>4
  <2>2. \A c \in 1..at.i : c # at.i => c \in 1..(at.i - 1)
    BY <1>2
  <2> QED
    BY <1>1, <2>1, <2>2
<1>8. failed' => refused'
  BY <1>1, <1>2, <1>4
<1>9. UnwindTrue'
  BY <1>1, <1>6, <1>7, <1>8 DEF UnwindTrue, At
<1> QED
  BY <1>1, <1>4, <1>5, <1>9 DEF FlatInv

LEMMA AliasesGoneTrue ==
  ASSUME FlatInv, AliasesGone
  PROVE  FlatInv'
<1>1. /\ m' = m /\ at' = At("close", SectionCount(regions)) /\ use' = use /\ regions' = regions /\ failed' = failed
      /\ refused' = refused /\ at.phase = "unmap" /\ at.i = 0
  BY DEF AliasesGone, Proceed
<1>2. LayoutTrue(regions) /\ SectionCount(regions) \in Nat
  BY SectionsNumbered DEF FlatInv, ControlTrue
<1>3. ControlTrue' /\ UnwindTrue'
  BY <1>1, <1>2 DEF FlatInv, ControlTrue, UnwindTrue, At, Held, Sections
<1> QED
  BY <1>1, <1>3 DEF FlatInv

\* No backing is busy: the aliases are gone.
LEMMA CloseSectionTrue ==
  ASSUME FlatInv, CloseSection
  PROVE  FlatInv'
<1>1. PICK r \in CloseBacking(m, at.i) :
         /\ m' = r.m /\ at' = At("close", at.i - 1) /\ use' = use /\ regions' = regions
         /\ failed' = (failed \/ r.rc # "ok") /\ refused' = (refused \/ r.rc = "error")
  BY UnwindStep DEF CloseSection
<1>2. /\ at.phase = "close" /\ at.i \in Nat /\ at.i > 0 /\ at.i <= SectionCount(regions) /\ MemoryTrue(m)
      /\ LayoutTrue(regions) /\ SectionCount(regions) \in Nat
      /\ use = "flat" /\ (failed \/ (m.linked = {} /\ Held \subseteq 1..at.i)) /\ (failed => refused)
  BY SectionsNumbered DEF CloseSection, FlatInv, ControlTrue, UnwindTrue
<1>3. at.i \in Backings
  BY <1>2 DEF LayoutTrue
<1>4. /\ MemoryTrue(r.m) /\ r.m.linked = m.linked /\ \A c \in Backings : c # at.i => r.m.back[c] = m.back[c]
      /\ r.rc \in {"ok", "busy", "error"}
      /\ r.rc = "ok" => r.m.back[at.i].physical = None
      /\ r.rc = "busy" => m.linked # {}
  BY <1>2, <1>3, CloseKeeps
<1>5. ControlTrue'
  BY <1>1, <1>2 DEF FlatInv, ControlTrue, At
<1>6. failed' \/ (m'.linked = {} /\ Held' \subseteq 1..(at.i - 1))
  <2> SUFFICES ASSUME ~failed' PROVE m'.linked = {} /\ Held' \subseteq 1..(at.i - 1)
    OBVIOUS
  <2>1. ~failed /\ r.rc = "ok" /\ m.linked = {} /\ Held \subseteq 1..at.i
    BY <1>1, <1>2
  <2>2. \A c \in Held' : c \in Held /\ c # at.i
    BY <1>1, <1>4, <2>1 DEF Held
  <2>3. \A c \in 1..at.i : c # at.i => c \in 1..(at.i - 1)
    BY <1>2
  <2> QED
    BY <1>1, <1>4, <2>1, <2>2, <2>3
<1>7. failed' => refused'
  BY <1>1, <1>2, <1>4
<1>8. UnwindTrue'
  BY <1>1, <1>6, <1>7 DEF UnwindTrue, At
<1> QED
  BY <1>1, <1>4, <1>5, <1>8 DEF FlatInv

LEMMA CloseSpaceTrue ==
  ASSUME FlatInv, CloseSpace
  PROVE  FlatInv'
<1>1. PICK r \in CloseArena(m) :
         /\ m' = r.m /\ at' = At("closed", 0) /\ use' = use /\ regions' = regions
         /\ failed' = (failed \/ r.rc # "ok") /\ refused' = (refused \/ r.rc = "error")
  BY UnwindStep DEF CloseSpace
<1>2. /\ at.phase = "close" /\ at.i = 0 /\ MemoryTrue(m) /\ use = "flat"
      /\ (failed \/ (m.linked = {} /\ Held \subseteq 1..at.i)) /\ (failed => refused)
  BY DEF CloseSpace, FlatInv, ControlTrue, UnwindTrue
<1>3. /\ MemoryTrue(r.m) /\ r.m.back = m.back /\ r.m.linked = m.linked /\ r.rc \in {"ok", "busy", "error"}
      /\ r.rc = "busy" => m.linked # {}
      /\ r.rc = "ok" => ~r.m.arena
  BY <1>2, CloseArenaKeeps
<1>4. ControlTrue'
  BY <1>1, <1>2 DEF FlatInv, ControlTrue, At
<1>5. failed' \/ Bare'
  <2> SUFFICES ASSUME ~failed' PROVE Bare'
    OBVIOUS
  <2>1. r.rc = "ok" /\ m.linked = {} /\ Held \subseteq 1..0
    BY <1>1, <1>2
  <2>2. Held = {}
    BY <2>1
  <2>3. Held' = Held
    BY <1>1, <1>3 DEF Held
  <2> QED
    BY <1>1, <1>3, <2>1, <2>2, <2>3 DEF Bare
<1>6. failed' => refused'
  BY <1>1, <1>2, <1>3
<1>7. UnwindTrue'
  BY <1>1, <1>5, <1>6 DEF UnwindTrue, At
<1> QED
  BY <1>1, <1>3, <1>4, <1>7 DEF FlatInv

LEMMA ClosedTrue ==
  ASSUME FlatInv, Closed
  PROVE  FlatInv'
<1>1. /\ at.phase = "closed" /\ at' = At(IF failed THEN "terminated" ELSE "none", 0)
      /\ regions' = (IF failed THEN regions ELSE <<>>)
      /\ m' = m /\ use' = use /\ failed' = failed /\ refused' = refused
  BY DEF Closed
<1>2. use = "flat" /\ (failed \/ Bare)
  BY <1>1 DEF FlatInv, ControlTrue, UnwindTrue
<1>3. ControlTrue'
  BY <1>1, <1>2, NoLayout DEF FlatInv, ControlTrue, At
<1>4. UnwindTrue'
  <2>1. CASE failed
    BY <1>1, <2>1 DEF FlatInv, UnwindTrue, At
  <2>2. CASE ~failed
    BY <1>1, <1>2, <2>2 DEF FlatInv, UnwindTrue, At, Bare, Held
  <2> QED
    BY <2>1, <2>2
<1> QED
  BY <1>1, <1>3, <1>4 DEF FlatInv

-----------------------------------------------------------------------------
\* Whatever is asked for and whatever the kernel refuses, handles, aliases and
\* addresses stay in step, and ~State finds what Initialize had taken
\* (guest_memory_ps5.cpp:30-175, guest_flat_memory_ps5.cpp:40-133).
THEOREM FlatInvariance == Spec => []FlatInv
<1>1. Init => FlatInv
  BY InitTrue
<1>2. FlatInv /\ [Next]_vars => FlatInv'
  <2> SUFFICES ASSUME FlatInv, [Next]_vars PROVE FlatInv'
    OBVIOUS
  <2>1. CASE UNCHANGED vars
    BY <2>1 DEF vars, FlatInv, ControlTrue, UnwindTrue, Bare, Held, Sections
  <2>2. CASE \E layout \in Layouts : Initialize(layout)
    BY <2>2, InitializeTrue
  <2>3. CASE InitializeAgain
    BY <2>3, InitializeAgainTrue
  <2>4. CASE ReserveArena
    BY <2>4, ReserveArenaTrue
  <2>5. CASE OpenSection
    BY <2>5, OpenSectionTrue
  <2>6. CASE SectionsOpen \/ Activate
    BY <2>6, PhaseTrue
  <2>7. CASE MapRegion
    BY <2>7, MapRegionTrue
  <2>8. CASE UnmapRegion
    BY <2>8, UnmapRegionTrue
  <2>9. CASE AliasesGone
    BY <2>9, AliasesGoneTrue
  <2>10. CASE CloseSection
    BY <2>10, CloseSectionTrue
  <2>11. CASE CloseSpace
    BY <2>11, CloseSpaceTrue
  <2>12. CASE Closed
    BY <2>12, ClosedTrue
  <2>13. ASSUME NEW u \in Spots, Write(u) \/ Allocator(u) PROVE FlatInv'
    BY <2>13, WriteTrue, AllocatorTrue
  <2>14. CASE FreeCall
    BY <2>14, FreeCallTrue
  <2> QED
    BY <2>1, <2>2, <2>3, <2>4, <2>5, <2>6, <2>7, <2>8, <2>9, <2>10, <2>11, <2>12, <2>13, <2>14 DEF Next
<1> QED
  BY <1>1, <1>2, PTL DEF Spec

LEMMA MemoryServes ==
  ASSUME MemoryTrue(m)
  PROVE  NothingDangles
<1>1. m \in MemoryType /\ DOMAIN m.space = Span(0, Space) /\ ~m.harm
  BY DEF MemoryTrue, MemoryType
<1>2. \A u \in Span(0, Space) : m.space[u] >= 0 => \E a \in m.linked : u \in Reach(m, a)
  BY DEF MemoryTrue, AddressTrue
<1>3. \A u \in Span(0, Space) : m.space[u] \notin {Free, Reserved, Foreign} => m.space[u] >= 0
  BY DEF MemoryTrue, AddressTrue
<1>4. \A a \in m.linked : /\ a \in Aliases /\ m.alias[a].backing \in Backings
                          /\ \A u \in Reach(m, a) :
                                /\ m.space[u] \in OwnedUnits(m, m.alias[a].backing)
                                /\ m.space[u] - u = m.space[m.alias[a].address] - m.alias[a].address
  BY <1>1 DEF MemoryTrue, AliasTrue, MemoryType
<1>5. m.phys = UNION {OwnedUnits(m, b) : b \in Backings}
  BY DEF MemoryTrue
<1>6. Shown(m) \subseteq m.phys
  BY <1>1, <1>2, <1>3, <1>4, <1>5 DEF Shown
<1>7. \A b \in Backings :
         /\ m.view[b] = IF m.back[b].host THEN OwnedUnits(m, b) ELSE {}
         /\ \A c \in Backings \ {b} : OwnedUnits(m, b) \cap OwnedUnits(m, c) = {}
         /\ m.back[b].aliases = Cardinality({a \in Aliases : m.alias[a].backing = b})
  BY DEF MemoryTrue, BackingTrue, Users
<1>8. \A u \in DOMAIN m.space :
         m.space[u] >= 0 =>
            \E a \in Aliases :
               LET alias == m.alias[a]
               IN  /\ u \in Span(alias.address, alias.size)
                   /\ m.space[u] \in OwnedUnits(m, alias.backing)
                   /\ m.space[u] - u = m.space[alias.address] - alias.address
  BY <1>1, <1>2, <1>4 DEF Reach
<1>9. ForeignUntouched
  BY <1>1 DEF ForeignUntouched, MemoryTrue, AddressTrue, Free, Reserved, Foreign
<1> QED
  BY <1>5, <1>6, <1>7, <1>8, <1>9 DEF NothingDangles, HandlesTrue

\* Whichever kernel calls fail, in an orderly use or in calls in any order, no
\* address shows memory that was released or another handle's, and no handle
\* loses sight of what the kernel still holds (guest_memory_ps5.cpp:30-100).
THEOREM HandlesSafe == Spec => []NothingDangles
<1>1. FlatInv => NothingDangles
  BY MemoryServes DEF FlatInv
<1> QED
  BY <1>1, FlatInvariance, PTL

\* An Initialize that throws has left nothing behind, and only a refusal of the
\* kernel ends the process (guest_flat_memory_ps5.cpp:40-51).
THEOREM UnwindComplete == Spec => []FailureLeavesNothing
<1>1. FlatInv => FailureLeavesNothing
  <2> SUFFICES ASSUME FlatInv PROVE FailureLeavesNothing
    OBVIOUS
  <2>1. ASSUME use = "flat", at.phase = "none"
        PROVE  m.phys = {} /\ ~m.arena /\ \A u \in DOMAIN m.space : m.space[u] \in {Free, Foreign}
    <3>1. Bare /\ MemoryTrue(m)
      BY <2>1 DEF FlatInv, UnwindTrue
    <3>2. \A b \in Backings : m.back[b].physical = None /\ m.back[b].size = 0
      BY <3>1 DEF Bare, Held, MemoryTrue, BackingTrue
    <3>3. \A b \in Backings : OwnedUnits(m, b) = {}
      BY <3>2 DEF OwnedUnits, Span, None
    <3> QED
      BY <3>1, <3>3 DEF Bare, MemoryTrue, MemoryType, AddressTrue
  <2> QED
    BY <2>1 DEF FailureLeavesNothing, FlatInv, UnwindTrue
<1> QED
  BY <1>1, FlatInvariance, PTL

\* The guest memory keeps its promises in use and when it fails
\* (guest_memory_ps5.cpp, guest_flat_memory_ps5.cpp).
THEOREM MemorySafe == Spec => []MemorySound
<1>1. NothingDangles /\ FailureLeavesNothing => MemorySound
  BY DEF MemorySound
<1> QED
  BY <1>1, HandlesSafe, UnwindComplete, PTL

-----------------------------------------------------------------------------
(* RAM as it is served.                                                     *)

\* The alias of region j begins at what the section has at the region's offset.
RegionServed(j) ==
    LET region == regions[j]
        section == SectionOf(regions, j)
    IN  /\ m.alias[j] = AliasTo(region.base, Rounded(region.size, Granularity), section)
        /\ m.space[region.base] = m.back[section].physical + Offset(region)

\* Zero at the host view, and so at every alias.
Clean(k) == \A b \in 1..k : m.view[b] \cap m.dirty = {}

\* How far Initialize is; NothingDangles says the rest of each alias.
ServedTrue ==
    /\ at.phase \in {"reserve", "open", "map", "active"} => regions \in Layouts /\ Valid(regions)
    /\ at.phase \in {"open", "map", "active"} => m.arena
    /\ at.phase = "open" => at.i \in Nat \ {0} /\ at.i - 1 <= SectionCount(regions) /\ Clean(at.i - 1)
    /\ at.phase = "map" => Clean(SectionCount(regions)) /\ m.linked = {j \in Present(regions) : j < at.i}
    /\ at.phase = "active" => (fresh => Clean(SectionCount(regions))) /\ m.linked = Present(regions)
    /\ at.phase \in {"map", "active"} => \A j \in m.linked : RegionServed(j)

LEMMA ServedInit == Init => ServedTrue
  BY DEF Init, At, ServedTrue

\* Elsewhere nothing is shown.
LEMMA ServedElsewhere ==
  ASSUME at'.phase \notin {"reserve", "open", "map", "active"}
  PROVE  ServedTrue'
  BY DEF ServedTrue

LEMMA ThrowServed ==
  ASSUME NEW next, Throw(next)
  PROVE  ServedTrue'
<1>1. at'.phase = "unmap"
  BY DEF Throw, At
<1> QED
  BY <1>1, ServedElsewhere

LEMMA InitializeServed ==
  ASSUME NEW layout \in Layouts, Initialize(layout)
  PROVE  ServedTrue'
<1>1. Valid(layout) /\ regions' = layout /\ at'.phase = "reserve"
  BY DEF Initialize, At
<1> QED
  BY <1>1 DEF ServedTrue, Valid, Extent, Rounded, Span

LEMMA ReserveArenaServed ==
  ASSUME FlatInv, ServedTrue, ReserveArena
  PROVE  ServedTrue'
<1>1. PICK r \in Reserve(m) :
         IF r.rc # "ok" THEN Throw(r.m) ELSE Proceed(r.m, "open", 1) /\ UNCHANGED fresh
  BY DEF ReserveArena
<1>2. MemoryTrue(m)
  BY DEF FlatInv
<1>3. r.rc = "ok" => r.m.arena
  BY <1>2, ReserveKeeps
<1>4. CASE r.rc # "ok"
  BY <1>1, <1>4, ThrowServed
<1>5. CASE r.rc = "ok"
  <2>1. m'.arena /\ at'.phase = "open" /\ at'.i = 1 /\ regions' = regions
    BY <1>1, <1>3, <1>5 DEF Proceed, At
  <2>2. at.phase = "reserve" /\ SectionCount(regions) \in Nat
    BY SectionsNumbered DEF ReserveArena, FlatInv, ControlTrue
  <2> QED
    BY <2>1, <2>2 DEF ServedTrue, Clean
<1> QED
  BY <1>4, <1>5

\* A section is zeroed as it opens, and opening it leaves the others as they are.
LEMMA OpenSectionServed ==
  ASSUME FlatInv, ServedTrue, OpenSection
  PROVE  ServedTrue'
<1> DEFINE bytes == Rounded(SectionBytes(regions, at.i), Granularity)
<1>1. PICK r \in OpenBacking(m, at.i, bytes) :
         IF r.rc # "ok" THEN Throw(r.m) ELSE Proceed(Zeroed(r.m, at.i), "open", at.i + 1) /\ UNCHANGED fresh
  BY DEF OpenSection
<1>2. at.phase = "open" /\ at.i \in Sections /\ MemoryTrue(m) /\ LayoutTrue(regions)
  BY DEF OpenSection, FlatInv, ControlTrue
<1>3. at.i \in Backings /\ bytes \in Nat /\ SectionCount(regions) \in Nat /\ Sections \subseteq Backings
  BY <1>2, SectionSize, SectionsNumbered DEF LayoutTrue, Sections
<1> HIDE DEF bytes
<1>4. /\ MemoryTrue(r.m) /\ r.m.arena = m.arena
      /\ r.rc = "ok" => r.m.dirty = m.dirty /\ \A c \in Backings : c # at.i => r.m.view[c] = m.view[c]
  BY <1>2, <1>3, OpenKeeps
<1>5. CASE r.rc # "ok"
  BY <1>1, <1>5, ThrowServed
<1>6. CASE r.rc = "ok"
  <2> DEFINE dirty == r.m.dirty \ r.m.view[at.i]
  <2>1. m' = [r.m EXCEPT !.dirty = dirty] /\ at'.phase = "open" /\ at'.i = at.i + 1 /\ regions' = regions
    BY <1>1, <1>6 DEF Proceed, Zeroed, At
  <2>2. dirty \in SUBSET Int
    BY <1>4 DEF MemoryTrue, MemoryType
  <2>3. m'.arena = m.arena /\ m'.view = r.m.view /\ m'.dirty = m.dirty \ r.m.view[at.i]
    <3>1. m'.arena = r.m.arena /\ m'.view = r.m.view /\ m'.dirty = dirty
      <4> HIDE DEF dirty
      <4> QED
        BY ONLY <1>4, <2>1, <2>2, DirtyKeeps
    <3> QED
      BY <1>4, <1>6, <3>1
  <2>4. Clean(at.i - 1) /\ at.i \in Nat \ {0} /\ at.i <= SectionCount(regions)
    BY <1>2, <1>3 DEF ServedTrue, Sections
  <2>5. \A b \in 1..at.i : m'.view[b] \cap m'.dirty = {}
    <3> TAKE b \in 1..at.i
    <3>1. b \in Backings
      BY <1>3, <2>4 DEF Sections
    <3>2. CASE b = at.i
      BY <2>3, <3>2
    <3>3. CASE b # at.i
      <4>1. b \in 1..(at.i - 1)
        BY <2>4, <3>3
      <4> QED
        BY <1>4, <1>6, <2>3, <2>4, <3>1, <3>3, <4>1 DEF Clean
    <3> QED
      BY <3>2, <3>3
  <2>6. at'.i - 1 = at.i /\ at'.i \in Nat \ {0}
    BY <2>1, <2>4
  <2> QED
    BY <1>2, <2>1, <2>3, <2>4, <2>5, <2>6 DEF ServedTrue, Clean
<1> QED
  BY <1>5, <1>6

LEMMA SectionsOpenServed ==
  ASSUME FlatInv, ServedTrue, SectionsOpen
  PROVE  ServedTrue'
<1>1. /\ at.phase = "open" /\ at.i > SectionCount(regions) /\ m' = m /\ regions' = regions
      /\ at'.phase = "map" /\ at'.i = 1
  BY DEF SectionsOpen, Proceed, At
<1>2. m.linked = {} /\ LayoutTrue(regions) /\ SectionCount(regions) \in Nat
  BY <1>1, SectionsNumbered DEF FlatInv, UnwindTrue, ControlTrue
<1>3. at.i - 1 = SectionCount(regions)
  BY <1>1, <1>2 DEF ServedTrue
<1>4. {j \in Present(regions) : j < 1} = {}
  BY <1>2 DEF Present, LayoutTrue
<1> QED
  BY <1>1, <1>2, <1>3, <1>4 DEF ServedTrue, Clean, RegionServed

LEMMA ActivateServed ==
  ASSUME FlatInv, ServedTrue, Activate
  PROVE  ServedTrue'
<1>1. /\ at.phase = "map" /\ at.i > Len(regions) /\ at.i \in Nat /\ m' = m /\ regions' = regions
      /\ at'.phase = "active" /\ LayoutTrue(regions)
  BY DEF Activate, Proceed, At, FlatInv, ControlTrue
<1>2. {j \in Present(regions) : j < at.i} = Present(regions)
  BY <1>1 DEF Present, LayoutTrue
<1> QED
  BY <1>1, <1>2 DEF ServedTrue, Clean, RegionServed

\* The new alias is apart from the others, so they still show what they did.
LEMMA MapRegionServed ==
  ASSUME FlatInv, FlatInv', ServedTrue, MapRegion
  PROVE  ServedTrue'
<1> DEFINE i == at.i
           base == regions[i].base
           bytes == Rounded(regions[i].size, Granularity)
           section == SectionOf(regions, i)
           from == Offset(regions[i])
<1>1. /\ at.phase = "map" /\ i \in Nat /\ i # 0 /\ i <= Len(regions) /\ MemoryTrue(m) /\ LayoutTrue(regions)
  BY DEF MapRegion, FlatInv, ControlTrue
<1>2. i \in DOMAIN regions /\ i \in Aliases /\ DOMAIN regions = 1..Len(regions) /\ Len(regions) \in Nat
  BY <1>1 DEF LayoutTrue
<1>3. base \in Nat /\ regions[i].size \in Nat /\ from \in Nat /\ bytes \in Nat
  BY <1>1, <1>2, OffsetOf
<1>4. CASE regions[i].size = 0
  <2>1. m' = m /\ at'.phase = "map" /\ at'.i = i + 1 /\ regions' = regions
    BY <1>4 DEF MapRegion, Proceed, At
  <2>2. {j \in Present(regions) : j < i + 1} = {j \in Present(regions) : j < i}
    BY <1>2, <1>4 DEF Present
  <2> QED
    BY <1>1, <2>1, <2>2 DEF ServedTrue, Clean, RegionServed
<1>5. CASE regions[i].size # 0
  <2>1. i \in Present(regions) /\ section \in Backings
    <3>1. i \in Present(regions)
      BY <1>2, <1>3, <1>5 DEF Present
    <3> QED
      BY <1>1, <3>1, SectionsNumbered DEF LayoutTrue
  <2>2. PICK r \in MapAlias(m, i, base, section, from, bytes) :
           IF r.rc # "ok" THEN Throw(r.m) ELSE Proceed(r.m, "map", i + 1) /\ UNCHANGED fresh
    BY <1>5 DEF MapRegion
  <2>3. CASE r.rc # "ok"
    BY <2>2, <2>3, ThrowServed
  <2>4. CASE r.rc = "ok"
    <3>1. m' = r.m /\ at'.phase = "map" /\ at'.i = i + 1 /\ regions' = regions
      BY <2>2, <2>4 DEF Proceed, At
    <3>2. /\ Shows(m, m', i, section, base, from, bytes) /\ m'.arena = m.arena
          /\ \A c \in Backings : m'.back[c].physical = m.back[c].physical
      <4> HIDE DEF i, base, bytes, section, from
      <4>1. /\ r.rc = "ok" => Shows(m, r.m, i, section, base, from, bytes)
            /\ r.m.arena = m.arena /\ \A c \in Backings : r.m.back[c].physical = m.back[c].physical
        <5>1. r \in MapAlias(m, i, base, section, from, bytes)
          BY <2>2
        <5>2. MemoryTrue(m) /\ i \in Aliases /\ base \in Nat /\ from \in Nat /\ bytes \in Nat
          BY <1>1, <1>2, <1>3
        <5> QED
          BY ONLY <2>1, <5>1, <5>2, MapKeeps
      <4> QED
        BY <2>4, <3>1, <4>1
    <3>3. MemoryTrue(m') /\ m \in MemoryType
      BY <1>1 DEF FlatInv, MemoryTrue
    <3>4. Present(regions) \subseteq DOMAIN regions /\ m.linked = {j \in Present(regions) : j < i} /\ i \notin m.linked
      BY <1>1 DEF ServedTrue, Present
    <3>5. m'.linked = {j \in Present(regions) : j < i + 1}
      BY <1>2, <2>1, <3>2, <3>4 DEF Shows
    <3>6. ASSUME NEW j \in Nat, j = i PROVE RegionServed(j)'
      <4>1. m'.alias[i] = AliasTo(base, bytes, section) /\ m'.space[base] = m'.back[section].physical + from
        BY <1>2, <2>1, <3>2, <3>3 DEF Shows, MemoryType
      <4> QED
        BY <3>1, <3>6, <4>1 DEF RegionServed
    <3>7. ASSUME NEW j \in m.linked PROVE RegionServed(j)'
      <4> DEFINE there == regions[j].base
                 other == SectionOf(regions, j)
      <4>1. /\ j # i /\ j \in m'.linked /\ i \in m'.linked /\ j \in DOMAIN regions /\ j \in Present(regions)
            /\ j \in Aliases /\ other \in Backings
        BY <1>1, <2>1, <3>2, <3>4, SectionsNumbered DEF Shows, LayoutTrue
      <4>2. m.alias[j] = AliasTo(there, Rounded(regions[j].size, Granularity), other)
            /\ m.space[there] = m.back[other].physical + Offset(regions[j])
        BY <1>1 DEF ServedTrue, RegionServed
      <4>3. m'.alias[j] = m.alias[j] /\ m'.alias[i] = AliasTo(base, bytes, section)
        BY <1>2, <3>2, <3>3, <4>1 DEF Shows, MemoryType
      <4>4. /\ m'.alias[j].address \in Nat /\ m'.alias[j].size > 0 /\ m'.alias[j].address + m'.alias[j].size <= Space
            /\ Reach(m', j) \cap Reach(m', i) = {}
        BY <3>3, <4>1 DEF MemoryTrue, AliasTrue
      <4>5. m'.alias[j].address = there /\ m'.alias[j].size = Rounded(regions[j].size, Granularity)
            /\ Reach(m', i) = Span(base, bytes)
        BY <4>2, <4>3 DEF AliasTo, Reach
      <4>6. Rounded(regions[j].size, Granularity) \in Nat
        BY <1>1, <4>1, OffsetOf
      <4>7. there \in Span(0, Space) /\ there \in Reach(m', j)
        BY <4>4, <4>5, <4>6, MemoryAssumption DEF Reach, Span
      <4>8. m'.space[there] = m.space[there]
        BY <3>2, <4>4, <4>5, <4>7 DEF Shows
      <4> QED
        BY <3>1, <3>2, <4>1, <4>2, <4>3, <4>8 DEF RegionServed
    <3>8. m'.linked = m.linked \cup {i} /\ m'.view = m.view /\ m'.dirty = m.dirty
      BY <3>2 DEF Shows
    <3>9. \A j \in m'.linked : RegionServed(j)'
      BY <1>1, <3>6, <3>7, <3>8
    <3>10. Clean(SectionCount(regions)) /\ regions \in Layouts /\ Valid(regions) /\ m.arena
      BY <1>1 DEF ServedTrue
    <3>11. Clean(SectionCount(regions))'
      BY <3>1, <3>8, <3>10 DEF Clean
    <3>12. (regions \in Layouts /\ Valid(regions))'
      BY <3>1, <3>10 DEF Valid
    <3> QED
      BY ONLY <3>1, <3>2, <3>5, <3>9, <3>10, <3>11, <3>12 DEF ServedTrue
  <2> QED
    BY <2>3, <2>4
<1> QED
  BY <1>4, <1>5

LEMMA InitializeAgainServed ==
  ASSUME FlatInv, ServedTrue, InitializeAgain
  PROVE  ServedTrue'
<1> DEFINE dirty == m.dirty \ UNION {m.view[b] : b \in Sections}
<1>1. at.phase = "active" /\ m' = [m EXCEPT !.dirty = dirty] /\ at' = at /\ regions' = regions
  BY DEF InitializeAgain
<1>2. MemoryTrue(m) /\ dirty \in SUBSET Int
  BY DEF FlatInv, MemoryTrue, MemoryType
<1>3. /\ m'.back = m.back /\ m'.linked = m.linked /\ m'.arena = m.arena /\ m'.alias = m.alias
      /\ m'.space = m.space /\ m'.view = m.view /\ m'.dirty = dirty
  <2> HIDE DEF dirty
  <2> QED
    BY <1>1, <1>2, DirtyKeeps
<1>4. \A b \in Sections : m'.view[b] \cap m'.dirty = {}
  BY <1>3
<1> QED
  BY <1>1, <1>3, <1>4 DEF ServedTrue, Clean, RegionServed, Sections

LEMMA WriteServed ==
  ASSUME FlatInv, ServedTrue, NEW u \in Spots, Write(u)
  PROVE  ServedTrue'
<1> DEFINE dirty == m.dirty \cup {m.space[u]}
<1>1. at.phase = "active" /\ m' = [m EXCEPT !.dirty = dirty] /\ at' = at /\ regions' = regions /\ ~fresh'
  BY DEF Write
<1>2. MemoryTrue(m) /\ dirty \in SUBSET Int
  BY LayoutAssumption DEF FlatInv, MemoryTrue, MemoryType
<1>3. /\ m'.back = m.back /\ m'.linked = m.linked /\ m'.arena = m.arena /\ m'.alias = m.alias
      /\ m'.space = m.space /\ m'.view = m.view
  <2> HIDE DEF dirty
  <2> QED
    BY <1>1, <1>2, DirtyKeeps
<1> QED
  BY <1>1, <1>3 DEF ServedTrue, RegionServed

\* Another allocator finds nothing free once the arena is held.
LEMMA AllocatorServed ==
  ASSUME FlatInv, ServedTrue, NEW u \in Spots, Allocator(u)
  PROVE  ServedTrue'
<1>1. m.space[u] \in {Free, Foreign} /\ at' = at /\ regions' = regions
  BY DEF Allocator
<1>2. AddressTrue(m, u)
  BY LayoutAssumption DEF FlatInv, MemoryTrue
<1>3. ~m.arena
  BY <1>1, <1>2 DEF AddressTrue, Free, Foreign, Reserved
<1> QED
  BY <1>1, <1>3 DEF ServedTrue

LEMMA ServedNext ==
  ASSUME FlatInv, FlatInv', ServedTrue, [Next]_vars
  PROVE  ServedTrue'
<1>1. CASE UNCHANGED vars
  BY <1>1 DEF vars, ServedTrue, Clean, RegionServed, Valid
<1>2. CASE \E layout \in Layouts : Initialize(layout)
  BY <1>2, InitializeServed
<1>3. CASE InitializeAgain
  BY <1>3, InitializeAgainServed
<1>4. CASE ReserveArena
  BY <1>4, ReserveArenaServed
<1>5. CASE OpenSection
  BY <1>5, OpenSectionServed
<1>6. CASE SectionsOpen \/ Activate
  BY <1>6, SectionsOpenServed, ActivateServed
<1>7. CASE MapRegion
  BY <1>7, MapRegionServed
<1>8. CASE UnmapRegion \/ AliasesGone \/ CloseSection \/ CloseSpace \/ Closed
  <2>1. at'.phase \in {"unmap", "close", "closed", "terminated", "none"}
    BY <1>8 DEF UnmapRegion, AliasesGone, CloseSection, CloseSpace, Closed, Unwind, Proceed, At
  <2> QED
    BY <2>1, ServedElsewhere
<1>9. ASSUME NEW u \in Spots, Write(u) \/ Allocator(u) PROVE ServedTrue'
  BY <1>9, WriteServed, AllocatorServed
<1>10. CASE FreeCall
  <2>1. use = "free" /\ at' = at
    BY <1>10 DEF FreeCall, FreeStep
  <2>2. at'.phase = "none"
    BY <2>1 DEF FlatInv, ControlTrue
  <2> QED
    BY <2>2, ServedElsewhere
<1> QED
  BY <1>1, <1>2, <1>3, <1>4, <1>5, <1>6, <1>7, <1>8, <1>9, <1>10 DEF Next

\* Regions that share memory have one leader.
LEMMA SectionShared ==
  ASSUME NEW layout, LayoutTrue(layout), NEW i \in Present(layout), NEW j \in Present(layout),
         SameSection(layout[i], layout[j])
  PROVE  SectionOf(layout, i) = SectionOf(layout, j)
<1> DEFINE L == Leaders(layout)
           first == CHOOSE l \in L : SameSection(layout[i], layout[l])
           second == CHOOSE l \in L : SameSection(layout[j], layout[l])
<1>1. L \subseteq Present(layout) /\ Present(layout) \subseteq Nat
  BY DEF LayoutTrue, Leaders, Present
<1>2. \E l \in L : SameSection(layout[i], layout[l])
  <2> DEFINE T == {l \in Present(layout) : SameSection(layout[i], layout[l])}
  <2>1. T \in SUBSET Nat /\ i \in T
    BY <1>1 DEF SameSection
  <2>2. PICK l \in T : \A k \in T : l <= k
    BY <2>1, LeastOf
  <2>3. \A k \in Present(layout) : k < l => ~SameSection(layout[l], layout[k])
    BY <1>1, <2>2 DEF SameSection
  <2> QED
    BY <2>2, <2>3 DEF Leaders
<1>3. first \in L /\ SameSection(layout[i], layout[first])
  BY <1>2
<1>4. \E l \in L : SameSection(layout[j], layout[l])
  BY <1>2 DEF SameSection
<1>5. second \in L /\ SameSection(layout[j], layout[second])
  BY <1>4
<1>6. first = second
  <2>1. SameSection(layout[first], layout[second]) /\ SameSection(layout[second], layout[first])
    BY <1>3, <1>5 DEF SameSection
  <2>2. first \in Present(layout) /\ second \in Present(layout) /\ first \in Nat /\ second \in Nat
    BY <1>1, <1>3, <1>5
  <2>3. ~(first < second) /\ ~(second < first)
    BY <1>3, <1>5, <2>1, <2>2 DEF Leaders
  <2> QED
    BY <2>2, <2>3
<1> QED
  BY <1>6 DEF SectionOf

\* Within a mirror the offset grows with the address.
LEMMA WithinMirror ==
  ASSUME NEW span \in Nat \ {0}, NEW base \in Nat, NEW d \in Nat, (base % span) + d < span
  PROVE  (base + d) % span = (base % span) + d
<1> DEFINE q == base \div span
           r == base % span
<1>1. q \in Nat /\ r \in Nat /\ base = q * span + r
  OBVIOUS
<1>2. base + d = q * span + (r + d) /\ 0 <= r + d /\ r + d < span
  BY <1>1
<1> HIDE DEF q, r
<1>3. (q * span + (r + d)) % span = r + d
  BY <1>1, <1>2
<1> QED
  BY <1>2, <1>3 DEF r

\* What an address of a region shows.
LEMMA AddressServed ==
  ASSUME FlatInv, ServedTrue, at.phase = "active", NEW i \in Present(regions), NEW u \in Extent(regions[i])
  PROVE  /\ u \in Span(0, Space) /\ m.space[u] >= 0
         /\ m.space[u] = m.back[SectionOf(regions, i)].physical + Offset(regions[i]) + (u - regions[i].base)
<1> DEFINE section == SectionOf(regions, i)
<1>1. /\ MemoryTrue(m) /\ LayoutTrue(regions) /\ i \in m.linked /\ RegionServed(i) /\ i \in DOMAIN regions
  BY DEF FlatInv, ControlTrue, ServedTrue, Present
<1>2. regions[i].base \in Nat /\ Rounded(regions[i].size, Granularity) \in Nat /\ Offset(regions[i]) \in Nat
  BY <1>1, OffsetOf
<1>3. section \in Backings
  BY <1>1, SectionsNumbered DEF LayoutTrue
<1>4. /\ m.alias[i].address = regions[i].base /\ m.alias[i].size = Rounded(regions[i].size, Granularity)
      /\ m.alias[i].backing = section
      /\ m.space[regions[i].base] = m.back[section].physical + Offset(regions[i])
  BY <1>1 DEF RegionServed, AliasTo
<1>5. u \in Reach(m, i) /\ AliasTrue(m, i) /\ BackingTrue(m, section) /\ m \in MemoryType
  BY <1>1, <1>3, <1>4 DEF Reach, Extent, MemoryTrue
<1>6. u \in Span(0, Space)
  BY <1>2, <1>4, <1>5, MemoryAssumption DEF AliasTrue, Reach, Span
<1>7. m.space[u] \in OwnedUnits(m, section) /\ m.space[u] - u = m.space[regions[i].base] - regions[i].base
  BY <1>4, <1>5 DEF AliasTrue
<1>8. m.back[section].physical \in Int /\ m.back[section].size \in Nat /\ m.space[u] \in Int /\ u \in Int
  BY <1>3, <1>5, <1>6, MemoryAssumption DEF MemoryType, BackingType, Span
<1>9. m.back[section].physical \in Nat
  BY <1>5, <1>7, <1>8 DEF BackingTrue, OwnedUnits, Span
<1> QED
  BY <1>2, <1>4, <1>6, <1>7, <1>8, <1>9 DEF OwnedUnits, Span

\* Mirrors of one address are one unit of the section.
LEMMA MirrorsAgree ==
  ASSUME FlatInv, ServedTrue, at.phase = "active",
         NEW i \in DOMAIN regions, NEW j \in DOMAIN regions,
         NEW u \in Span(regions[i].base, regions[i].size), NEW v \in Span(regions[j].base, regions[j].size),
         Mirrors(i, j, u, v)
  PROVE  m.space[u] = m.space[v]
<1> DEFINE span == IF regions[i].kind = "mem1" THEN Mem1Span ELSE Mem2Span
<1>1. /\ LayoutTrue(regions) /\ regions \in Layouts /\ Valid(regions) /\ DOMAIN regions \subseteq Nat
  BY DEF FlatInv, ControlTrue, ServedTrue, LayoutTrue
<1>2. span \in Nat \ {0}
  BY LayoutAssumption
<1>3. ASSUME NEW k \in DOMAIN regions, NEW x \in Span(regions[k].base, regions[k].size),
             regions[k].kind = regions[i].kind, regions[k].kind # "owned"
      PROVE  /\ k \in Present(regions) /\ x \in Extent(regions[k])
             /\ Offset(regions[k]) + (x - regions[k].base) = x % span
  <2>1. regions[k].base \in Nat /\ regions[k].size \in Nat /\ Rounded(regions[k].size, Granularity) \in Nat
        /\ regions[k].size <= Rounded(regions[k].size, Granularity)
    BY <1>1, OffsetOf
  <2>2. k \in Present(regions) /\ x \in Extent(regions[k])
    BY <2>1 DEF Present, Extent, Span
  <2>3. regions[k].kind \in {"mem1", "mem2"}
    BY <1>1, <1>3, <2>1, <2>2 DEF Valid, Present
  <2>4. Offset(regions[k]) = regions[k].base % span /\ (regions[k].base % span) + regions[k].size <= span
    BY <1>1, <1>3, <2>3, MirrorAssumption DEF Offset
  <2> DEFINE d == x - regions[k].base
  <2>5. d \in Nat /\ d < regions[k].size /\ x = regions[k].base + d
    BY <2>1 DEF Span
  <2> HIDE DEF d, span
  <2>6. regions[k].base % span \in Nat
    BY <1>2, <2>1
  <2>7. (regions[k].base % span) + d < span
    BY <1>2, <2>1, <2>4, <2>5, <2>6
  <2>8. (regions[k].base + d) % span = (regions[k].base % span) + d
    BY <1>2, <2>1, <2>5, <2>7, WithinMirror
  <2> QED
    BY <2>2, <2>4, <2>5, <2>8 DEF d
<1>4. regions[i].kind = regions[j].kind /\ regions[i].kind # "owned" /\ u % span = v % span
  BY DEF Mirrors
<1>5. /\ i \in Present(regions) /\ u \in Extent(regions[i])
      /\ Offset(regions[i]) + (u - regions[i].base) = u % span
  BY <1>3, <1>4
<1>6. /\ j \in Present(regions) /\ v \in Extent(regions[j])
      /\ Offset(regions[j]) + (v - regions[j].base) = v % span
  BY <1>3, <1>4
<1> HIDE DEF span
<1>7. SectionOf(regions, i) = SectionOf(regions, j)
  BY <1>1, <1>4, <1>5, <1>6, SectionShared DEF SameSection
<1>8. /\ m.space[u] = m.back[SectionOf(regions, i)].physical + Offset(regions[i]) + (u - regions[i].base)
      /\ m.space[v] = m.back[SectionOf(regions, j)].physical + Offset(regions[j]) + (v - regions[j].base)
  BY <1>5, <1>6, AddressServed
<1>9. /\ m.back[SectionOf(regions, i)].physical \in Int /\ Offset(regions[i]) \in Int /\ Offset(regions[j]) \in Int
      /\ regions[i].base \in Int /\ regions[j].base \in Int /\ u \in Int /\ v \in Int
  <2>1. SectionOf(regions, i) \in Backings
    BY <1>1, <1>5, SectionsNumbered DEF LayoutTrue
  <2>2. m \in MemoryType
    BY DEF FlatInv, MemoryTrue
  <2>3. m.back[SectionOf(regions, i)].physical \in Int
    BY <2>1, <2>2 DEF MemoryType, BackingType
  <2>4. /\ regions[i].base \in Nat /\ regions[i].size \in Nat /\ Offset(regions[i]) \in Nat
        /\ regions[j].base \in Nat /\ regions[j].size \in Nat /\ Offset(regions[j]) \in Nat
    BY <1>1, OffsetOf
  <2>5. u \in Int /\ v \in Int
    BY <2>4 DEF Span
  <2> QED
    BY <2>3, <2>4, <2>5
<1> QED
  BY <1>4, <1>5, <1>6, <1>7, <1>8, <1>9

\* A host pointer is asked of the first region the address is in.
LEMMA PointerServed ==
  ASSUME FlatInv, ServedTrue, at.phase = "active", NEW u \in Span(0, Space),
         \E i \in DOMAIN regions : u \in Span(regions[i].base, regions[i].size)
  PROVE  HostPointer(u) = m.space[u] /\ m.space[u] >= 0
<1> DEFINE within == {i \in DOMAIN regions : u \in Span(regions[i].base, regions[i].size)}
           i == CHOOSE j \in within : \A k \in within : j <= k
<1>1. LayoutTrue(regions) /\ within \in SUBSET Nat /\ within # {}
  BY DEF FlatInv, ControlTrue, LayoutTrue
<1>2. \E j \in within : \A k \in within : j <= k
  BY <1>1, LeastOf
<1>3. i \in within
  BY <1>2
<1>4. HostPointer(u) = m.back[SectionOf(regions, i)].physical + Offset(regions[i]) + (u - regions[i].base)
  BY <1>1 DEF HostPointer
<1> HIDE DEF i
<1>5. i \in DOMAIN regions /\ u \in Span(regions[i].base, regions[i].size)
  BY <1>3
<1>6. regions[i].base \in Nat /\ regions[i].size \in Nat /\ Rounded(regions[i].size, Granularity) \in Nat
      /\ regions[i].size <= Rounded(regions[i].size, Granularity)
  BY <1>1, <1>5, OffsetOf
<1>7. i \in Present(regions) /\ u \in Extent(regions[i])
  BY <1>5, <1>6 DEF Present, Extent, Span
<1> QED
  BY <1>4, <1>7, AddressServed

\* What no alias reaches is reserved, and what one reaches is a section's.
LEMMA OthersReserved ==
  ASSUME FlatInv, ServedTrue, at.phase = "active", NEW u \in Span(0, Space)
  PROVE  \/ m.space[u] = Reserved
         \/ \E i \in Present(regions) :
               /\ regions[i].size > 0 /\ u \in Extent(regions[i])
               /\ m.space[u] \in m.view[SectionOf(regions, i)] /\ SectionOf(regions, i) \in Sections
<1>1. MemoryTrue(m) /\ LayoutTrue(regions) /\ m.arena /\ m.linked = Present(regions)
  BY DEF FlatInv, ControlTrue, ServedTrue
<1>2. CASE m.space[u] = Reserved
  BY <1>2
<1>3. CASE m.space[u] # Reserved
  <2>1. PICK i \in m.linked : u \in Reach(m, i)
    BY <1>1, <1>3 DEF MemoryTrue, AddressTrue
  <2>2. i \in Present(regions) /\ RegionServed(i) /\ AliasTrue(m, i) /\ SectionOf(regions, i) \in Sections
        /\ SectionOf(regions, i) \in Backings
    BY <1>1, <2>1, SectionsNumbered DEF ServedTrue, MemoryTrue, LayoutTrue, Sections
  <2>3. m.alias[i].backing = SectionOf(regions, i) /\ Reach(m, i) = Extent(regions[i])
    BY <2>2 DEF RegionServed, AliasTo, Reach, Extent
  <2>4. m.space[u] \in OwnedUnits(m, SectionOf(regions, i)) /\ m.back[SectionOf(regions, i)].host
    BY <2>1, <2>2, <2>3 DEF AliasTrue
  <2>5. m.view[SectionOf(regions, i)] = OwnedUnits(m, SectionOf(regions, i))
    BY <1>1, <2>2, <2>4 DEF MemoryTrue, BackingTrue
  <2> QED
    BY <2>1, <2>2, <2>3, <2>4, <2>5 DEF Present
<1> QED
  BY <1>2, <1>3

\* Once RAM is there, a host pointer and the guest address it was asked for are
\* the same memory, mirrors of MEM1 and MEM2 show the same bytes, other
\* addresses stay reserved, and RAM is zero after every Initialize
\* (guest_flat_memory_ps5.cpp:59-63, 102-105, 136-164).
THEOREM RamIsServed == Spec => []RamServed
<1>1. Init => FlatInv /\ ServedTrue
  BY InitTrue, ServedInit
<1>2. FlatInv /\ FlatInv' /\ ServedTrue /\ [Next]_vars => ServedTrue'
  BY ServedNext
<1>3. FlatInv /\ ServedTrue => RamServed
  <2> SUFFICES ASSUME FlatInv, ServedTrue, at.phase = "active" PROVE RamServed
    BY DEF RamServed
  <2>1. DOMAIN m.space = Span(0, Space)
    BY DEF FlatInv, MemoryTrue, MemoryType
  <2>2. \A u \in Span(0, Space) :
           IF \E i \in DOMAIN regions : u \in Span(regions[i].base, regions[i].size)
           THEN HostPointer(u) = m.space[u] /\ m.space[u] >= 0
           ELSE HostPointer(u) = None
    BY PointerServed DEF HostPointer
  <2>3. \A u \in Span(0, Space) :
           (\A i \in DOMAIN regions : regions[i].size > 0 => u \notin Extent(regions[i])) => m.space[u] = Reserved
    BY OthersReserved DEF Present
  <2>4. \A i, j \in DOMAIN regions :
           \A u \in Span(regions[i].base, regions[i].size), v \in Span(regions[j].base, regions[j].size) :
              Mirrors(i, j, u, v) => m.space[u] = m.space[v]
    BY MirrorsAgree
  <2>5. ASSUME fresh PROVE Shown(m) \cap m.dirty = {}
    <3>1. \A u \in Span(0, Space) : m.space[u] # Reserved => m.space[u] \notin m.dirty
      <4> SUFFICES ASSUME NEW u \in Span(0, Space), m.space[u] # Reserved PROVE m.space[u] \notin m.dirty
        OBVIOUS
      <4>1. PICK i \in Present(regions) :
               m.space[u] \in m.view[SectionOf(regions, i)] /\ SectionOf(regions, i) \in Sections
        BY OthersReserved
      <4> QED
        BY <2>5, <4>1 DEF ServedTrue, Clean, Sections
    <3> QED
      BY <2>1, <3>1 DEF Shown
  <2> QED
    BY <2>1, <2>2, <2>3, <2>4, <2>5 DEF RamServed
<1> QED
  BY <1>1, <1>2, <1>3, FlatInvariance, PTL DEF Spec
=============================================================================
