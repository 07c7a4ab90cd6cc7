-------------------------- MODULE GxDraws_proofs --------------------------
(***************************************************************************)
(* What a draw is made of.  The texture cache serves the bytes there are,  *)
(* and stays in its budget, for any cells, textures, budget and width of   *)
(* the clock; a group of merged draws waits for the packet that continues  *)
(* it, for any streams and limits.                                         *)
(*                                                                         *)
(* ServesCurrent follows a digest from the memo over the key to the entry: *)
(* a memo of the generation in force is of the bytes, but for cells the    *)
(* guest has not told of (MemoTrue), also while a resolve is on its way    *)
(* and writes race it (CallTrue).  BudgetKept needs that stamps lie behind *)
(* the clock (StampsBehind): an upload is the newest entry, and evictions  *)
(* take the oldest.                                                        *)
(***************************************************************************)
EXTENDS GxFifo, GxTextures, FiniteSetTheorems, SequenceTheorems, WellFoundedInduction, TLAPS

-----------------------------------------------------------------------------
(* Numbers and intervals.                                                   *)

LEMMA LeastOf ==
  ASSUME NEW T \in SUBSET Nat, T # {}
  PROVE  \E x \in T : \A y \in T : x <= y
<1>1. PICK x \in T : \A y \in T : ~(<<y, x>> \in OpToRel(<, Nat))
  BY NatLessThanWellFounded, WFMin
<1>2. \A y \in T : ~(y < x)
  BY <1>1 DEF OpToRel
<1> QED
  BY <1>2

LEMMA GreatestOf ==
  ASSUME NEW T \in SUBSET Nat, T # {}, NEW n \in Nat, \A x \in T : x <= n
  PROVE  Max(T) \in T /\ \A x \in T : x <= Max(T)
<1> DEFINE Short == {n - x : x \in T}
<1>1. Short \in SUBSET Nat /\ Short # {}
  <2>1. \A x \in T : n - x \in Nat
    OBVIOUS
  <2> QED
    BY <2>1
<1>2. PICK d \in Short : \A y \in Short : d <= y
  BY <1>1, LeastOf
<1>3. PICK x \in T : d = n - x
  BY <1>2
<1>4. ASSUME NEW y \in T PROVE x >= y
  <2>1. n - y \in Short
    OBVIOUS
  <2>2. n - x <= n - y
    BY <1>2, <1>3, <2>1
  <2> QED
    BY <2>2
<1>5. \E z \in T : \A y \in T : z >= y
  BY <1>4
<1>6. Max(T) \in T /\ \A y \in T : Max(T) >= y
  BY <1>5 DEF Max
<1> QED
  BY <1>6

Bounded(g, cells, n) == n \in Nat /\ \A c \in cells : g[c] \in Nat /\ g[c] <= n

IsNewest(newest, g, cells) ==
    /\ newest \in Nat
    /\ \A c \in cells : g[c] <= newest
    /\ \E c \in cells : g[c] = newest

\* The newest generation of some cells.
LEMMA Newest ==
  ASSUME NEW cells, cells # {}, NEW g, NEW n, Bounded(g, cells, n)
  PROVE  IsNewest(Max({g[c] : c \in cells}), g, cells)
<1> USE DEF Bounded, IsNewest
<1> DEFINE T == {g[c] : c \in cells}
<1>1. T \in SUBSET Nat /\ T # {} /\ \A x \in T : x <= n
  OBVIOUS
<1>2. Max(T) \in T /\ \A x \in T : x <= Max(T)
  BY <1>1, GreatestOf
<1>3. Max(T) \in Nat /\ Max(T) <= n
  BY <1>1, <1>2
<1> QED
  BY <1>2, <1>3

\* The n cells from a on.
IsStretch(cells, a, n) == a \in Nat /\ n \in Nat \ {0} /\ cells = a..(a + n - 1)

LEMMA Stretch ==
  ASSUME NEW cells, NEW a, NEW n, IsStretch(cells, a, n)
  PROVE  /\ a \in Nat /\ n \in Nat \ {0} /\ Min(cells) = a /\ Cardinality(cells) = n
         /\ a \in cells /\ cells \subseteq Nat
         /\ \A c \in cells : c - a + 1 \in 1..n
         /\ \A k \in 1..n : a + k - 1 \in cells /\ (a + k - 1) - a + 1 = k
<1> USE DEF IsStretch
<1>1. a \in cells /\ \A c \in cells : a <= c
  OBVIOUS
<1>2. \A x \in cells : (\A c \in cells : x <= c) => x = a
  BY <1>1
<1>3. Min(cells) = a
  BY <1>1, <1>2 DEF Min
<1>4. Cardinality(cells) = n
  <2>1. Cardinality(a..(a + n - 1)) = IF a > a + n - 1 THEN 0 ELSE (a + n - 1) - a + 1
    BY FS_Interval
  <2> QED
    BY <2>1
<1> QED
  BY <1>1, <1>3, <1>4

-----------------------------------------------------------------------------
(* What is always true.                                                     *)

Digests == Seq(Int)

Steps == {"idle", "pixels", "palette", "ready"}

TypeTrue ==
    /\ mem \in [Cells -> Int]
    /\ generation \in [GuestCells -> Nat] /\ writes \in Nat
    /\ \A c \in GuestCells : generation[c] <= writes
    /\ dirty \subseteq GuestCells
    /\ pending \in [GuestCells -> Int]
    /\ scene \in Scenes
    /\ call \in [step : Steps, sampled : Int, pixels : Digests, palette : Digests, unsaid : SUBSET Cells]
    /\ call.step = "idle" => call = Idle
    /\ call.step # "idle" =>
          loaded.texture \in Textures /\ loaded.noCache \in BOOLEAN /\ loaded.noCachePalette \in BOOLEAN

\* A memo of the generation in force is of the bytes, but for cells the guest
\* has not told of.
MemoTrue(a, e) ==
    LET cells == a..(a + e.size - 1)
    IN  /\ IsStretch(cells, a, e.size) /\ cells \subseteq GuestCells
        /\ e.digest \in [1..e.size -> Int]
        /\ e.generation \in Nat /\ e.generation <= GenerationOf(cells)
        /\ e.generation = GenerationOf(cells) => \A c \in cells : e.digest[c - a + 1] = mem[c] \/ c \in dirty

MemosTrue == \A a \in DOMAIN memo : MemoTrue(a, memo[a])

\* A digest is of the bytes, but for what may be missed.
DigestTrue(digest, cells, missed) ==
    /\ digest \in [1..Cardinality(cells) -> Int]
    /\ \A c \in cells : digest[c - Min(cells) + 1] = mem[c] \/ c \in missed

Missed(noCache) == IF noCache THEN {} ELSE call.unsaid

\* What a generation is sampled for: while it stands, so may the digest.
SampleTrue(cells, noCache) ==
    \/ call.sampled = Untracked
    \/ /\ ~noCache /\ cells \subseteq GuestCells
       /\ call.sampled \in Nat /\ call.sampled <= GenerationOf(cells)
       /\ Stands(memo, cells, call.sampled) => DigestTrue(memo[Min(cells)].digest, cells, call.unsaid)

CallTrue ==
    /\ call.step # "idle" => Awaited(SourceCells) = {} /\ dirty \subseteq call.unsaid /\ SourceCells \subseteq Cells
    /\ call.step = "pixels" => SampleTrue(PixelCells, loaded.noCache)
    /\ call.step = "palette" => Indexed /\ SampleTrue(PaletteCells, loaded.noCachePalette)
    /\ call.step \in {"palette", "ready"} => DigestTrue(call.pixels, PixelCells, Missed(loaded.noCache))
    /\ call.step \in {"pixels", "palette"} \/ ~Indexed => call.palette = <<>>
    /\ call.step = "ready" /\ Indexed => DigestTrue(call.palette, PaletteCells, Missed(loaded.noCachePalette))

\* What an entry holds is what its key says, unless it was made while bytes
\* were missed.
Keys == Shapes \X BOOLEAN \X Digests \X Digests

EntriesTrue ==
    /\ clock \in Nat
    /\ \A k \in DOMAIN entries :
       /\ k \in Keys /\ entries[k] \in [content : Keys, stamp : Nat, unsaid : BOOLEAN]
       /\ entries[k].unsaid \/ entries[k].content = k

CurrentInv == TypeTrue /\ MemosTrue /\ CallTrue /\ EntriesTrue

-----------------------------------------------------------------------------
(* The sources of a resolve.                                                *)

LEMMA TextureCells ==
  ASSUME NEW t \in Textures
  PROVE  t.cell \in Nat /\ t.len \in Nat \ {0} /\ t.palette \in Nat
  BY TexturesAssumption

LEMMA PixelStretch ==
  ASSUME Texture \in Textures
  PROVE  IsStretch(PixelCells, Texture.cell, Texture.len)
  BY TextureCells DEF IsStretch, PixelCells

LEMMA PaletteStretch ==
  ASSUME Texture \in Textures, Indexed
  PROVE  IsStretch(PaletteCells, Texture.palette, 1)
<1>1. Texture.palette \in Nat /\ PaletteCells = {Texture.palette}
  BY TextureCells DEF PaletteCells
<1>2. Texture.palette..(Texture.palette + 1 - 1) = {Texture.palette}
  BY <1>1
<1> QED
  BY <1>1, <1>2 DEF IsStretch

\* The bytes of a stretch, one by one.
LEMMA BytesOf ==
  ASSUME NEW cells, NEW a, NEW n, IsStretch(cells, a, n)
  PROVE  Bytes(cells) = [k \in 1..n |-> mem[a + k - 1]]
<1>1. Min(cells) = a /\ Cardinality(cells) = n
  BY Stretch
<1> QED
  BY <1>1 DEF Bytes

LEMMA BytesTyped ==
  ASSUME TypeTrue, NEW cells, NEW a, NEW n, IsStretch(cells, a, n), cells \subseteq Cells
  PROVE  Bytes(cells) \in [1..n -> Int]
<1>1. \A k \in 1..n : a + k - 1 \in cells
  BY Stretch
<1>2. \A k \in 1..n : mem[a + k - 1] \in Int
  BY <1>1 DEF TypeTrue
<1> QED
  BY <1>2, BytesOf

LEMMA DigestOfBytes ==
  ASSUME TypeTrue, NEW cells, NEW a, NEW n, IsStretch(cells, a, n), cells \subseteq Cells, NEW missed
  PROVE  DigestTrue(Bytes(cells), cells, missed)
<1>1. Min(cells) = a /\ Cardinality(cells) = n /\ cells \subseteq Nat /\ a \in Nat /\ \A c \in cells : c - a + 1 \in 1..n
  BY Stretch
<1>2. Bytes(cells) \in [1..n -> Int]
  BY BytesTyped
<1>3. ASSUME NEW c \in cells PROVE Bytes(cells)[c - a + 1] = mem[c]
  <2>1. c - a + 1 \in 1..n /\ a + (c - a + 1) - 1 = c
    BY <1>1
  <2>2. Bytes(cells) = [k \in 1..n |-> mem[a + k - 1]]
    BY BytesOf
  <2>3. \A k \in 1..n : Bytes(cells)[k] = mem[a + k - 1]
    BY <2>2
  <2> QED
    BY <2>1, <2>3
<1> QED
  BY <1>1, <1>2, <1>3 DEF DigestTrue

\* A digest that misses nothing is the bytes.
LEMMA DigestWhole ==
  ASSUME TypeTrue, NEW cells, NEW a, NEW n, IsStretch(cells, a, n), cells \subseteq Cells,
         NEW digest, NEW missed, DigestTrue(digest, cells, missed), cells \cap missed = {}
  PROVE  digest = Bytes(cells)
<1>1. Min(cells) = a /\ Cardinality(cells) = n /\ a \in Nat /\ \A k \in 1..n : a + k - 1 \in cells /\ (a + k - 1) - a + 1 = k
  BY Stretch
<1>2. digest \in [1..n -> Int] /\ \A c \in cells : digest[c - a + 1] = mem[c]
  BY <1>1 DEF DigestTrue
<1>3. ASSUME NEW k \in 1..n PROVE digest[k] = mem[a + k - 1]
  BY <1>1, <1>2
<1>4. digest = [k \in 1..n |-> mem[a + k - 1]]
  BY <1>2, <1>3
<1> QED
  BY <1>4, BytesOf

\* A digest is still true when no byte it is of changes but those it may miss.
LEMMA DigestStays ==
  ASSUME NEW digest, NEW cells, NEW missed, NEW more, DigestTrue(digest, cells, missed),
         missed \cap cells \subseteq more, \A c \in cells : mem'[c] = mem[c] \/ c \in more
  PROVE  DigestTrue(digest, cells, more)'
<1>1. DigestTrue(digest, cells, more)' <=>
        /\ digest \in [1..Cardinality(cells) -> Int]
        /\ \A c \in cells : digest[c - Min(cells) + 1] = mem'[c] \/ c \in more
  BY DEF DigestTrue
<1> QED
  BY <1>1 DEF DigestTrue

-----------------------------------------------------------------------------
(* Memos.                                                                   *)

LEMMA GenerationOfCells ==
  ASSUME TypeTrue, NEW cells, NEW a, NEW n, IsStretch(cells, a, n), cells \subseteq GuestCells
  PROVE  IsNewest(GenerationOf(cells), generation, cells) /\ GenerationOf(cells) <= writes
<1>1. cells # {} /\ Bounded(generation, cells, writes)
  BY Stretch DEF TypeTrue, Bounded
<1>2. IsNewest(Max({generation[c] : c \in cells}), generation, cells)
  BY <1>1, Newest
<1>3. GenerationOf(cells) = Max({generation[c] : c \in cells})
  BY DEF GenerationOf
<1> QED
  BY <1>1, <1>2, <1>3 DEF IsNewest, Bounded

LEMMA GenerationOfCellsThen ==
  ASSUME TypeTrue', NEW cells, NEW a, NEW n, IsStretch(cells, a, n), cells \subseteq GuestCells
  PROVE  IsNewest(GenerationOf(cells)', generation', cells) /\ GenerationOf(cells)' <= writes'
<1>1. cells # {} /\ Bounded(generation', cells, writes')
  BY Stretch DEF TypeTrue, Bounded
<1>2. IsNewest(Max({generation'[c] : c \in cells}), generation', cells)
  BY <1>1, Newest
<1>3. GenerationOf(cells)' = Max({generation'[c] : c \in cells})
  BY DEF GenerationOf
<1> QED
  BY <1>1, <1>2, <1>3 DEF IsNewest, Bounded

\* A step in which the cells told are all that changes, but for dirty ones.
Tells(told) ==
    /\ \A c \in GuestCells : generation'[c] = IF c \in told THEN writes' ELSE generation[c]
    /\ told # {} => writes' > writes
    /\ \A c \in GuestCells \ told : (mem'[c] = mem[c] \/ c \in dirty') /\ (c \in dirty => c \in dirty')

\* Then the generation of some cells is newer, or of the same bytes.
LEMMA Tellings ==
  ASSUME TypeTrue, TypeTrue', NEW told, Tells(told),
         NEW cells, NEW a, NEW n, IsStretch(cells, a, n), cells \subseteq GuestCells
  PROVE  /\ GenerationOf(cells) <= GenerationOf(cells)'
         /\ GenerationOf(cells) \in Nat /\ GenerationOf(cells)' \in Nat
         /\ GenerationOf(cells) = GenerationOf(cells)' => cells \cap told = {}
<1>1. /\ GenerationOf(cells) \in Nat /\ GenerationOf(cells) <= writes
      /\ \A c \in cells : generation[c] <= GenerationOf(cells)
      /\ \E c \in cells : generation[c] = GenerationOf(cells)
  BY GenerationOfCells DEF IsNewest
<1>3. writes' \in Nat /\ writes \in Nat
  BY DEF TypeTrue
<1>4. GenerationOf(cells)' \in Nat /\ \A c \in cells : generation'[c] <= GenerationOf(cells)'
  BY GenerationOfCellsThen DEF IsNewest
<1>5. CASE cells \cap told = {}
  <2>1. PICK c \in cells : generation[c] = GenerationOf(cells)
    BY <1>1
  <2>2. generation'[c] = generation[c]
    BY <1>5 DEF Tells
  <2> QED
    BY <1>1, <1>4, <1>5, <2>1, <2>2
<1>6. CASE cells \cap told # {}
  <2>1. PICK c \in cells \cap told : TRUE
    BY <1>6
  <2>2. generation'[c] = writes' /\ writes' > writes
    BY <2>1 DEF Tells
  <2>3. writes' <= GenerationOf(cells)'
    BY <1>4, <2>1, <2>2
  <2> QED
    BY <1>1, <1>3, <1>4, <2>2, <2>3
<1> QED
  BY <1>5, <1>6

LEMMA MemoStays ==
  ASSUME TypeTrue, TypeTrue', NEW told, Tells(told), NEW a, NEW e, MemoTrue(a, e)
  PROVE  MemoTrue(a, e)'
<1> DEFINE cells == a..(a + e.size - 1)
<1>1. /\ IsStretch(cells, a, e.size) /\ cells \subseteq GuestCells
      /\ e.digest \in [1..e.size -> Int] /\ e.generation \in Nat /\ e.generation <= GenerationOf(cells)
      /\ e.generation = GenerationOf(cells) => \A c \in cells : e.digest[c - a + 1] = mem[c] \/ c \in dirty
  BY DEF MemoTrue
<1>2. /\ GenerationOf(cells) <= GenerationOf(cells)'
      /\ GenerationOf(cells) \in Nat /\ GenerationOf(cells)' \in Nat
      /\ GenerationOf(cells) = GenerationOf(cells)' => cells \cap told = {}
  BY <1>1, Tellings
<1>3. e.generation <= GenerationOf(cells)'
  BY <1>1, <1>2
<1>4. ASSUME e.generation = GenerationOf(cells)'
      PROVE  \A c \in cells : e.digest[c - a + 1] = mem'[c] \/ c \in dirty'
  <2>1. e.generation = GenerationOf(cells) /\ cells \cap told = {}
    BY <1>1, <1>2, <1>4
  <2>2. \A c \in cells : (mem'[c] = mem[c] \/ c \in dirty') /\ (c \in dirty => c \in dirty')
    BY <1>1, <2>1 DEF Tells
  <2>3. \A c \in cells : e.digest[c - a + 1] = mem[c] \/ c \in dirty
    BY <1>1, <2>1
  <2> QED
    BY <2>2, <2>3
<1> QED
  BY <1>1, <1>3, <1>4 DEF MemoTrue, IsStretch

LEMMA MemosStay ==
  ASSUME TypeTrue, TypeTrue', NEW told, Tells(told), MemosTrue, memo' = memo
  PROVE  MemosTrue'
<1>1. \A a \in DOMAIN memo : MemoTrue(a, memo[a])'
  <2> TAKE a \in DOMAIN memo
  <2> DEFINE e == memo[a]
  <2>1. MemoTrue(a, memo[a])
    BY DEF MemosTrue
  <2>2. ASSUME NEW f, f = memo[a] PROVE MemoTrue(a, f)'
    BY <2>1, <2>2, MemoStays
  <2> QED
    BY <2>2
<1> QED
  BY <1>1 DEF MemosTrue

-----------------------------------------------------------------------------
(* What the guest does between the steps of a resolve.                      *)

\* What the guest changes while nothing, or something, is resolved.
GuestStep ==
    \/ \E c \in Cells, v \in Values : Store(c, v)
    \/ \E c \in GuestCells : NotifyWrite(c)
    \/ \E c \in GuestCells, v \in Values : CopyTex(c, v)
    \/ HostFree
    \/ \E v \in Values : HostBytes(v)

LEMMA ValueTyped == \A v \in Values : v \in Int
  BY TexturesAssumption

LEMMA StoreTyped ==
  ASSUME TypeTrue, NEW c \in Cells, NEW v \in Values, Store(c, v)
  PROVE  TypeTrue'
<1>1. v \in Int
  BY ValueTyped
<1>2. mem' \in [Cells -> Int] /\ dirty' \subseteq GuestCells
  BY <1>1 DEF TypeTrue, Store
<1>3. /\ call' \in [step : Steps, sampled : Int, pixels : Digests, palette : Digests, unsaid : SUBSET Cells]
      /\ call'.step = call.step /\ (call = Idle => call' = Idle)
  BY DEF TypeTrue, Store
<1> QED
  BY <1>2, <1>3 DEF TypeTrue, Store

LEMMA NotifyTyped ==
  ASSUME TypeTrue, NEW c \in GuestCells, NotifyWrite(c)
  PROVE  TypeTrue'
<1>1. writes' \in Nat /\ writes' > writes
  BY DEF TypeTrue, NotifyWrite
<1>2. generation' \in [GuestCells -> Nat] /\ \A d \in GuestCells : generation'[d] <= writes'
  BY <1>1 DEF TypeTrue, NotifyWrite
<1> QED
  BY <1>1, <1>2 DEF TypeTrue, NotifyWrite

LEMMA GuestTyped ==
  ASSUME TypeTrue, GuestStep
  PROVE  TypeTrue'
<1>1. ASSUME NEW c \in GuestCells, NEW v \in Values, CopyTex(c, v) PROVE TypeTrue'
  <2>1. v \in Int
    BY ValueTyped
  <2>2. pending' \in [GuestCells -> Int]
    BY <1>1, <2>1 DEF TypeTrue, CopyTex
  <2> QED
    BY <1>1, <2>2 DEF TypeTrue, CopyTex
<1>2. CASE HostFree
  BY <1>2 DEF TypeTrue, HostFree
<1>3. ASSUME NEW v \in Values, HostBytes(v) PROVE TypeTrue'
  <2>1. v \in Int
    BY ValueTyped
  <2>2. mem' \in [Cells -> Int]
    BY <1>3, <2>1 DEF TypeTrue, HostBytes
  <2> QED
    BY <1>3, <2>2 DEF TypeTrue, HostBytes
<1> QED
  BY <1>1, <1>2, <1>3, StoreTyped, NotifyTyped DEF GuestStep

\* The cells a step of the guest tells of.
LEMMA GuestTells ==
  ASSUME TypeTrue, GuestStep
  PROVE  \E told \in SUBSET GuestCells : Tells(told)
<1>1. ASSUME NEW c \in Cells, NEW v \in Values, Store(c, v) PROVE Tells({})
  BY <1>1 DEF TypeTrue, Store, Tells
<1>2. ASSUME NEW c \in GuestCells, NotifyWrite(c) PROVE Tells({c})
  BY <1>2 DEF TypeTrue, NotifyWrite, Tells
<1>3. ASSUME NEW c \in GuestCells, NEW v \in Values, CopyTex(c, v) PROVE Tells({})
  <2>1. UNCHANGED <<mem, generation, writes, dirty>>
    BY <1>3 DEF CopyTex
  <2> QED
    BY <2>1 DEF Tells
<1>4. ASSUME HostFree PROVE Tells({})
  BY <1>4 DEF TypeTrue, HostFree, Tells
<1>5. ASSUME NEW v \in Values, HostBytes(v) PROVE Tells({})
  <2>1. HostCell \notin GuestCells
    BY TexturesAssumption
  <2> QED
    BY <1>5, <2>1 DEF TypeTrue, HostBytes, Tells, Cells
<1> QED
  BY <1>1, <1>2, <1>3, <1>4, <1>5 DEF GuestStep

\* While a resolve is on its way the bytes it has read stay, and others may be
\* missed or told of.
Raced ==
    /\ UNCHANGED <<loaded, memo, pending>>
    /\ call' = [call EXCEPT !.unsaid = call'.unsaid] /\ call.unsaid \subseteq call'.unsaid
    /\ dirty' \subseteq call'.unsaid
    /\ \A c \in Cells : mem'[c] = mem[c] \/ (c \in call'.unsaid /\ c \in SourceCells \ Taken)

LEMMA GuestRaces ==
  ASSUME TypeTrue, CallTrue, GuestStep, call.step # "idle"
  PROVE  Raced
<1>1. call # Idle
  BY DEF Idle
<1>2. dirty \subseteq call.unsaid
  BY DEF CallTrue
<1>3. call = [call EXCEPT !.unsaid = call.unsaid]
  BY DEF TypeTrue
<1>4. ASSUME NEW c \in Cells, NEW v \in Values, Store(c, v) PROVE Raced
  <2>1. c \in SourceCells \ Taken /\ call' = [call EXCEPT !.unsaid = call.unsaid \cup {c}] /\ UNCHANGED <<loaded, memo, pending>>
    BY <1>1, <1>4 DEF Store, Racing
  <2>2. call'.unsaid = call.unsaid \cup {c}
    BY <2>1 DEF TypeTrue
  <2>3. dirty' \subseteq dirty \cup {c} /\ \A d \in Cells : d # c => mem'[d] = mem[d]
    BY <1>4 DEF Store, TypeTrue
  <2> QED
    BY <1>2, <2>1, <2>2, <2>3 DEF Raced
<1>5. ASSUME NEW c \in GuestCells, NotifyWrite(c) PROVE Raced
  BY <1>2, <1>3, <1>5 DEF NotifyWrite, Raced
<1> QED
  BY <1>1, <1>4, <1>5 DEF GuestStep, CopyTex, HostFree, HostBytes

LEMMA SampleStays ==
  ASSUME TypeTrue, TypeTrue', NEW told, Tells(told), Raced,
         NEW cells, NEW a, NEW n, IsStretch(cells, a, n), cells \subseteq Cells,
         NEW noCache, SampleTrue(cells, noCache)
  PROVE  SampleTrue(cells, noCache)'
<1>1. call'.sampled = call.sampled /\ memo' = memo /\ call.unsaid \subseteq call'.unsaid
  BY DEF Raced, TypeTrue
<1>2. CASE call.sampled = Untracked
  BY <1>1, <1>2 DEF SampleTrue
<1>3. CASE call.sampled # Untracked
  <2>1. /\ ~noCache /\ cells \subseteq GuestCells /\ call.sampled \in Nat /\ call.sampled <= GenerationOf(cells)
        /\ Stands(memo, cells, call.sampled) => DigestTrue(memo[Min(cells)].digest, cells, call.unsaid)
    BY <1>3 DEF SampleTrue
  <2>2. GenerationOf(cells) <= GenerationOf(cells)' /\ GenerationOf(cells) \in Nat /\ GenerationOf(cells)' \in Nat
    BY <2>1, Tellings
  <2>3. ASSUME NEW digest, DigestTrue(digest, cells, call.unsaid)
        PROVE  DigestTrue(digest, cells, call.unsaid)'
    <3>1. \A c \in cells : mem'[c] = mem[c] \/ c \in call'.unsaid
      BY DEF Raced
    <3>2. ASSUME NEW more, more = call'.unsaid PROVE DigestTrue(digest, cells, more)'
      BY <1>1, <2>3, <3>1, <3>2, DigestStays
    <3> QED
      BY <3>2 DEF DigestTrue
  <2>4. Stands(memo', cells, call'.sampled) => DigestTrue(memo[Min(cells)].digest, cells, call.unsaid)
    BY <1>1, <2>1
  <2>5. ASSUME NEW digest, digest = memo[Min(cells)].digest, DigestTrue(digest, cells, call.unsaid)
        PROVE  DigestTrue(memo[Min(cells)].digest, cells, call.unsaid)'
    <3>1. DigestTrue(digest, cells, call.unsaid)'
      BY <2>3, <2>5
    <3> QED
      BY <1>1, <2>5, <3>1 DEF DigestTrue
  <2>6. call'.sampled <= GenerationOf(cells)'
    BY <1>1, <2>1, <2>2
  <2> QED
    BY <1>1, <2>1, <2>4, <2>5, <2>6 DEF SampleTrue, Stands
<1> QED
  BY <1>2, <1>3

LEMMA RaceKeeps ==
  ASSUME TypeTrue, TypeTrue', CallTrue, NEW told, Tells(told), Raced, call.step # "idle"
  PROVE  CallTrue'
<1>1. /\ call'.step = call.step /\ call'.pixels = call.pixels /\ call'.palette = call.palette
      /\ call.unsaid \subseteq call'.unsaid /\ loaded' = loaded /\ pending' = pending
  BY DEF Raced, TypeTrue
<1>2. /\ PixelCells' = PixelCells /\ PaletteCells' = PaletteCells /\ SourceCells' = SourceCells /\ Indexed' = Indexed
  BY <1>1 DEF PixelCells, PaletteCells, SourceCells, Indexed, Texture
<1>3. /\ Awaited(SourceCells) = {} /\ SourceCells \subseteq Cells /\ PixelCells \subseteq SourceCells /\ PaletteCells \subseteq SourceCells
      /\ Texture \in Textures
  BY DEF CallTrue, SourceCells, TypeTrue, Texture
<1>4. Awaited(SourceCells)' = {} /\ dirty' \subseteq call'.unsaid /\ SourceCells' \subseteq Cells
  BY <1>1, <1>2, <1>3 DEF Raced, Awaited
<1>5. call.step = "pixels" => SampleTrue(PixelCells, loaded.noCache)'
  <2> SUFFICES ASSUME call.step = "pixels" PROVE SampleTrue(PixelCells, loaded.noCache)'
    OBVIOUS
  <2>1. IsStretch(PixelCells, Texture.cell, Texture.len) /\ SampleTrue(PixelCells, loaded.noCache) /\ PixelCells \subseteq Cells
    BY <1>3, PixelStretch DEF CallTrue
  <2>2. ASSUME NEW cells, cells = PixelCells, NEW noCache, noCache = loaded.noCache PROVE SampleTrue(cells, noCache)'
    BY <2>1, <2>2, SampleStays
  <2> QED
    BY <1>1, <1>2, <2>2 DEF SampleTrue
<1>6. call.step = "palette" => Indexed' /\ SampleTrue(PaletteCells, loaded.noCachePalette)'
  <2> SUFFICES ASSUME call.step = "palette" PROVE Indexed' /\ SampleTrue(PaletteCells, loaded.noCachePalette)'
    OBVIOUS
  <2>1. Indexed /\ SampleTrue(PaletteCells, loaded.noCachePalette) /\ PaletteCells \subseteq Cells
    BY <1>3 DEF CallTrue
  <2>2. IsStretch(PaletteCells, Texture.palette, 1)
    BY <1>3, <2>1, PaletteStretch
  <2>3. ASSUME NEW cells, cells = PaletteCells, NEW noCache, noCache = loaded.noCachePalette PROVE SampleTrue(cells, noCache)'
    BY <2>1, <2>2, <2>3, SampleStays
  <2> QED
    BY <1>1, <1>2, <2>1, <2>3 DEF SampleTrue
<1>7. ASSUME NEW digest, NEW cells, cells \subseteq Taken, cells \subseteq SourceCells, NEW noCache,
             DigestTrue(digest, cells, Missed(noCache))
      PROVE  DigestTrue(digest, cells, Missed(noCache))'
  <2>1. \A c \in cells : mem'[c] = mem[c]
    BY <1>3, <1>7 DEF Raced
  <2>2. ASSUME NEW missed, missed = Missed(noCache), NEW more, more = Missed(noCache)'
        PROVE  DigestTrue(digest, cells, more)'
    <3>1. missed \cap cells \subseteq more
      BY <1>1, <2>2 DEF Missed
    <3> QED
      BY <1>7, <2>1, <2>2, <3>1, DigestStays
  <2> QED
    BY <2>2 DEF DigestTrue
<1>8. call.step \in {"palette", "ready"} => DigestTrue(call.pixels, PixelCells, Missed(loaded.noCache))'
  <2> SUFFICES ASSUME call.step \in {"palette", "ready"} PROVE DigestTrue(call.pixels, PixelCells, Missed(loaded.noCache))'
    OBVIOUS
  <2>1. PixelCells \subseteq Taken
    BY DEF Taken, SourceCells
  <2>2. DigestTrue(call.pixels, PixelCells, Missed(loaded.noCache))
    BY DEF CallTrue
  <2>3. ASSUME NEW digest, digest = call.pixels, NEW cells, cells = PixelCells, NEW noCache, noCache = loaded.noCache
        PROVE  DigestTrue(digest, cells, Missed(noCache))'
    BY <1>3, <1>7, <2>1, <2>2, <2>3
  <2> QED
    BY <1>1, <1>2, <2>3 DEF DigestTrue, Missed
<1>9. call.step = "ready" /\ Indexed => DigestTrue(call.palette, PaletteCells, Missed(loaded.noCachePalette))'
  <2> SUFFICES ASSUME call.step = "ready", Indexed PROVE DigestTrue(call.palette, PaletteCells, Missed(loaded.noCachePalette))'
    OBVIOUS
  <2>1. PaletteCells \subseteq Taken
    BY DEF Taken, SourceCells
  <2>2. DigestTrue(call.palette, PaletteCells, Missed(loaded.noCachePalette))
    BY DEF CallTrue
  <2>3. ASSUME NEW digest, digest = call.palette, NEW cells, cells = PaletteCells, NEW noCache, noCache = loaded.noCachePalette
        PROVE  DigestTrue(digest, cells, Missed(noCache))'
    BY <1>3, <1>7, <2>1, <2>2, <2>3
  <2> QED
    BY <1>1, <1>2, <2>3 DEF DigestTrue, Missed
<1> QED
  BY <1>1, <1>2, <1>4, <1>5, <1>6, <1>8, <1>9 DEF CallTrue

\* Nothing else of the cache changes then.
LEMMA GuestSafe ==
  ASSUME CurrentInv, GuestStep
  PROVE  CurrentInv'
<1>1. TypeTrue'
  BY GuestTyped DEF CurrentInv
<1>2. PICK told \in SUBSET GuestCells : Tells(told)
  BY GuestTells DEF CurrentInv
<1>3. memo' = memo /\ entries' = entries /\ clock' = clock
  BY DEF GuestStep, Store, NotifyWrite, CopyTex, HostFree, HostBytes
<1>4. MemosTrue'
  BY <1>1, <1>2, <1>3, MemosStay DEF CurrentInv
<1>5. EntriesTrue'
  BY <1>3 DEF CurrentInv, EntriesTrue
<1>6. CASE call.step = "idle"
  <2>1. call' = Idle
    BY <1>6 DEF CurrentInv, TypeTrue, GuestStep, Store, NotifyWrite, CopyTex, HostFree, HostBytes
  <2> QED
    BY <1>1, <1>4, <1>5, <2>1 DEF CurrentInv, CallTrue, Idle
<1>7. CASE call.step # "idle"
  BY <1>1, <1>2, <1>4, <1>5, <1>7, GuestRaces, RaceKeeps DEF CurrentInv
<1> QED
  BY <1>6, <1>7

-----------------------------------------------------------------------------
(* The steps of a resolve.                                                  *)

LEMMA SlotsTrue ==
  ASSUME NEW t, NEW slot \in SlotsOf(t)
  PROVE  slot.texture = t /\ slot.noCache \in BOOLEAN /\ slot.noCachePalette \in BOOLEAN
<1> DEFINE r == Loaded(t)
<1>1. r \in [texture : {t}, noCache : BOOLEAN, noCachePalette : BOOLEAN]
  BY DEF Loaded
<1>2. ASSUME NEW s \in [texture : {t}, noCache : BOOLEAN, noCachePalette : BOOLEAN]
      PROVE  /\ EvictTextureObject(s) \in [texture : {t}, noCache : BOOLEAN, noCachePalette : BOOLEAN]
             /\ EvictTlutObject(s) \in [texture : {t}, noCache : BOOLEAN, noCachePalette : BOOLEAN]
  BY DEF EvictTextureObject, EvictTlutObject
<1>3. slot \in [texture : {t}, noCache : BOOLEAN, noCachePalette : BOOLEAN]
  <2> HIDE DEF r
  <2>1. slot \in {r, EvictTextureObject(r), EvictTlutObject(r), EvictTlutObject(EvictTextureObject(r))}
    BY DEF SlotsOf, r
  <2> QED
    BY <1>1, <1>2, <2>1
<1> QED
  BY <1>3

\* A memo that stands when a generation is sampled.
LEMMA SampledThen ==
  ASSUME TypeTrue', MemosTrue', NEW cells, NEW a, NEW n, IsStretch(cells, a, n), cells \subseteq GuestCells,
         Stands(memo', cells, GenerationOf(cells)')
  PROVE  \A c \in cells : memo'[a].digest[c - a + 1] = mem'[c] \/ c \in dirty'
<1>1. Min(cells) = a /\ Cardinality(cells) = n
  BY Stretch
<1>2. a \in DOMAIN memo' /\ memo'[a].size = n /\ memo'[a].generation = GenerationOf(cells)'
  BY <1>1 DEF Stands
<1>3. MemoTrue(a, memo[a])'
  BY <1>2 DEF MemosTrue
<1>5. a..(a + memo'[a].size - 1) = cells
  BY <1>2 DEF IsStretch
<1>6. ASSUME NEW S, S = a..(a + memo'[a].size - 1)
      PROVE  memo'[a].generation = GenerationOf(S)' => \A c \in S : memo'[a].digest[c - a + 1] = mem'[c] \/ c \in dirty'
  BY <1>3, <1>6 DEF MemoTrue
<1> QED
  BY <1>2, <1>5, <1>6

\* What is sampled, or nothing, is right for the call.
LEMMA SamplingTrue ==
  ASSUME TypeTrue', MemosTrue', NEW cells, NEW a, NEW n, IsStretch(cells, a, n),
         NEW noCache \in BOOLEAN, call'.sampled = IF noCache THEN Untracked ELSE GenerationOf(cells)',
         dirty' \subseteq call'.unsaid
  PROVE  SampleTrue(cells, noCache)' /\ call'.sampled \in Int
<1>1. CASE noCache \/ ~(cells \subseteq GuestCells)
  BY <1>1 DEF SampleTrue, GenerationOf, Untracked
<1>2. CASE ~noCache /\ cells \subseteq GuestCells
  <2>1. GenerationOf(cells)' \in Nat /\ call'.sampled = GenerationOf(cells)'
    BY <1>2, GenerationOfCellsThen DEF IsNewest
  <2>2. Min(cells) = a /\ Cardinality(cells) = n
    BY Stretch
  <2>3. ASSUME Stands(memo', cells, GenerationOf(cells)')
        PROVE  DigestTrue(memo[Min(cells)].digest, cells, call.unsaid)'
    <3>1. \A c \in cells : memo'[a].digest[c - a + 1] = mem'[c] \/ c \in call'.unsaid
      BY <1>2, <2>3, SampledThen
    <3>2. a \in DOMAIN memo' /\ memo'[a].size = n
      BY <2>2, <2>3 DEF Stands
    <3>3. memo'[a].digest \in [1..n -> Int]
      BY <3>2 DEF MemosTrue, MemoTrue
    <3> QED
      BY <2>2, <3>1, <3>3 DEF DigestTrue
  <2>4. Stands(memo, cells, call.sampled)' <=> Stands(memo', cells, GenerationOf(cells)')
    BY <2>1 DEF Stands
  <2>5. GenerationOf(cells)' <= GenerationOf(cells)'
    BY <2>1
  <2> QED
    BY <1>2, <2>1, <2>3, <2>4, <2>5 DEF SampleTrue
<1> QED
  BY <1>1, <1>2

LEMMA DigestTyped ==
  ASSUME NEW digest, NEW cells, NEW a, NEW n, IsStretch(cells, a, n), NEW missed, DigestTrue(digest, cells, missed)
  PROVE  digest \in Digests
<1>1. Cardinality(cells) = n /\ n \in Nat
  BY Stretch
<1>2. digest \in [1..n -> Int]
  BY <1>1 DEF DigestTrue
<1> QED
  BY <1>1, <1>2, SeqDef DEF Digests

\* The digest of some cells, and the memos it leaves.
LEMMA SourceDigestTrue ==
  ASSUME TypeTrue, MemosTrue, NEW cells, NEW a, NEW n, IsStretch(cells, a, n), cells \subseteq Cells,
         NEW noCache, SampleTrue(cells, noCache)
  PROVE  /\ DigestTrue(SourceDigest(cells, call.sampled).digest, cells, Missed(noCache))
         /\ \A b \in DOMAIN SourceDigest(cells, call.sampled).memo : MemoTrue(b, SourceDigest(cells, call.sampled).memo[b])
<1> DEFINE d == SourceDigest(cells, call.sampled)
           fresh == [size |-> n, digest |-> Bytes(cells), generation |-> call.sampled]
<1>1. Min(cells) = a /\ Cardinality(cells) = n /\ n \in Nat \ {0} /\ cells = a..(a + n - 1)
  <2>1. cells = a..(a + n - 1)
    BY DEF IsStretch
  <2> QED
    BY <2>1, Stretch
<1>2. \A missed : DigestTrue(Bytes(cells), cells, missed)
  BY DigestOfBytes
<1>3. CASE call.sampled = Untracked
  <2>1. d.digest = Bytes(cells) /\ d.memo = memo
    BY <1>3 DEF SourceDigest
  <2> QED
    BY <1>2, <2>1 DEF MemosTrue
<1>4. CASE call.sampled # Untracked /\ Stands(memo, cells, call.sampled)
  <2>1. d.digest = memo[a].digest /\ d.memo = memo
    BY <1>1, <1>4 DEF SourceDigest
  <2>2. DigestTrue(memo[a].digest, cells, Missed(noCache))
    BY <1>1, <1>4 DEF SampleTrue, Missed
  <2> QED
    BY <2>1, <2>2 DEF MemosTrue
<1>5. CASE call.sampled # Untracked /\ ~Stands(memo, cells, call.sampled)
  <2>1. d.digest = Bytes(cells)
    BY <1>1, <1>5 DEF SourceDigest
  <2>2. \A b \in DOMAIN d.memo : (d.memo[b] = fresh /\ b = a) \/ (b \in DOMAIN memo /\ d.memo[b] = memo[b])
    <3> DEFINE room == IF Cardinality(DOMAIN memo) >= MemoLimit /\ a \notin DOMAIN memo THEN <<>> ELSE memo
    <3>1. d.memo = [b \in DOMAIN room \cup {a} |-> IF b = a THEN fresh ELSE room[b]]
      BY <1>1, <1>5 DEF SourceDigest
    <3>2. DOMAIN <<>> = {}
      OBVIOUS
    <3>3. \A b \in DOMAIN room : b \in DOMAIN memo /\ room[b] = memo[b]
      BY <3>2
    <3> HIDE DEF room, d, fresh
    <3> QED
      BY <3>1, <3>3
  <2>3. MemoTrue(a, fresh)
    <3>1. cells \subseteq GuestCells /\ call.sampled \in Nat /\ call.sampled <= GenerationOf(cells)
      BY <1>5 DEF SampleTrue
    <3>2. fresh.size = n /\ fresh.digest = Bytes(cells) /\ fresh.generation = call.sampled /\ a..(a + fresh.size - 1) = cells
      BY <1>1
    <3>3. Bytes(cells) \in [1..n -> Int] /\ \A c \in cells : Bytes(cells)[c - a + 1] = mem[c]
      <4>1. DigestTrue(Bytes(cells), cells, {})
        BY <1>2
      <4> QED
        BY <1>1, <4>1 DEF DigestTrue
    <3> HIDE DEF fresh
    <3> QED
      BY <3>1, <3>2, <3>3 DEF MemoTrue
  <2>4. ASSUME NEW b \in DOMAIN d.memo PROVE MemoTrue(b, d.memo[b])
    <3> HIDE DEF d, fresh
    <3>1. CASE d.memo[b] = fresh /\ b = a
      BY <2>3, <3>1
    <3>2. CASE b \in DOMAIN memo /\ d.memo[b] = memo[b]
      BY <3>2 DEF MemosTrue
    <3> QED
      BY <2>2, <3>1, <3>2
  <2> QED
    BY <1>2, <2>1, <2>4
<1> QED
  BY <1>3, <1>4, <1>5

\* EFB copies over the sources are fetched first.
LEMMA ResolvingTells ==
  ASSUME TypeTrue, NEW cells, IsFiniteSet(cells), ResolveDeferredReads(cells)
  PROVE  /\ Tells(Awaited(cells)) /\ Awaited(cells)' = {}
         /\ mem' \in [Cells -> Int] /\ pending' \in [GuestCells -> Int] /\ dirty' \subseteq GuestCells
         /\ generation' \in [GuestCells -> Nat] /\ writes' \in Nat /\ \A c \in GuestCells : generation'[c] <= writes'
<1> DEFINE awaited == Awaited(cells)
<1>1. awaited \subseteq cells /\ awaited \subseteq GuestCells /\ IsFiniteSet(awaited)
  <2>1. awaited \in SUBSET cells /\ awaited \subseteq GuestCells
    BY DEF Awaited
  <2> QED
    BY <2>1, FS_Subset
<1>2. Cardinality(awaited) \in Nat /\ (awaited # {} => Cardinality(awaited) # 0)
  BY <1>1, FS_CardinalityType, FS_EmptySet
<1>3. /\ mem' = [c \in Cells |-> IF c \in awaited THEN pending[c] ELSE mem[c]]
      /\ pending' = [c \in GuestCells |-> IF c \in awaited THEN NoValue ELSE pending[c]]
      /\ writes' = writes + Cardinality(awaited)
      /\ generation' = [c \in GuestCells |-> IF c \in awaited THEN writes' ELSE generation[c]]
      /\ dirty' = dirty \ awaited
  BY DEF ResolveDeferredReads
<1>4. \A c \in cells \cap GuestCells : c \notin awaited => pending[c] = NoValue
  BY DEF Awaited
<1> HIDE DEF awaited
<1>5. writes' \in Nat /\ writes' >= writes /\ (awaited # {} => writes' > writes)
  BY <1>2, <1>3 DEF TypeTrue
<1>6. mem' \in [Cells -> Int] /\ pending' \in [GuestCells -> Int] /\ dirty' \subseteq GuestCells
  BY <1>1, <1>3 DEF TypeTrue, NoValue
<1>7. generation' \in [GuestCells -> Nat] /\ \A c \in GuestCells : generation'[c] <= writes'
  BY <1>3, <1>5 DEF TypeTrue
<1>8. Awaited(cells)' = {}
  BY <1>3, <1>4 DEF Awaited
<1>9. Tells(awaited)
  BY <1>3, <1>5 DEF Tells, Cells
<1> QED
  BY <1>5, <1>6, <1>7, <1>8, <1>9 DEF awaited

LEMMA BeginSafe ==
  ASSUME CurrentInv, NEW t \in scene, NEW slot \in SlotsOf(t), Begin(slot)
  PROVE  CurrentInv'
<1>1. t \in Textures /\ TypeTrue /\ MemosTrue /\ EntriesTrue
  BY DEF CurrentInv, TypeTrue, Textures
<1>2. /\ call'.step = "pixels" /\ call'.pixels = <<>> /\ call'.palette = <<>> /\ call'.unsaid = dirty'
      /\ call'.sampled = IF slot.noCache THEN Untracked ELSE GenerationOf(PixelCells)'
  BY DEF Begin, Idle
<1>3. /\ loaded'.texture = t /\ loaded'.noCache = slot.noCache
      /\ loaded'.noCache \in BOOLEAN /\ loaded'.noCachePalette \in BOOLEAN
  BY SlotsTrue DEF Begin
<1>4. /\ IsStretch(PixelCells', t.cell, t.len) /\ IsFiniteSet(SourceCells') /\ SourceCells' \subseteq Cells
  <2>1. PixelCells' = t.cell..(t.cell + t.len - 1)
    BY <1>3 DEF PixelCells, Texture
  <2>2. IsStretch(PixelCells', t.cell, t.len)
    BY <1>1, <2>1, TextureCells DEF IsStretch
  <2>3. IsFiniteSet(PixelCells')
    BY <1>1, <2>1, TextureCells, FS_Interval
  <2>4. IsFiniteSet(PaletteCells') /\ PaletteCells' = IF Indexed' THEN {t.palette} ELSE {}
    BY <1>3, FS_EmptySet, FS_Singleton DEF PaletteCells, Texture
  <2>5. SourceCells' = PixelCells' \cup PaletteCells'
    BY DEF SourceCells
  <2>6. IsFiniteSet(SourceCells')
    BY <2>3, <2>4, <2>5, FS_Union
  <2>7. PixelCells' \subseteq Cells /\ (Indexed' => PaletteCells' \subseteq Cells)
    BY DEF Begin, Found, Cells
  <2> QED
    BY <2>2, <2>4, <2>5, <2>6, <2>7
<1>5. ASSUME NEW cells, cells = SourceCells'
      PROVE  /\ Tells(Awaited(cells)) /\ Awaited(cells)' = {}
             /\ mem' \in [Cells -> Int] /\ pending' \in [GuestCells -> Int] /\ dirty' \subseteq GuestCells
             /\ generation' \in [GuestCells -> Nat] /\ writes' \in Nat /\ \A c \in GuestCells : generation'[c] <= writes'
  <2>1. ResolveDeferredReads(cells)
    BY <1>5 DEF Begin
  <2>2. IsFiniteSet(cells)
    BY <1>4, <1>5
  <2> QED
    BY <1>1, <2>1, <2>2, ResolvingTells
<1>6. Awaited(SourceCells)' = {} /\ \E told : Tells(told)
  <2>1. ASSUME NEW cells, cells = SourceCells' PROVE Awaited(SourceCells)' = {} /\ \E told : Tells(told)
    BY <1>5, <2>1 DEF Awaited
  <2> QED
    BY <2>1
<1>7. call'.sampled \in Int
  <2>1. ASSUME NEW cells, cells = PixelCells', cells \subseteq GuestCells PROVE GenerationOf(PixelCells)' \in Int
    <3>1. IsStretch(cells, t.cell, t.len) /\ cells # {} /\ generation' \in [GuestCells -> Nat] /\ writes' \in Nat
      BY <1>4, <1>5, <2>1, Stretch
    <3>2. Bounded(generation', cells, writes')
      BY <1>5, <2>1, <3>1 DEF Bounded
    <3>3. Max({generation'[c] : c \in cells}) \in Nat
      <4>1. IsNewest(Max({generation'[c] : c \in cells}), generation', cells)
        BY <3>1, <3>2, Newest
      <4> QED
        BY <4>1 DEF IsNewest
    <3> QED
      BY <2>1, <3>3 DEF GenerationOf
  <2>2. ASSUME ~(PixelCells' \subseteq GuestCells) PROVE GenerationOf(PixelCells)' \in Int
    BY <2>2 DEF GenerationOf, Untracked
  <2>3. GenerationOf(PixelCells)' \in Int
    BY <2>1, <2>2
  <2> QED
    BY <1>2, <2>3 DEF Untracked
<1>8. TypeTrue'
  <2>1. /\ call' \in [step : Steps, sampled : Int, pixels : Digests, palette : Digests, unsaid : SUBSET Cells]
    <3>1. <<>> \in Digests /\ dirty' \subseteq Cells
      BY <1>5, EmptySeq DEF Digests, Cells
    <3>2. call' = [step |-> "pixels", sampled |-> call'.sampled, pixels |-> <<>>, palette |-> <<>>, unsaid |-> dirty']
      BY DEF Begin, Idle
    <3> QED
      BY <1>7, <3>1, <3>2 DEF Steps
  <2>2. scene' \in Scenes
    BY <1>1 DEF Begin, TypeTrue
  <2> QED
    BY <1>1, <1>2, <1>3, <1>5, <2>1, <2>2 DEF TypeTrue
<1>9. MemosTrue'
  BY <1>1, <1>6, <1>8, MemosStay DEF Begin
<1>10. EntriesTrue'
  BY <1>1 DEF EntriesTrue, Begin
<1>11. CallTrue'
  <2>1. ASSUME NEW cells, cells = PixelCells', NEW noCache, noCache = slot.noCache PROVE SampleTrue(PixelCells, loaded.noCache)'
    <3>1. call'.sampled = IF noCache THEN Untracked ELSE GenerationOf(cells)'
      BY <1>2, <2>1 DEF GenerationOf
    <3>2. IsStretch(cells, t.cell, t.len) /\ noCache \in BOOLEAN /\ dirty' \subseteq call'.unsaid
      BY <1>2, <1>3, <1>4, <2>1
    <3>3. SampleTrue(cells, noCache)'
      BY <1>8, <1>9, <3>1, <3>2, SamplingTrue
    <3> QED
      BY <1>3, <2>1, <3>3 DEF SampleTrue
  <2>2. SampleTrue(PixelCells, loaded.noCache)'
    BY <2>1
  <2> QED
    BY <1>2, <1>4, <1>6, <2>2 DEF CallTrue
<1> QED
  BY <1>8, <1>9, <1>10, <1>11 DEF CurrentInv

\* Digesting changes no byte and no generation.
LEMMA MemosRenewed ==
  ASSUME MemosTrue, UNCHANGED guest, \A b \in DOMAIN memo' : MemoTrue(b, memo'[b])
  PROVE  MemosTrue'
<1>1. UNCHANGED <<mem, generation, dirty>>
  BY DEF guest
<1>2. \A b \in DOMAIN memo' : MemoTrue(b, memo[b])'
  <2> TAKE b \in DOMAIN memo'
  <2>1. ASSUME NEW e, e = memo'[b] PROVE MemoTrue(b, memo[b])'
    <3>1. MemoTrue(b, e)
      BY <2>1
    <3> QED
      BY <1>1, <2>1, <3>1 DEF MemoTrue, GenerationOf
  <2> QED
    BY <2>1
<1> QED
  BY <1>2 DEF MemosTrue

LEMMA SourcesOf ==
  ASSUME TypeTrue, CallTrue, call.step # "idle"
  PROVE  /\ Texture \in Textures /\ loaded.noCache \in BOOLEAN /\ loaded.noCachePalette \in BOOLEAN
         /\ IsStretch(PixelCells, Texture.cell, Texture.len) /\ PixelCells \subseteq Cells
         /\ Indexed => IsStretch(PaletteCells, Texture.palette, 1) /\ PaletteCells \subseteq Cells
         /\ Awaited(SourceCells) = {} /\ dirty \subseteq call.unsaid /\ SourceCells \subseteq Cells
<1>1. Texture \in Textures /\ loaded.noCache \in BOOLEAN /\ loaded.noCachePalette \in BOOLEAN
  BY DEF TypeTrue, Texture
<1>2. Awaited(SourceCells) = {} /\ dirty \subseteq call.unsaid /\ SourceCells \subseteq Cells
  BY DEF CallTrue
<1>3. PixelCells \subseteq Cells /\ PaletteCells \subseteq Cells
  BY <1>2 DEF SourceCells
<1> QED
  BY <1>1, <1>2, <1>3, PixelStretch, PaletteStretch

LEMMA DigestPixelsSafe ==
  ASSUME CurrentInv, DigestPixels
  PROVE  CurrentInv'
<1> DEFINE cells == PixelCells
           d == SourceDigest(cells, call.sampled)
<1>1. TypeTrue /\ MemosTrue /\ CallTrue /\ EntriesTrue /\ call.step = "pixels" /\ call.step # "idle"
  BY DEF CurrentInv, DigestPixels
<1>2. /\ Texture \in Textures /\ loaded.noCache \in BOOLEAN /\ loaded.noCachePalette \in BOOLEAN
      /\ IsStretch(cells, Texture.cell, Texture.len) /\ cells \subseteq Cells
      /\ Indexed => IsStretch(PaletteCells, Texture.palette, 1) /\ PaletteCells \subseteq Cells
      /\ Awaited(SourceCells) = {} /\ dirty \subseteq call.unsaid /\ SourceCells \subseteq Cells
  BY <1>1, SourcesOf
<1>3. SampleTrue(cells, loaded.noCache)
  BY <1>1 DEF CallTrue
<1>4. DigestTrue(d.digest, cells, Missed(loaded.noCache)) /\ \A b \in DOMAIN d.memo : MemoTrue(b, d.memo[b])
  BY <1>1, <1>2, <1>3, SourceDigestTrue
<1>5. d.digest \in Digests
  BY <1>2, <1>4, DigestTyped
<1>6. memo' = d.memo /\ UNCHANGED guest /\ UNCHANGED <<loaded, entries, clock>>
  BY DEF DigestPixels
<1>7. MemosTrue'
  BY <1>1, <1>4, <1>6, MemosRenewed
<1>8. /\ UNCHANGED <<scene, mem, generation, writes, stores, dirty, pending, hosted>>
      /\ PixelCells' = PixelCells /\ PaletteCells' = PaletteCells /\ SourceCells' = SourceCells /\ Indexed' = Indexed
      /\ Awaited(SourceCells)' = Awaited(SourceCells)
  BY <1>6 DEF guest, PixelCells, PaletteCells, SourceCells, Indexed, Texture, Awaited
<1>9. EntriesTrue'
  BY <1>1, <1>6 DEF EntriesTrue
<1>10. call' = IF Indexed
               THEN [call EXCEPT !.step = "palette", !.pixels = d.digest,
                       !.sampled = IF loaded.noCachePalette THEN Untracked ELSE GenerationOf(PaletteCells),
                       !.unsaid = (@ \cap PixelCells) \cup dirty]
               ELSE [call EXCEPT !.step = "ready", !.pixels = d.digest, !.sampled = 0]
  BY DEF DigestPixels
<1>11. call \in [step : Steps, sampled : Int, pixels : Digests, palette : Digests, unsaid : SUBSET Cells]
  BY <1>1 DEF TypeTrue
<1>12. call.palette = <<>>
  BY <1>1 DEF CallTrue
<1> HIDE DEF d
<1>13. /\ call'.pixels = d.digest /\ call'.palette = call.palette
       /\ dirty' \subseteq call'.unsaid /\ call.unsaid \cap cells \subseteq call'.unsaid
       /\ call'.step = IF Indexed THEN "palette" ELSE "ready"
       /\ Indexed => call'.sampled = IF loaded.noCachePalette THEN Untracked ELSE GenerationOf(PaletteCells)
       /\ ~Indexed => call'.sampled = 0
       /\ call'.unsaid \in SUBSET Cells
       /\ call' = [step |-> call'.step, sampled |-> call'.sampled, pixels |-> call'.pixels, palette |-> call'.palette, unsaid |-> call'.unsaid]
  BY <1>2, <1>8, <1>10, <1>11
<1>14. DigestTrue(call.pixels, PixelCells, Missed(loaded.noCache))'
  <2>1. ASSUME NEW digest, digest = d.digest, NEW S, S = PixelCells,
               NEW missed, missed = Missed(loaded.noCache), NEW more, more = Missed(loaded.noCache)'
        PROVE  DigestTrue(call.pixels, PixelCells, Missed(loaded.noCache))'
    <3>1. DigestTrue(digest, S, missed) /\ \A c \in S : mem'[c] = mem[c]
      BY <1>4, <1>8, <2>1
    <3>2. missed \cap S \subseteq more
      BY <1>6, <1>13, <2>1 DEF Missed
    <3>3. DigestTrue(digest, S, more)'
      BY <3>1, <3>2, DigestStays
    <3> QED
      BY <1>8, <1>13, <2>1, <3>3 DEF DigestTrue
  <2> QED
    BY <2>1
<1>15. GenerationOf(PaletteCells)' = GenerationOf(PaletteCells) /\ (Indexed => GenerationOf(PaletteCells) \in Int)
  <2>1. GenerationOf(PaletteCells)' = GenerationOf(PaletteCells)
    BY <1>8 DEF GenerationOf
  <2>2. ASSUME Indexed, PaletteCells \subseteq GuestCells PROVE GenerationOf(PaletteCells) \in Int
    BY <1>1, <1>2, <2>2, GenerationOfCells DEF IsNewest
  <2>3. ASSUME ~(PaletteCells \subseteq GuestCells) PROVE GenerationOf(PaletteCells) \in Int
    BY <2>3 DEF GenerationOf, Untracked
  <2> QED
    BY <2>1, <2>2, <2>3
<1>16. TypeTrue'
  <2>1. call'.sampled \in Int
    BY <1>13, <1>15 DEF Untracked
  <2>2. call' \in [step : Steps, sampled : Int, pixels : Digests, palette : Digests, unsaid : SUBSET Cells]
    BY <1>5, <1>11, <1>13, <2>1 DEF Steps
  <2> QED
    BY <1>1, <1>6, <1>8, <1>13, <2>2 DEF TypeTrue
<1>17. Indexed => SampleTrue(PaletteCells, loaded.noCachePalette)'
  <2> SUFFICES ASSUME Indexed PROVE SampleTrue(PaletteCells, loaded.noCachePalette)'
    OBVIOUS
  <2>1. ASSUME NEW S, S = PaletteCells, NEW noCache \in BOOLEAN, noCache = loaded.noCachePalette PROVE SampleTrue(S, noCache)'
    <3>1. GenerationOf(S)' = GenerationOf(PaletteCells)
      BY <1>8, <2>1 DEF GenerationOf
    <3>2. call'.sampled = IF noCache THEN Untracked ELSE GenerationOf(S)'
      BY <1>13, <2>1, <3>1
    <3>3. IsStretch(S, Texture.palette, 1) /\ dirty' \subseteq call'.unsaid
      BY <1>2, <1>13, <2>1
    <3> QED
      BY <1>7, <1>16, <3>2, <3>3, SamplingTrue
  <2> QED
    BY <1>2, <1>6, <1>8, <2>1 DEF SampleTrue
<1>18. CallTrue'
  BY <1>2, <1>8, <1>12, <1>13, <1>14, <1>17 DEF CallTrue
<1> QED
  BY <1>7, <1>9, <1>16, <1>18 DEF CurrentInv

LEMMA DigestPaletteSafe ==
  ASSUME CurrentInv, DigestPalette
  PROVE  CurrentInv'
<1> DEFINE cells == PaletteCells
           d == SourceDigest(cells, call.sampled)
<1>1. TypeTrue /\ MemosTrue /\ CallTrue /\ EntriesTrue /\ call.step = "palette" /\ call.step # "idle"
  BY DEF CurrentInv, DigestPalette
<1>2. Indexed /\ SampleTrue(cells, loaded.noCachePalette)
  BY <1>1 DEF CallTrue
<1>3. /\ IsStretch(cells, Texture.palette, 1) /\ cells \subseteq Cells
      /\ Awaited(SourceCells) = {} /\ dirty \subseteq call.unsaid /\ SourceCells \subseteq Cells
  BY <1>1, <1>2, SourcesOf
<1>4. DigestTrue(d.digest, cells, Missed(loaded.noCachePalette)) /\ \A b \in DOMAIN d.memo : MemoTrue(b, d.memo[b])
  BY <1>1, <1>2, <1>3, SourceDigestTrue
<1>5. d.digest \in Digests
  BY <1>3, <1>4, DigestTyped
<1>6. /\ memo' = d.memo /\ UNCHANGED guest /\ UNCHANGED <<loaded, entries, clock>>
      /\ call' = [call EXCEPT !.step = "ready", !.palette = d.digest, !.sampled = 0]
  BY DEF DigestPalette
<1>7. MemosTrue'
  BY <1>1, <1>4, <1>6, MemosRenewed
<1>8. /\ UNCHANGED <<scene, mem, generation, writes, stores, dirty, pending, hosted>>
      /\ PixelCells' = PixelCells /\ PaletteCells' = PaletteCells /\ SourceCells' = SourceCells /\ Indexed' = Indexed
      /\ Awaited(SourceCells)' = Awaited(SourceCells)
  BY <1>6 DEF guest, PixelCells, PaletteCells, SourceCells, Indexed, Texture, Awaited
<1>9. EntriesTrue'
  BY <1>1, <1>6 DEF EntriesTrue
<1>10. /\ call \in [step : Steps, sampled : Int, pixels : Digests, palette : Digests, unsaid : SUBSET Cells]
       /\ DigestTrue(call.pixels, PixelCells, Missed(loaded.noCache))
  BY <1>1 DEF TypeTrue, CallTrue
<1> HIDE DEF d
<1>11. /\ call'.pixels = call.pixels /\ call'.palette = d.digest /\ call'.unsaid = call.unsaid /\ call'.step = "ready"
       /\ call' \in [step : Steps, sampled : Int, pixels : Digests, palette : Digests, unsaid : SUBSET Cells]
  <2>1. "ready" \in Steps /\ 0 \in Int
    BY DEF Steps
  <2>2. ASSUME NEW digest \in Digests, call' = [call EXCEPT !.step = "ready", !.palette = digest, !.sampled = 0]
        PROVE  /\ call'.pixels = call.pixels /\ call'.palette = digest /\ call'.unsaid = call.unsaid /\ call'.step = "ready"
               /\ call' \in [step : Steps, sampled : Int, pixels : Digests, palette : Digests, unsaid : SUBSET Cells]
    BY <1>10, <2>1, <2>2
  <2> QED
    BY <1>5, <1>6, <2>2
<1>12. TypeTrue'
  BY <1>1, <1>6, <1>8, <1>11 DEF TypeTrue
<1>13. DigestTrue(call.pixels, PixelCells, Missed(loaded.noCache))'
  BY <1>6, <1>8, <1>10, <1>11 DEF DigestTrue, Missed
<1>14. DigestTrue(call.palette, PaletteCells, Missed(loaded.noCachePalette))'
  BY <1>4, <1>6, <1>8, <1>11 DEF DigestTrue, Missed
<1>15. CallTrue'
  BY <1>2, <1>3, <1>8, <1>11, <1>13, <1>14 DEF CallTrue
<1> QED
  BY <1>7, <1>9, <1>12, <1>15 DEF CurrentInv

-----------------------------------------------------------------------------
(* What a resolve hands out, and what it leaves.                            *)

\* The call is over, and no byte or memo has changed.
Over == call' = Idle /\ UNCHANGED <<scene, mem, generation, writes, dirty, pending>>

LEMMA OverSafe ==
  ASSUME TypeTrue, MemosTrue, Over, memo' = memo \/ memo' = <<>>
  PROVE  TypeTrue' /\ MemosTrue' /\ CallTrue'
<1>1. Idle.step = "idle" /\ Idle.palette = <<>> /\ Idle \in [step : Steps, sampled : Int, pixels : Digests, palette : Digests, unsaid : SUBSET Cells]
  <2>1. <<>> \in Digests
    BY EmptySeq DEF Digests
  <2> QED
    BY <2>1 DEF Idle, Steps
<1>2. TypeTrue'
  BY <1>1 DEF TypeTrue, Over
<1>3. CallTrue'
  BY <1>1 DEF CallTrue, Over
<1>4. \A b \in DOMAIN memo' : b \in DOMAIN memo /\ memo'[b] = memo[b]
  <2>1. DOMAIN <<>> = {}
    OBVIOUS
  <2> QED
    BY <2>1
<1>5. ASSUME NEW b \in DOMAIN memo' PROVE MemoTrue(b, memo[b])'
  <2>1. ASSUME NEW e, e = memo'[b] PROVE MemoTrue(b, memo[b])'
    <3>1. MemoTrue(b, e)
      BY <1>4, <2>1 DEF MemosTrue
    <3> QED
      BY <2>1, <3>1 DEF MemoTrue, GenerationOf, Over
  <2> QED
    BY <2>1
<1>6. MemosTrue'
  BY <1>5 DEF MemosTrue
<1> QED
  BY <1>2, <1>3, <1>6

\* The key is the bytes there are, or some were missed.
LEMMA KeyDecoded ==
  ASSUME TypeTrue, CallTrue, call.step = "ready"
  PROVE  /\ Key \in Keys /\ Decoded \in Keys
         /\ Unsaid \/ Key = Decoded
<1>1. call.step # "idle"
  OBVIOUS
<1>2. /\ Texture \in Textures /\ loaded.noCache \in BOOLEAN /\ loaded.noCachePalette \in BOOLEAN
      /\ IsStretch(PixelCells, Texture.cell, Texture.len) /\ PixelCells \subseteq Cells
      /\ Indexed => IsStretch(PaletteCells, Texture.palette, 1) /\ PaletteCells \subseteq Cells
  BY <1>1, SourcesOf
<1>3. /\ DigestTrue(call.pixels, PixelCells, Missed(loaded.noCache))
      /\ Indexed => DigestTrue(call.palette, PaletteCells, Missed(loaded.noCachePalette))
      /\ ~Indexed => call.palette = <<>>
  BY DEF CallTrue
<1>4. Texture.shape \in Shapes /\ Indexed \in BOOLEAN /\ call.pixels \in Digests /\ call.palette \in Digests
  BY <1>2 DEF Shapes, Indexed, TypeTrue
<1>5. Bytes(PixelCells) \in Digests /\ (Indexed => Bytes(PaletteCells) \in Digests) /\ <<>> \in Digests
  <2>1. DigestTrue(Bytes(PixelCells), PixelCells, {})
    BY <1>2, DigestOfBytes
  <2>2. Indexed => DigestTrue(Bytes(PaletteCells), PaletteCells, {})
    BY <1>2, DigestOfBytes
  <2>3. Bytes(PixelCells) \in Digests
    BY <1>2, <2>1, DigestTyped
  <2>4. Indexed => Bytes(PaletteCells) \in Digests
    BY <1>2, <2>2, DigestTyped
  <2>5. <<>> \in Digests
    BY EmptySeq DEF Digests
  <2> QED
    BY <2>3, <2>4, <2>5
<1>6. Key \in Keys /\ Decoded \in Keys
  BY <1>4, <1>5 DEF Key, Decoded, Keys
<1>7. ASSUME ~Unsaid PROVE Key = Decoded
  <2>1. PixelCells \cap Missed(loaded.noCache) = {} /\ PaletteCells \cap Missed(loaded.noCachePalette) = {}
    BY <1>7 DEF Unsaid, Missed
  <2>2. call.pixels = Bytes(PixelCells)
    BY <1>2, <1>3, <2>1, DigestWhole
  <2>3. Indexed => call.palette = Bytes(PaletteCells)
    BY <1>2, <1>3, <2>1, DigestWhole
  <2> QED
    BY <1>3, <2>2, <2>3 DEF Key, Decoded
<1> QED
  BY <1>6, <1>7

\* A stamp is a number, and taking one changes nothing else of an entry.
LEMMA StampTyped ==
  ASSUME EntriesTrue
  PROVE  /\ NextStamp.clock \in Nat /\ DOMAIN NextStamp.entries = DOMAIN entries
         /\ \A k \in DOMAIN entries :
               /\ NextStamp.entries[k] \in [content : Keys, stamp : Nat, unsaid : BOOLEAN]
               /\ NextStamp.entries[k].content = entries[k].content /\ NextStamp.entries[k].unsaid = entries[k].unsaid
<1>1. clock + 1 \in Nat /\ \A k \in DOMAIN entries : entries[k] \in [content : Keys, stamp : Nat, unsaid : BOOLEAN]
  BY DEF EntriesTrue
<1>2. CASE (clock + 1) % ClockLimit = 0
  <2>1. NextStamp.clock = 1 /\ NextStamp.entries = [k \in DOMAIN entries |-> [entries[k] EXCEPT !.stamp = 0]]
    BY <1>2 DEF NextStamp
  <2>2. \A k \in DOMAIN entries : NextStamp.entries[k] = [entries[k] EXCEPT !.stamp = 0]
    BY <2>1
  <2>3. DOMAIN NextStamp.entries = DOMAIN entries
    BY <2>1
  <2>4. \A e \in [content : Keys, stamp : Nat, unsaid : BOOLEAN] :
          /\ [e EXCEPT !.stamp = 0] \in [content : Keys, stamp : Nat, unsaid : BOOLEAN]
          /\ [e EXCEPT !.stamp = 0].content = e.content /\ [e EXCEPT !.stamp = 0].unsaid = e.unsaid
    OBVIOUS
  <2>5. \A k \in DOMAIN entries :
          /\ [entries[k] EXCEPT !.stamp = 0] \in [content : Keys, stamp : Nat, unsaid : BOOLEAN]
          /\ [entries[k] EXCEPT !.stamp = 0].content = entries[k].content /\ [entries[k] EXCEPT !.stamp = 0].unsaid = entries[k].unsaid
    BY <1>1, <2>4
  <2> QED
    BY <2>1, <2>2, <2>3, <2>5
<1>3. CASE (clock + 1) % ClockLimit # 0
  <2>1. NextStamp.clock = clock + 1 /\ NextStamp.entries = entries
    BY <1>3 DEF NextStamp
  <2> QED
    BY <1>1, <2>1
<1> QED
  BY <1>2, <1>3

LEMMA HitTrue ==
  ASSUME EntriesTrue, Hit
  PROVE  EntriesTrue'
<1> DEFINE stamped == NextStamp
<1>1. /\ stamped.clock \in Nat /\ DOMAIN stamped.entries = DOMAIN entries
      /\ \A k \in DOMAIN entries :
            /\ stamped.entries[k] \in [content : Keys, stamp : Nat, unsaid : BOOLEAN]
            /\ stamped.entries[k].content = entries[k].content /\ stamped.entries[k].unsaid = entries[k].unsaid
  BY StampTyped
<1>2. /\ entries' = [stamped.entries EXCEPT ![Key].stamp = stamped.clock] /\ clock' = stamped.clock
  BY DEF Hit
<1> HIDE DEF stamped
<1>3. ASSUME NEW k \in DOMAIN entries'
      PROVE  /\ k \in DOMAIN entries /\ entries'[k] \in [content : Keys, stamp : Nat, unsaid : BOOLEAN]
             /\ entries'[k].content = entries[k].content /\ entries'[k].unsaid = entries[k].unsaid
  <2>1. k \in DOMAIN entries
    BY <1>1, <1>2
  <2>2. entries'[k] = [stamped.entries[k] EXCEPT !.stamp = stamped.clock] \/ entries'[k] = stamped.entries[k]
    BY <1>1, <1>2, <2>1
  <2>3. \A e \in [content : Keys, stamp : Nat, unsaid : BOOLEAN], n \in Nat :
          /\ [e EXCEPT !.stamp = n] \in [content : Keys, stamp : Nat, unsaid : BOOLEAN]
          /\ [e EXCEPT !.stamp = n].content = e.content /\ [e EXCEPT !.stamp = n].unsaid = e.unsaid
    OBVIOUS
  <2>4. /\ [stamped.entries[k] EXCEPT !.stamp = stamped.clock] \in [content : Keys, stamp : Nat, unsaid : BOOLEAN]
        /\ [stamped.entries[k] EXCEPT !.stamp = stamped.clock].content = stamped.entries[k].content
        /\ [stamped.entries[k] EXCEPT !.stamp = stamped.clock].unsaid = stamped.entries[k].unsaid
    BY <1>1, <2>1, <2>3
  <2> QED
    BY <1>1, <2>1, <2>2, <2>4
<1> QED
  BY <1>1, <1>2, <1>3 DEF EntriesTrue

LEMMA UploadTrue ==
  ASSUME TypeTrue, CallTrue, EntriesTrue, Upload
  PROVE  EntriesTrue'
<1>1. Key \in Keys /\ Decoded \in Keys /\ (Unsaid \/ Key = Decoded)
  BY KeyDecoded DEF Upload
<1> DEFINE stamped == NextStamp
           new == [content |-> Decoded, stamp |-> stamped.clock, unsaid |-> Unsaid]
<1>2. /\ stamped.clock \in Nat
      /\ \A k \in DOMAIN entries :
            /\ stamped.entries[k] \in [content : Keys, stamp : Nat, unsaid : BOOLEAN]
            /\ stamped.entries[k].content = entries[k].content /\ stamped.entries[k].unsaid = entries[k].unsaid
  BY StampTyped
<1>3. new \in [content : Keys, stamp : Nat, unsaid : BOOLEAN] /\ new.content = Decoded /\ (new.unsaid \/ new.content = Key)
  <2>1. Unsaid \in BOOLEAN
    BY DEF Unsaid
  <2>2. ASSUME NEW missed \in BOOLEAN, missed = Unsaid, NEW n \in Nat, n = stamped.clock
        PROVE  new \in [content : Keys, stamp : Nat, unsaid : BOOLEAN] /\ new.content = Decoded /\ (new.unsaid \/ new.content = Key)
    BY <1>1, <2>2
  <2> QED
    BY <1>2, <2>1, <2>2
<1>4. CASE UNCHANGED <<entries, clock>>
  BY <1>4 DEF EntriesTrue
<1>5. CASE \E kept \in KeptOf(Inserted) : entries' = [k \in kept |-> Inserted[k]] /\ clock' = stamped.clock
  <2>1. PICK kept \in KeptOf(Inserted) : entries' = [k \in kept |-> Inserted[k]] /\ clock' = stamped.clock
    BY <1>5
  <2>2. kept \subseteq DOMAIN Inserted
    BY DEF KeptOf
  <2>3. Inserted = [k \in DOMAIN entries \cup {Key} |-> IF k = Key THEN new ELSE stamped.entries[k]]
    BY DEF Inserted
  <2> HIDE DEF new, stamped
  <2>4. \A k \in DOMAIN entries' : (k = Key /\ entries'[k] = new) \/ (k \in DOMAIN entries /\ entries'[k] = stamped.entries[k])
    BY <2>1, <2>2, <2>3
  <2>5. \A k \in DOMAIN entries : k \in Keys /\ (entries[k].unsaid \/ entries[k].content = k)
    BY DEF EntriesTrue
  <2> QED
    BY <1>1, <1>2, <1>3, <2>1, <2>4, <2>5 DEF EntriesTrue
<1> QED
  BY <1>4, <1>5 DEF Upload

LEMMA NextSafe ==
  ASSUME CurrentInv, [Next]_vars
  PROVE  CurrentInv'
<1>1. TypeTrue /\ MemosTrue /\ CallTrue /\ EntriesTrue
  BY DEF CurrentInv
<1>2. CASE GuestStep
  BY <1>2, GuestSafe
<1>3. ASSUME NEW t \in scene, NEW slot \in SlotsOf(t), Begin(slot) PROVE CurrentInv'
  BY <1>3, BeginSafe
<1>4. CASE DigestPixels
  BY <1>4, DigestPixelsSafe
<1>5. CASE DigestPalette
  BY <1>5, DigestPaletteSafe
<1>6. CASE Hit
  <2>1. Over /\ memo' = memo
    BY <1>6 DEF Hit, Over, guest
  <2> QED
    BY <1>1, <1>6, <2>1, OverSafe, HitTrue DEF CurrentInv
<1>7. CASE Upload
  <2>1. Over /\ memo' = memo
    BY <1>7 DEF Upload, Over, guest
  <2> QED
    BY <1>1, <1>7, <2>1, OverSafe, UploadTrue DEF CurrentInv
<1>8. CASE UploadFails
  <2>1. Over /\ memo' = memo /\ UNCHANGED <<entries, clock>>
    BY <1>8 DEF UploadFails, Over, guest
  <2>2. EntriesTrue'
    BY <1>1, <2>1 DEF EntriesTrue
  <2> QED
    BY <1>1, <2>1, <2>2, OverSafe DEF CurrentInv
<1>9. CASE Clear
  <2>1. Over /\ memo' = <<>> /\ entries' = <<>> /\ clock' = clock
    BY <1>9 DEF Clear, Over, guest
  <2>2. DOMAIN entries' = {}
    BY <2>1
  <2>3. EntriesTrue'
    BY <1>1, <2>1, <2>2 DEF EntriesTrue
  <2> QED
    BY <1>1, <2>1, <2>3, OverSafe DEF CurrentInv
<1>10. CASE UNCHANGED vars
  <2>1. UNCHANGED <<scene, mem, generation, writes, dirty, pending, loaded, memo, entries, clock, call>>
    BY <1>10 DEF vars
  <2>2. TypeTrue' /\ EntriesTrue'
    BY <1>1, <2>1 DEF TypeTrue, EntriesTrue
  <2>3. MemosTrue'
    <3>1. UNCHANGED guest
      BY <1>10 DEF vars, guest
    <3>2. \A b \in DOMAIN memo' : MemoTrue(b, memo'[b])
      BY <1>1, <2>1 DEF MemosTrue
    <3> QED
      BY <1>1, <3>1, <3>2, MemosRenewed
  <2>4. CallTrue'
    BY <1>1, <2>1 DEF CallTrue, SampleTrue, DigestTrue, Stands, Missed, GenerationOf, Awaited, SourceCells, PixelCells, PaletteCells, Indexed, Texture
  <2> QED
    BY <2>2, <2>3, <2>4 DEF CurrentInv
<1> QED
  BY <1>2, <1>3, <1>4, <1>5, <1>6, <1>7, <1>8, <1>9, <1>10 DEF Next, GuestStep

LEMMA InitTrue ==
  ASSUME Init
  PROVE  CurrentInv
<1>1. DOMAIN <<>> = {} /\ <<>> \in Digests
  BY EmptySeq DEF Digests
<1>2. MemosTrue /\ EntriesTrue
  BY <1>1 DEF Init, MemosTrue, EntriesTrue
<1>3. call = Idle /\ Idle.step = "idle" /\ Idle.palette = <<>>
      /\ Idle \in [step : Steps, sampled : Int, pixels : Digests, palette : Digests, unsaid : SUBSET Cells]
  BY <1>1 DEF Init, Idle, Steps
<1>4. CallTrue
  BY <1>3 DEF CallTrue
<1>5. mem \in [Cells -> Int]
  <2>1. Values \in SUBSET Nat /\ Values # {}
    BY TexturesAssumption
  <2>2. \E v \in Values : \A w \in Values : v <= w
    BY <2>1, LeastOf
  <2>3. (CHOOSE v \in Values : \A w \in Values : v <= w) \in Values
    BY <2>2
  <2>4. ASSUME NEW least \in Values, mem = [c \in Cells |-> least] PROVE mem \in [Cells -> Int]
    BY <2>1, <2>4
  <2> QED
    BY <2>3, <2>4 DEF Init
<1>6. TypeTrue
  BY <1>3, <1>5 DEF Init, TypeTrue, NoValue
<1> QED
  BY <1>2, <1>4, <1>6 DEF CurrentInv

\* Memos, keys and entries are of the bytes of RAM and of the host vector, but
\* for those the guest has not told of.
THEOREM CurrentInvariance == Spec => []CurrentInv
<1>1. Init => CurrentInv
  BY InitTrue
<1>2. CurrentInv /\ [Next]_vars => CurrentInv'
  BY NextSafe
<1> QED
  BY <1>1, <1>2, PTL DEF Spec

LEMMA ServesStep ==
  ASSUME CurrentInv, Hit \/ Upload
  PROVE  \/ Returned = Decoded /\ Awaited(SourceCells) = {}
         \/ Unsaid
         \/ Key \in DOMAIN entries /\ entries[Key].unsaid
<1>1. TypeTrue /\ CallTrue /\ EntriesTrue /\ call.step = "ready" /\ call.step # "idle"
  BY DEF CurrentInv, Hit, Upload
<1>2. Awaited(SourceCells) = {} /\ (Unsaid \/ Key = Decoded)
  BY <1>1, SourcesOf, KeyDecoded
<1>3. Key \in DOMAIN entries => entries[Key].unsaid \/ entries[Key].content = Key
  BY <1>1 DEF EntriesTrue
<1> QED
  BY <1>2, <1>3 DEF Returned

\* A resolve returns the texture of the bytes there are, EFB copies included,
\* but for bytes the guest has not told of: a memo, a key and an entry hold
\* between them whatever was stored, told, copied or freed since.
THEOREM ServesSafe == Spec => ServesCurrent
<1>1. CurrentInv /\ [Next]_vars =>
        [Hit \/ Upload =>
          \/ Returned = Decoded /\ Awaited(SourceCells) = {}
          \/ Unsaid
          \/ Key \in DOMAIN entries /\ entries[Key].unsaid]_vars
  BY ServesStep
<1> QED
  BY <1>1, CurrentInvariance, PTL DEF Spec, ServesCurrent

-----------------------------------------------------------------------------
(* What textures take.                                                      *)

LEMMA TwoToThe ==
  ASSUME NEW m \in Nat
  PROVE  2 ^ m \in Nat \ {0}
<1>1. IsFiniteSet(1..m) /\ Cardinality(1..m) = m
  <2>1. IsFiniteSet(1..m) /\ Cardinality(1..m) = IF 1 > m THEN 0 ELSE m - 1 + 1
    BY FS_Interval
  <2> QED
    BY <2>1
<1>2. IsFiniteSet(SUBSET (1..m)) /\ Cardinality(SUBSET (1..m)) = 2 ^ m
  <2>1. IsFiniteSet(SUBSET (1..m)) /\ Cardinality(SUBSET (1..m)) = 2 ^ Cardinality(1..m)
    BY <1>1, FS_SUBSET
  <2> QED
    BY <1>1, <2>1
<1>3. SUBSET (1..m) # {}
  OBVIOUS
<1>4. Cardinality(SUBSET (1..m)) \in Nat /\ Cardinality(SUBSET (1..m)) # 0
  BY <1>2, <1>3, FS_CardinalityType, FS_EmptySet
<1> QED
  BY <1>2, <1>4

LEMMA CeilMipTyped ==
  ASSUME NEW n \in Nat, NEW m \in Nat
  PROVE  CeilMip(n, m) \in Nat
<1>1. ASSUME NEW p \in Nat \ {0} PROVE (n + p - 1) \div p \in Int
  OBVIOUS
<1>2. (n + 2 ^ m - 1) \div 2 ^ m \in Int
  BY <1>1, TwoToThe
<1>3. ASSUME NEW b \in Int PROVE Larger(1, b) \in Nat
  BY DEF Larger
<1> QED
  BY <1>2, <1>3 DEF CeilMip

LEMMA AcrossTyped ==
  ASSUME NEW n \in Nat
  PROVE  BlocksAcross(n) \in Nat
  BY DEF BlocksAcross

LEMMA InInterval ==
  ASSUME NEW b \in Nat, NEW x \in 1..b
  PROVE  x \in Nat
  OBVIOUS

LEMMA ShapeTyped ==
  ASSUME NEW s, ValidShape(s)
  PROVE  s[1] \in Nat /\ s[2] \in Nat /\ s[3] \in Nat
<1>1. s[1] \in 1..MaxSide /\ s[2] \in 1..MaxSide /\ s[3] \in 1..15
  BY DEF ValidShape
<1>2. MaxSide \in Nat /\ 15 \in Nat
  BY DEF MaxSide
<1> QED
  BY <1>1, <1>2, InInterval, Zenon

\* The image of a finite set.
LEMMA FiniteImage ==
  ASSUME NEW S, IsFiniteSet(S), NEW f, DOMAIN f = S
  PROVE  IsFiniteSet({f[x] : x \in S})
<1> DEFINE T == {f[x] : x \in S}
<1>1. [x \in S |-> f[x]] \in Surjection(S, T)
  BY DEF Surjection
<1> QED
  BY <1>1, FS_Surjection

LEMMA MipFinite ==
  ASSUME NEW s, ValidShape(s), NEW m \in Levels(s)
  PROVE  IsFiniteSet(MipBlocks(s, m))
<1>1. s[1] \in Nat /\ s[2] \in Nat /\ m \in Nat
  <2>1. s[1] \in Nat /\ s[2] \in Nat /\ s[3] \in Nat
    BY ShapeTyped
  <2>2. ASSUME NEW n \in Nat, NEW k \in 0..(n - 1) PROVE k \in Nat
    OBVIOUS
  <2> QED
    BY <2>1, <2>2 DEF Levels
<1>2. PaddedBlocks(s, m) \in Nat /\ BlocksAcross(CeilMip(s[2], m)) \in Nat
  BY <1>1, CeilMipTyped, AcrossTyped DEF PaddedBlocks
<1>3. IsFiniteSet({m}) /\ IsFiniteSet(1..PaddedBlocks(s, m)) /\ IsFiniteSet(1..BlocksAcross(CeilMip(s[2], m)))
  <2>1. \A n \in Nat : IsFiniteSet(1..n)
    <3>1. 1 \in Int /\ \A n \in Nat : n \in Int
      OBVIOUS
    <3> QED
      BY <3>1, FS_Interval
  <2> QED
    BY <1>2, <2>1, FS_Singleton
<1>4. IsFiniteSet({m} \X (1..PaddedBlocks(s, m)))
  BY <1>3, FS_Product
<1>5. ASSUME NEW A, NEW B, NEW C, IsFiniteSet(A), IsFiniteSet(B), IsFiniteSet(C) PROVE IsFiniteSet(A \X B \X C)
  <2>1. IsFiniteSet((A \X B) \X C)
    BY <1>5, FS_Product
  <2> DEFINE f == [p \in (A \X B) \X C |-> <<p[1][1], p[1][2], p[2]>>]
  <2>2. f \in Surjection((A \X B) \X C, A \X B \X C)
    <3>1. f \in [(A \X B) \X C -> A \X B \X C]
      OBVIOUS
    <3>2. ASSUME NEW q \in A \X B \X C PROVE \E p \in (A \X B) \X C : f[p] = q
      <4>1. <<<<q[1], q[2]>>, q[3]>> \in (A \X B) \X C
        OBVIOUS
      <4>2. f[<<<<q[1], q[2]>>, q[3]>>] = q
        BY <4>1
      <4> QED
        BY <4>1, <4>2
    <3> QED
      BY <3>1, <3>2 DEF Surjection
  <2> QED
    BY <2>1, <2>2, FS_Surjection
<1>6. IsFiniteSet({m} \X (1..PaddedBlocks(s, m)) \X (1..BlocksAcross(CeilMip(s[2], m))))
  BY <1>3, <1>5
<1> QED
  BY <1>6, FS_EmptySet DEF MipBlocks

\* What is accounted for a texture is a number.
LEMMA BlocksTyped ==
  ASSUME NEW s, ValidShape(s)
  PROVE  Blocks(s) \in Nat
<1>1. IsFiniteSet(Levels(s))
  <2>1. s[3] \in Nat
    BY ShapeTyped
  <2>2. s[3] - 1 \in Int /\ 0 \in Int
    BY <2>1
  <2> QED
    BY <2>2, FS_Interval DEF Levels
<1> DEFINE f == [m \in Levels(s) |-> MipBlocks(s, m)]
           mips == {MipBlocks(s, m) : m \in Levels(s)}
<1>2. IsFiniteSet(mips)
  <2>1. IsFiniteSet({f[m] : m \in Levels(s)})
    BY <1>1, FiniteImage
  <2>2. mips = {f[m] : m \in Levels(s)}
    OBVIOUS
  <2> QED
    BY <2>1, <2>2
<1>3. \A b \in mips : IsFiniteSet(b)
  BY MipFinite
<1>4. IsFiniteSet(UNION mips)
  BY <1>2, <1>3, FS_UNION
<1>5. Cardinality(UNION mips) \in Nat
  BY <1>4, FS_CardinalityType
<1>6. TailBlocks(s) \in Nat
  BY DEF TailBlocks
<1> QED
  BY <1>5, <1>6 DEF Blocks, BlocksOf

LEMMA ByteSizeTyped ==
  ASSUME NEW s \in Shapes
  PROVE  ByteSize(s) \in Nat
<1>1. \E p \in ByteSizes : p[1] = s
  <2>1. <<s, Blocks(s)>> \in ByteSizes
    BY DEF ByteSizes
  <2>2. <<s, Blocks(s)>>[1] = s
    OBVIOUS
  <2> QED
    BY <2>1, <2>2
<1>2. PICK p \in ByteSizes : p = CHOOSE q \in ByteSizes : q[1] = s
  BY <1>1
<1>3. p \in ByteSizes /\ p[1] = s
  BY <1>1, <1>2
<1>4. p[2] = Blocks(s)
  <2>1. PICK r \in Shapes : p = <<r, Blocks(r)>>
    BY <1>3 DEF ByteSizes
  <2>2. r = s
    BY <1>3, <2>1
  <2> QED
    BY <2>1, <2>2
<1>5. ByteSize(s) = Blocks(s)
  BY <1>2, <1>4 DEF ByteSize
<1> QED
  BY <1>5, BlocksTyped, ShapesAssumption

\* The blocks of the entries under some keys.
Owned(keys) == UNION {{k} \X (1..ByteSize(k[1])) : k \in keys}

LEMMA OwnedOf ==
  ASSUME NEW keys, NEW more
  PROVE  /\ Owned(keys \cup more) = Owned(keys) \cup Owned(more)
         /\ keys \cap more = {} => Owned(keys) \cap Owned(more) = {}
         /\ keys \subseteq more => Owned(keys) \subseteq Owned(more)
  BY DEF Owned

LEMMA OwnedByOne ==
  ASSUME NEW k \in Keys
  PROVE  IsFiniteSet(Owned({k})) /\ BlocksUsed({k}) = ByteSize(k[1]) /\ ByteSize(k[1]) \in Nat
<1>1. ByteSize(k[1]) \in Nat
  BY ByteSizeTyped DEF Keys
<1>2. Owned({k}) = {k} \X (1..ByteSize(k[1]))
  BY DEF Owned
<1>3. IsFiniteSet({k}) /\ Cardinality({k}) = 1
  BY FS_Singleton
<1>4. IsFiniteSet(1..ByteSize(k[1])) /\ Cardinality(1..ByteSize(k[1])) = ByteSize(k[1])
  <2>1. ASSUME NEW n \in Nat PROVE IsFiniteSet(1..n) /\ Cardinality(1..n) = n
    <3>1. IsFiniteSet(1..n) /\ Cardinality(1..n) = IF 1 > n THEN 0 ELSE n - 1 + 1
      BY FS_Interval
    <3> QED
      BY <3>1
  <2> QED
    BY <1>1, <2>1
<1>5. IsFiniteSet(Owned({k})) /\ Cardinality(Owned({k})) = 1 * ByteSize(k[1])
  <2>1. /\ IsFiniteSet({k} \X (1..ByteSize(k[1])))
        /\ Cardinality({k} \X (1..ByteSize(k[1]))) = Cardinality({k}) * Cardinality(1..ByteSize(k[1]))
    BY <1>3, <1>4, FS_Product
  <2> QED
    BY <1>2, <1>3, <1>4, <2>1
<1>6. BlocksUsed({k}) = Cardinality(Owned({k}))
  BY DEF BlocksUsed, Owned
<1> QED
  BY <1>1, <1>5, <1>6

\* Keys apart own blocks apart.
LEMMA UsedAdds ==
  ASSUME NEW keys, NEW more, IsFiniteSet(Owned(keys)), IsFiniteSet(Owned(more)), keys \cap more = {}
  PROVE  /\ IsFiniteSet(Owned(keys \cup more))
         /\ BlocksUsed(keys \cup more) = BlocksUsed(keys) + BlocksUsed(more)
         /\ BlocksUsed(keys) \in Nat /\ BlocksUsed(more) \in Nat
<1>1. Owned(keys \cup more) = Owned(keys) \cup Owned(more) /\ Owned(keys) \cap Owned(more) = {}
  BY OwnedOf
<1>2. /\ IsFiniteSet(Owned(keys) \cup Owned(more))
      /\ Cardinality(Owned(keys) \cup Owned(more)) =
            Cardinality(Owned(keys)) + Cardinality(Owned(more)) - Cardinality(Owned(keys) \cap Owned(more))
  BY FS_Union
<1>3. Cardinality(Owned(keys) \cap Owned(more)) = 0
  BY <1>1, FS_EmptySet
<1>4. Cardinality(Owned(keys)) \in Nat /\ Cardinality(Owned(more)) \in Nat
  BY FS_CardinalityType
<1>5. \A ks : BlocksUsed(ks) = Cardinality(Owned(ks))
  BY DEF BlocksUsed, Owned
<1>6. Cardinality(Owned(keys) \cup Owned(more)) = Cardinality(Owned(keys)) + Cardinality(Owned(more))
  BY <1>2, <1>3, <1>4
<1> QED
  BY <1>1, <1>2, <1>4, <1>5, <1>6

-----------------------------------------------------------------------------
(* The budget.                                                              *)

\* No stamp is ahead of the clock, and some entry has the last one given.
StampsBehind ==
    /\ clock < ClockLimit
    /\ \A k \in DOMAIN entries : entries[k].stamp <= clock
    /\ clock > 0 /\ entries # <<>> => \E k \in DOMAIN entries : entries[k].stamp = clock

UsedTrue ==
    /\ IsFiniteSet(Owned(DOMAIN entries))
    /\ used = BlocksUsed(DOMAIN entries) /\ used <= Budget

BudgetInv == CurrentInv /\ StampsBehind /\ UsedTrue

LEMMA WrapOf ==
  ASSUME NEW n \in Nat, NEW limit \in Nat \ {0, 1}, n < limit
  PROVE  (n + 1) % limit # 0 => n + 1 < limit
<1>1. CASE n + 1 < limit
  BY <1>1
<1>2. CASE n + 1 = limit
  <2>1. limit % limit = 0
    OBVIOUS
  <2> QED
    BY <1>2, <2>1
<1> QED
  BY <1>1, <1>2

\* The next stamp is ahead of all there are.
LEMMA NextStampAhead ==
  ASSUME EntriesTrue, StampsBehind
  PROVE  /\ NextStamp.clock \in Nat /\ NextStamp.clock > 0 /\ NextStamp.clock < ClockLimit
         /\ DOMAIN NextStamp.entries = DOMAIN entries
         /\ \A k \in DOMAIN entries : NextStamp.entries[k].stamp \in Nat /\ NextStamp.entries[k].stamp < NextStamp.clock
<1>1. clock \in Nat /\ clock < ClockLimit /\ ClockLimit \in Nat \ {0, 1}
  BY TexturesAssumption DEF EntriesTrue, StampsBehind
<1>2. \A k \in DOMAIN entries : entries[k] \in [content : Keys, stamp : Nat, unsaid : BOOLEAN] /\ entries[k].stamp <= clock
  BY DEF EntriesTrue, StampsBehind
<1>3. CASE (clock + 1) % ClockLimit = 0
  <2>1. NextStamp.clock = 1 /\ NextStamp.entries = [k \in DOMAIN entries |-> [entries[k] EXCEPT !.stamp = 0]]
    BY <1>3 DEF NextStamp
  <2>2. \A k \in DOMAIN entries : NextStamp.entries[k] = [entries[k] EXCEPT !.stamp = 0]
    BY <2>1
  <2>3. \A e \in [content : Keys, stamp : Nat, unsaid : BOOLEAN] : [e EXCEPT !.stamp = 0].stamp = 0
    OBVIOUS
  <2>4. DOMAIN NextStamp.entries = DOMAIN entries
    BY <2>1
  <2>5. \A k \in DOMAIN entries : NextStamp.entries[k].stamp = 0
    BY <1>2, <2>2, <2>3
  <2> QED
    BY <1>1, <2>1, <2>4, <2>5
<1>4. CASE (clock + 1) % ClockLimit # 0
  <2>1. NextStamp.clock = clock + 1 /\ NextStamp.entries = entries
    BY <1>4 DEF NextStamp
  <2>2. clock + 1 < ClockLimit
    BY <1>1, <1>4, WrapOf
  <2> QED
    BY <1>1, <1>2, <2>1, <2>2
<1> QED
  BY <1>3, <1>4

\* What is newer than all others, and within the budget by itself, is kept.
LEMMA NewestKept ==
  ASSUME NEW all, NEW k \in DOMAIN all,
         \A j \in DOMAIN all : all[j].stamp \in Nat /\ (j # k => all[j].stamp < all[k].stamp),
         BlocksUsed({k}) \in Nat, BlocksUsed({k}) <= Budget, NEW kept \in KeptOf(all)
  PROVE  k \in kept
<1>1. /\ kept \subseteq DOMAIN all
      /\ \A g \in DOMAIN all \ kept, j \in kept : all[g].stamp <= all[j].stamp
      /\ DOMAIN all \ kept # {} => \E last \in DOMAIN all \ kept :
            /\ BlocksUsed(kept \cup {last}) > Budget
            /\ \A g \in DOMAIN all \ kept : all[g].stamp <= all[last].stamp
  BY DEF KeptOf
<1> SUFFICES ASSUME k \notin kept PROVE FALSE
  OBVIOUS
<1>2. k \in DOMAIN all \ kept
  OBVIOUS
<1>3. \A j \in DOMAIN all : all[k].stamp <= all[j].stamp => j = k
  OBVIOUS
<1>4. kept = {}
  BY <1>1, <1>2, <1>3
<1>5. PICK last \in DOMAIN all \ kept :
         BlocksUsed(kept \cup {last}) > Budget /\ \A g \in DOMAIN all \ kept : all[g].stamp <= all[last].stamp
  BY <1>1, <1>2
<1>6. last = k
  BY <1>2, <1>3, <1>5
<1>7. kept \cup {last} = {k}
  BY <1>4, <1>6
<1>8. BlocksUsed({k}) > Budget /\ Budget \in Nat
  BY <1>5, <1>7, TexturesAssumption
<1> QED
  BY <1>8

LEMMA HitKeeps ==
  ASSUME BudgetInv, Hit
  PROVE  StampsBehind' /\ UsedTrue'
<1> DEFINE stamped == NextStamp
<1>1. EntriesTrue /\ StampsBehind /\ UsedTrue
  BY DEF BudgetInv, CurrentInv
<1>2. /\ stamped.clock \in Nat /\ stamped.clock > 0 /\ stamped.clock < ClockLimit
      /\ DOMAIN stamped.entries = DOMAIN entries
      /\ \A k \in DOMAIN entries : stamped.entries[k].stamp \in Nat /\ stamped.entries[k].stamp < stamped.clock
      /\ \A k \in DOMAIN entries : stamped.entries[k] \in [content : Keys, stamp : Nat, unsaid : BOOLEAN]
  BY <1>1, NextStampAhead, StampTyped
<1>3. /\ entries' = [stamped.entries EXCEPT ![Key].stamp = stamped.clock] /\ clock' = stamped.clock /\ used' = used
      /\ Key \in DOMAIN entries
  BY DEF Hit
<1> HIDE DEF stamped
<1>4. DOMAIN entries' = DOMAIN entries
  BY <1>2, <1>3
<1>5. entries'[Key].stamp = clock'
  <2>1. entries'[Key] = [stamped.entries[Key] EXCEPT !.stamp = stamped.clock]
    BY <1>2, <1>3
  <2>2. \A e \in [content : Keys, stamp : Nat, unsaid : BOOLEAN], n \in Nat : [e EXCEPT !.stamp = n].stamp = n
    OBVIOUS
  <2>3. [stamped.entries[Key] EXCEPT !.stamp = stamped.clock].stamp = stamped.clock
    BY <1>2, <1>3, <2>2
  <2> QED
    BY <1>3, <2>1, <2>3
<1>6. \A k \in DOMAIN entries : k # Key => entries'[k] = stamped.entries[k]
  BY <1>2, <1>3
<1>7. \A k \in DOMAIN entries' : entries'[k].stamp <= clock'
  BY <1>2, <1>3, <1>4, <1>5, <1>6
<1>8. StampsBehind'
  BY <1>2, <1>3, <1>4, <1>5, <1>7 DEF StampsBehind
<1>9. UsedTrue'
  BY <1>1, <1>3, <1>4 DEF UsedTrue, BlocksUsed, Owned
<1> QED
  BY <1>8, <1>9

LEMMA UploadKeeps ==
  ASSUME BudgetInv, Upload
  PROVE  StampsBehind' /\ UsedTrue'
<1> DEFINE stamped == NextStamp
           size == ByteSize(Texture.shape)
<1>1. TypeTrue /\ CallTrue /\ EntriesTrue /\ StampsBehind /\ UsedTrue
  BY DEF BudgetInv, CurrentInv
<1>2. Key \in Keys /\ Key[1] = Texture.shape
  BY <1>1, KeyDecoded DEF Upload, Key
<1>3. IsFiniteSet(Owned({Key})) /\ BlocksUsed({Key}) = size /\ size \in Nat
  BY <1>2, OwnedByOne
<1>4. CASE UNCHANGED <<entries, used, clock>>
  BY <1>1, <1>4 DEF StampsBehind, UsedTrue, BlocksUsed, Owned
<1>5. ASSUME Cacheable, size <= Budget, NEW kept \in KeptOf(Inserted),
             entries' = [k \in kept |-> Inserted[k]], used' = used + size - BlocksUsed(DOMAIN Inserted \ kept),
             clock' = stamped.clock
      PROVE  StampsBehind' /\ UsedTrue'
  <2>1. /\ stamped.clock \in Nat /\ stamped.clock > 0 /\ stamped.clock < ClockLimit
        /\ \A k \in DOMAIN entries : stamped.entries[k].stamp \in Nat /\ stamped.entries[k].stamp < stamped.clock
    BY <1>1, NextStampAhead
  <2>2. Key \notin DOMAIN entries
    BY <1>5 DEF Upload
  <2> DEFINE new == [content |-> Decoded, stamp |-> stamped.clock, unsaid |-> Unsaid]
  <2>3. DOMAIN Inserted = DOMAIN entries \cup {Key} /\ Inserted[Key].stamp = stamped.clock
        /\ \A k \in DOMAIN entries : Inserted[k] = stamped.entries[k]
    <3>1. Inserted = [k \in DOMAIN entries \cup {Key} |-> IF k = Key THEN new ELSE stamped.entries[k]]
      BY DEF Inserted
    <3>2. new.stamp = stamped.clock
      OBVIOUS
    <3> HIDE DEF new, stamped
    <3> QED
      BY <2>2, <3>1, <3>2
  <2> HIDE DEF new, stamped
  <2>4. \A j \in DOMAIN Inserted : Inserted[j].stamp \in Nat /\ (j # Key => Inserted[j].stamp < Inserted[Key].stamp)
    BY <2>1, <2>3
  <2>5. Key \in kept
    BY <1>3, <1>5, <2>3, <2>4, NewestKept
  <2>6. kept \subseteq DOMAIN Inserted /\ BlocksUsed(kept) <= Budget
    BY DEF KeptOf
  <2>7. DOMAIN entries' = kept /\ \A k \in kept : entries'[k] = Inserted[k]
    BY <1>5
  <2>8. StampsBehind'
    <3>1. \A k \in DOMAIN entries' : entries'[k].stamp <= clock'
      BY <1>5, <2>1, <2>3, <2>4, <2>6, <2>7
    <3>2. entries'[Key].stamp = clock'
      BY <1>5, <2>3, <2>5, <2>7
    <3> QED
      BY <1>5, <2>1, <2>5, <2>7, <3>1, <3>2 DEF StampsBehind
  <2>9. /\ IsFiniteSet(Owned(DOMAIN Inserted))
        /\ BlocksUsed(DOMAIN Inserted) = used + size /\ used \in Nat
    <3>1. IsFiniteSet(Owned(DOMAIN entries)) /\ used = BlocksUsed(DOMAIN entries) /\ DOMAIN entries \cap {Key} = {}
      BY <1>1, <2>2 DEF UsedTrue
    <3> QED
      BY <1>3, <2>3, <3>1, UsedAdds
  <2>10. IsFiniteSet(Owned(kept)) /\ IsFiniteSet(Owned(DOMAIN Inserted \ kept))
    <3>1. Owned(kept) \in SUBSET Owned(DOMAIN Inserted) /\ Owned(DOMAIN Inserted \ kept) \in SUBSET Owned(DOMAIN Inserted)
      BY <2>6, OwnedOf
    <3> QED
      BY <2>9, <3>1, FS_Subset
  <2>11. /\ BlocksUsed(DOMAIN Inserted) = BlocksUsed(kept) + BlocksUsed(DOMAIN Inserted \ kept)
         /\ BlocksUsed(kept) \in Nat /\ BlocksUsed(DOMAIN Inserted \ kept) \in Nat
    <3>1. kept \cup (DOMAIN Inserted \ kept) = DOMAIN Inserted /\ kept \cap (DOMAIN Inserted \ kept) = {}
      BY <2>6
    <3> QED
      BY <2>10, <3>1, UsedAdds
  <2>12. used' = BlocksUsed(kept)
    BY <1>3, <1>5, <2>9, <2>11
  <2>13. UsedTrue'
    BY <2>6, <2>7, <2>10, <2>12 DEF UsedTrue, BlocksUsed, Owned
  <2> QED
    BY <2>8, <2>13
<1> QED
  BY <1>4, <1>5 DEF Upload

LEMMA BudgetInit ==
  ASSUME Init
  PROVE  StampsBehind /\ UsedTrue
<1>1. DOMAIN <<>> = {} /\ Budget \in Nat /\ ClockLimit \in Nat \ {0, 1}
  BY TexturesAssumption
<1>2. Owned({}) = {} /\ BlocksUsed({}) = Cardinality(Owned({}))
  BY DEF Owned, BlocksUsed
<1>3. BlocksUsed({}) = 0 /\ IsFiniteSet(Owned({}))
  BY <1>2, FS_EmptySet
<1> QED
  BY <1>1, <1>3 DEF Init, StampsBehind, UsedTrue

LEMMA BudgetNext ==
  ASSUME BudgetInv, [Next]_vars
  PROVE  BudgetInv'
<1>1. CurrentInv'
  BY NextSafe DEF BudgetInv
<1>2. StampsBehind /\ UsedTrue /\ clock \in Nat
  BY DEF BudgetInv, CurrentInv, EntriesTrue
<1>3. CASE Hit
  BY <1>1, <1>3, HitKeeps DEF BudgetInv
<1>4. CASE Upload
  BY <1>1, <1>4, UploadKeeps DEF BudgetInv
<1>5. CASE Clear
  <2>1. DOMAIN <<>> = {} /\ Budget \in Nat
    BY TexturesAssumption
  <2>2. entries' = <<>> /\ used' = 0 /\ clock' = clock
    BY <1>5 DEF Clear
  <2>3. Owned({}) = {} /\ BlocksUsed({}) = Cardinality(Owned({}))
    BY DEF Owned, BlocksUsed
  <2>4. BlocksUsed({}) = 0 /\ IsFiniteSet(Owned({}))
    BY <2>3, FS_EmptySet
  <2>5. UsedTrue'
    BY <2>1, <2>2, <2>4 DEF UsedTrue, BlocksUsed, Owned
  <2>6. StampsBehind'
    BY <1>2, <2>1, <2>2 DEF StampsBehind
  <2> QED
    BY <1>1, <2>5, <2>6 DEF BudgetInv
<1>6. CASE UNCHANGED <<entries, used, clock>>
  BY <1>1, <1>2, <1>6 DEF BudgetInv, StampsBehind, UsedTrue, BlocksUsed, Owned
<1>7. GuestStep \/ DigestPixels \/ DigestPalette \/ UploadFails \/ UNCHANGED vars => UNCHANGED <<entries, used, clock>>
  BY DEF GuestStep, Store, NotifyWrite, CopyTex, HostFree, HostBytes, DigestPixels, DigestPalette, UploadFails, vars
<1>8. \A slot : Begin(slot) => UNCHANGED <<entries, used, clock>>
  BY DEF Begin
<1> QED
  BY <1>3, <1>4, <1>5, <1>6, <1>7, <1>8 DEF Next, GuestStep

\* The bytes accounted are those of the entries, and no stamp is ahead of the
\* clock.
THEOREM BudgetInvariance == Spec => []BudgetInv
<1>1. Init => BudgetInv
  BY InitTrue, BudgetInit DEF BudgetInv
<1>2. BudgetInv /\ [Next]_vars => BudgetInv'
  BY BudgetNext
<1> QED
  BY <1>1, <1>2, PTL DEF Spec

\* The cache knows what it owns, stays within its budget, and does not evict
\* what it was just given, also when the clock wraps.
THEOREM BudgetSafe == Spec => []BudgetKept
<1>1. BudgetInv => BudgetKept
  BY DEF BudgetInv, StampsBehind, UsedTrue, BudgetKept
<1> QED
  BY <1>1, BudgetInvariance, PTL

-----------------------------------------------------------------------------
(* The groups of draws.  Which packets a group is waiting for is a matter of *)
(* the stream, so the invariant only adds that the stream is a sequence, and *)
(* that the group is of its packets.                                         *)

\* The packets of the stream being decoded.
Packets == {stream[i] : i \in DOMAIN stream}

Statuses == {"idle", "running", "stopped", "thrown"}

\* The group is of packets of the stream; a stream ends, and is decoded in order.
StreamTrue ==
    /\ stream \in Seq(Packets) /\ merging \in Seq(Packets)
    /\ at \in Nat \ {0} /\ status \in Statuses

GroupInv == StreamTrue /\ GroupContinues

\* The packets from position n on that are not NOPs.
Rest(n) == {i \in n..Len(stream) : stream[i].op # "nop"}

LEMMA AfterNopsOf ==
  ASSUME NEW n \in Nat
  PROVE  AfterNops(n) = IF Rest(n + 1) = {} THEN Len(stream) + 1 ELSE Min(Rest(n + 1))
  BY DEF AfterNops, Rest

LEMMA AfterNopsIn ==
  ASSUME Len(stream) \in Nat, NEW n \in Nat, AfterNops(n) <= Len(stream)
  PROVE  AfterNops(n) \in Rest(n + 1)
<1>1. Rest(n + 1) # {}
  BY AfterNopsOf
<1>2. Rest(n + 1) \in SUBSET Nat
  BY DEF Rest
<1>3. \E x \in Rest(n + 1) : \A y \in Rest(n + 1) : x <= y
  BY <1>1, <1>2, LeastOf
<1>4. Min(Rest(n + 1)) \in Rest(n + 1)
  BY <1>3 DEF Min
<1> QED
  BY <1>1, <1>4, AfterNopsOf

LEMMA AfterNopsAt ==
  ASSUME Len(stream) \in Nat, NEW n \in Nat, n + 1 <= Len(stream), stream[n + 1].op # "nop"
  PROVE  AfterNops(n) = n + 1
<1>1. n + 1 \in Rest(n + 1) /\ \A y \in Rest(n + 1) : n + 1 <= y /\ y \in Nat
  BY DEF Rest
<1>2. \A x \in Rest(n + 1) : (\A y \in Rest(n + 1) : x <= y) => x = n + 1
  BY <1>1
<1>3. Min(Rest(n + 1)) = n + 1
  BY <1>1, <1>2 DEF Min
<1> QED
  BY <1>1, <1>3, AfterNopsOf

LEMMA AfterNopsSkips ==
  ASSUME Len(stream) \in Nat, NEW n \in Nat, n + 1 <= Len(stream), stream[n + 1].op = "nop"
  PROVE  AfterNops(n) = AfterNops(n + 1)
<1>1. Rest(n + 1) = Rest(n + 2)
  BY DEF Rest
<1>2. AfterNops(n + 1) = IF Rest(n + 2) = {} THEN Len(stream) + 1 ELSE Min(Rest(n + 2))
  <2>1. n + 1 \in Nat /\ (n + 1) + 1 = n + 2
    OBVIOUS
  <2> QED
    BY <2>1, AfterNopsOf
<1> QED
  BY <1>1, <1>2, AfterNopsOf

\* A group waits for a draw that joins it.
JoinedNext(n, fmt) ==
    /\ n <= Len(stream)
    /\ stream[n].op = "draw" /\ ~stream[n].cut /\ stream[n].prim \in TriangleClass /\ stream[n].fmt = fmt

\* A packet that is not a NOP is the one a group waits for.
LEMMA GroupWaits ==
  ASSUME GroupInv, merging # <<>>
  PROVE  /\ status = "running" /\ reg = since /\ Len(stream) \in Nat /\ at \in Nat /\ at <= Len(stream)
         /\ AfterNops(at - 1) \in Nat /\ JoinedNext(AfterNops(at - 1), merging[1].fmt)
         /\ stream[at].op # "nop" => AfterNops(at - 1) = at
<1>1. /\ status = "running" /\ reg = since /\ AfterNops(at - 1) <= Len(stream)
      /\ JoinedNext(AfterNops(at - 1), merging[1].fmt)
  BY DEF GroupInv, GroupContinues, JoinedNext
<1>2. Len(stream) \in Nat /\ at \in Nat /\ at - 1 \in Nat /\ (at - 1) + 1 = at
  BY LenProperties DEF GroupInv, StreamTrue
<1>3. AfterNops(at - 1) \in Rest(at)
  BY <1>1, <1>2, AfterNopsIn
<1>4. AfterNops(at - 1) \in at..Len(stream)
  BY <1>3 DEF Rest
<1>5. at <= Len(stream) /\ AfterNops(at - 1) \in Nat
  BY <1>2, <1>4
<1>6. stream[at].op # "nop" => AfterNops(at - 1) = at
  BY <1>2, <1>5, AfterNopsAt
<1> QED
  BY <1>1, <1>2, <1>5, <1>6

LEMMA NoGroup ==
  ASSUME GroupInv, ~(status = "running" /\ at <= Len(stream) /\ Packet.op \in {"nop", "draw"})
  PROVE  merging = <<>>
<1> SUFFICES ASSUME merging # <<>> PROVE FALSE
  OBVIOUS
<1>1. status = "running" /\ at <= Len(stream) /\ JoinedNext(AfterNops(at - 1), merging[1].fmt)
      /\ (stream[at].op # "nop" => AfterNops(at - 1) = at)
  BY GroupWaits
<1> QED
  BY <1>1 DEF JoinedNext, Packet

\* The stream stays what it was.
LEMMA SameStream ==
  ASSUME GroupInv, stream' = stream, merging' = merging \/ merging' = <<>>, at' \in Nat \ {0}, status' \in Statuses
  PROVE  StreamTrue'
<1>1. stream \in Seq(Packets) /\ merging \in Seq(Packets)
  BY DEF GroupInv, StreamTrue
<1>2. Packets' = Packets
  BY DEF Packets
<1>3. merging' \in Seq(Packets)
  BY <1>1, EmptySeq
<1> QED
  BY <1>1, <1>2, <1>3 DEF StreamTrue

LEMMA NopGroups ==
  ASSUME GroupInv, Nop
  PROVE  GroupInv'
<1>1. status = "running" /\ at <= Len(stream) /\ stream[at].op = "nop" /\ at' = at + 1 /\ status' = status
      /\ UNCHANGED <<stream, reg, merging, since>>
  BY DEF Nop, Handles, Packet, Continue
<1>2. Len(stream) \in Nat /\ at \in Nat \ {0} /\ at - 1 \in Nat /\ (at - 1) + 1 = at /\ at' - 1 = at /\ at' \in Nat \ {0}
  BY <1>1, LenProperties DEF GroupInv, StreamTrue
<1>3. StreamTrue'
  BY <1>1, <1>2, SameStream DEF GroupInv, StreamTrue
<1>4. AfterNops(at - 1) = AfterNops(at)
  BY <1>1, <1>2, AfterNopsSkips
<1>5. GroupContinues'
  BY <1>1, <1>2, <1>4 DEF GroupInv, GroupContinues, AfterNops
<1> QED
  BY <1>3, <1>5 DEF GroupInv

LEMMA DrawGroups ==
  ASSUME GroupInv, Draw
  PROVE  GroupInv'
<1> DEFINE p == Packet
           group == Append(merging, p)
<1>1. status = "running" /\ at <= Len(stream) /\ p.op = "draw" /\ p = stream[at] /\ UNCHANGED <<stream, sink, reg>>
  BY DEF Draw, Handles, Packet
<1>2. Len(stream) \in Nat /\ at \in Nat \ {0} /\ at - 1 \in Nat /\ (at - 1) + 1 = at /\ p \in Packets
      /\ stream \in Seq(Packets) /\ merging \in Seq(Packets)
  <2>1. stream \in Seq(Packets) /\ at \in Nat \ {0} /\ merging \in Seq(Packets)
    BY DEF GroupInv, StreamTrue
  <2>2. Len(stream) \in Nat /\ DOMAIN stream = 1..Len(stream)
    BY <2>1, LenProperties
  <2>3. at \in DOMAIN stream
    BY <1>1, <2>1, <2>2
  <2> QED
    BY <1>1, <2>1, <2>2, <2>3 DEF Packets
<1>3. merging # <<>> => p.prim \in TriangleClass /\ ~p.cut /\ p.fmt = merging[1].fmt /\ Joined(p)
  BY <1>1, GroupWaits DEF JoinedNext, Joined
<1>4. group \in Seq(Packets) /\ group[1].fmt = p.fmt
  <2>1. group \in Seq(Packets) /\ (merging # <<>> => group[1] = merging[1]) /\ (merging = <<>> => group[1] = p)
    <3>1. Len(merging) \in Nat /\ (merging # <<>> => Len(merging) > 0) /\ (merging = <<>> => Len(merging) = 0)
      BY <1>2, EmptySeq, LenProperties
    <3>2. group \in Seq(Packets) /\ \A i \in 1..(Len(merging) + 1) : group[i] = IF i <= Len(merging) THEN merging[i] ELSE p
      BY <1>2, AppendProperties
    <3> QED
      BY <3>1, <3>2
  <2> QED
    BY <1>3, <2>1
<1>5. ASSUME merging' = merging, merging = <<>>, at' = at, status' \in Statuses PROVE GroupInv'
  BY <1>1, <1>2, <1>5, SameStream DEF GroupInv, GroupContinues
<1>6. ASSUME NEW segments, Submit(segments), merging' = <<>> PROVE GroupInv'
  <2>1. at' \in Nat \ {0} /\ status' \in Statuses
    BY <1>1, <1>2, <1>6 DEF Submit, Leave, Continue, Statuses
  <2> QED
    BY <1>1, <1>6, <2>1, SameStream DEF GroupInv, GroupContinues
<1>7. ASSUME NextJoins(p), merging' = group, since' = (IF merging = <<>> THEN reg ELSE since), Continue PROVE GroupInv'
  <2>0. at' = at + 1 /\ status' = "running"
    BY <1>1, <1>7 DEF Continue
  <2>1. at' = at + 1 /\ status' = "running" /\ at' \in Nat \ {0} /\ at' - 1 = at
    BY <1>2, <2>0
  <2>2. Packets' = Packets
    BY <1>1 DEF Packets
  <2>3. StreamTrue'
    BY <1>1, <1>2, <1>4, <1>7, <2>1, <2>2 DEF StreamTrue, Statuses
  <2>4. reg' = since'
    BY <1>1, <1>7, GroupWaits
  <2>5. AfterNops(at) <= Len(stream) /\ JoinedNext(AfterNops(at), p.fmt)
    BY <1>7 DEF NextJoins, JoinedNext
  <2>6. AfterNops(at - 1)' = AfterNops(at)
    BY <1>1, <2>1 DEF AfterNops
  <2>7. GroupContinues'
    BY <1>1, <1>4, <1>7, <2>1, <2>4, <2>5, <2>6 DEF GroupContinues, JoinedNext
  <2> QED
    BY <2>3, <2>7 DEF GroupInv
<1>8. CASE ~Joined(p) /\ reg.layout = "bad"
  <2>1. Leave("thrown") /\ merging' = merging
    BY <1>8 DEF Draw
  <2> QED
    BY <1>3, <1>5, <1>8, <2>1 DEF Leave, Statuses
<1>9. CASE ~(~Joined(p) /\ reg.layout = "bad") /\ p.cut
  <2>1. Leave("stopped") /\ merging' = merging
    BY <1>9 DEF Draw
  <2> QED
    BY <1>3, <1>5, <1>9, <2>1 DEF Leave, Statuses
<1>10. CASE ~(~Joined(p) /\ reg.layout = "bad") /\ ~p.cut
  <2>1. CASE p.prim \notin TriangleClass
    <3>1. Submit(<<p>>) /\ merging' = merging
      BY <1>10, <2>1 DEF Draw
    <3> QED
      BY <1>3, <1>6, <2>1, <3>1
  <2>2. CASE p.prim \in TriangleClass /\ RoomFor(group) /\ NextJoins(p)
    <3>1. merging' = group /\ since' = (IF merging = <<>> THEN reg ELSE since) /\ Continue
      BY <1>10, <2>2 DEF Draw
    <3> QED
      BY <1>7, <2>2, <3>1
  <2>3. CASE p.prim \in TriangleClass /\ ~(RoomFor(group) /\ NextJoins(p))
    <3>1. Submit(group) /\ merging' = <<>>
      BY <1>10, <2>3 DEF Draw
    <3> QED
      BY <1>6, <3>1
  <2> QED
    BY <2>1, <2>2, <2>3
<1> QED
  BY <1>8, <1>9, <1>10

LEMMA ProcessGroups ==
  ASSUME GroupInv, NEW s \in Streams, NEW receives, Process(s, receives)
  PROVE  GroupInv'
<1>1. merging = <<>> /\ merging' = <<>> /\ at' = 1 /\ status' = "running"
  BY NoGroup DEF Process
<1>2. stream' \in Seq(Packets')
  <2> DEFINE n == Len(s)
  <2>1. n \in Nat /\ DOMAIN s = 1..n
    BY StreamsAssumption, LenProperties
  <2> HIDE DEF n
  <2>2. stream' = [i \in 1..n |-> s[i] @@ [id |-> i]]
    BY <2>1 DEF Process
  <2>3. DOMAIN stream' = 1..n /\ stream' = [i \in 1..n |-> stream'[i]]
    BY <2>2
  <2>4. Packets' = {stream'[i] : i \in 1..n}
    BY <2>3 DEF Packets
  <2>5. stream' \in [1..n -> Packets']
    BY <2>3, <2>4
  <2> QED
    BY <2>1, <2>5, SeqDef
<1>3. StreamTrue'
  BY <1>1, <1>2, EmptySeq DEF StreamTrue, Statuses
<1> QED
  BY <1>1, <1>3 DEF GroupInv, GroupContinues

LEMMA FifoGroups ==
  ASSUME GroupInv, [FifoNext]_fifoVars
  PROVE  GroupInv'
<1>1. StreamTrue /\ at \in Nat \ {0} /\ at + 1 \in Nat \ {0} /\ status \in Statuses
  BY DEF GroupInv, StreamTrue
<1>2. ASSUME NEW s \in Streams, NEW receives \in BOOLEAN, Process(s, receives) PROVE GroupInv'
  BY <1>2, ProcessGroups
<1>3. ASSUME NEW p \in RawDraws, RawDraw(p) PROVE GroupInv'
  <2>1. merging = <<>> /\ merging' = <<>> /\ UNCHANGED <<stream, at>> /\ status' \in Statuses
    BY <1>3, NoGroup DEF RawDraw, Statuses
  <2>2. StreamTrue'
    BY <1>1, <2>1, SameStream
  <2> QED
    BY <2>1, <2>2 DEF GroupInv, GroupContinues
<1>4. CASE Return
  <2>1. Len(stream) \in Nat
    BY <1>1, LenProperties DEF StreamTrue
  <2>2. merging = <<>>
    BY <1>1, <1>4, <2>1, NoGroup DEF Return
  <2>3. stream' = <<>> /\ merging' = <<>> /\ at' = 1 /\ status' = "idle"
    BY <1>4, <2>2 DEF Return
  <2>4. StreamTrue'
    BY <2>3, EmptySeq DEF StreamTrue, Statuses
  <2> QED
    BY <2>3, <2>4 DEF GroupInv, GroupContinues
<1>5. CASE Nop
  BY <1>5, NopGroups
<1>6. CASE Draw
  BY <1>6, DrawGroups
<1>7. CASE Write \/ LoadMemory \/ Ignored \/ Malformed
  <2>1. Packet.op \notin {"nop", "draw"}
    BY <1>7 DEF Write, LoadMemory, Ignored, Malformed, Handles
  <2>2. merging = <<>>
    BY <2>1, NoGroup
  <2>3. merging' = <<>> /\ UNCHANGED stream /\ (at' = at \/ at' = at + 1) /\ status' \in Statuses
    BY <1>1, <1>7, <2>2 DEF Write, LoadMemory, Ignored, Malformed, Continue, Leave, Statuses
  <2>4. StreamTrue'
    BY <1>1, <2>3, SameStream
  <2> QED
    BY <2>3, <2>4 DEF GroupInv, GroupContinues
<1>8. CASE UNCHANGED fifoVars
  <2>1. UNCHANGED <<stream, at, status, reg, merging, since>>
    BY <1>8 DEF fifoVars
  <2> QED
    BY <2>1 DEF GroupInv, StreamTrue, Packets, GroupContinues, AfterNops
<1> QED
  BY <1>2, <1>3, <1>4, <1>5, <1>6, <1>7, <1>8 DEF FifoNext

\* The inductive invariant: the group is of the stream's packets.
THEOREM GroupInvariance == FifoSpec => []GroupInv
<1>1. FifoInit => GroupInv
  <2>1. ASSUME FifoInit PROVE StreamTrue
    BY <2>1, EmptySeq DEF FifoInit, StreamTrue, Statuses
  <2> QED
    BY <2>1 DEF FifoInit, GroupInv, GroupContinues
<1>2. GroupInv /\ [FifoNext]_fifoVars => GroupInv'
  BY FifoGroups
<1> QED
  BY <1>1, <1>2, PTL DEF FifoSpec

\* A group never outlives what it was begun in: its stream, its register state
\* and its vertex format (next_draw_joins of gx_draw.cpp looks ahead to the same
\* packet handle_draw gets next).
THEOREM GroupSafe == FifoSpec => []GroupContinues
<1>1. GroupInv => GroupContinues
  BY DEF GroupInv
<1> QED
  BY <1>1, GroupInvariance, PTL

=============================================================================
