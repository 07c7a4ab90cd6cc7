----------------------------- MODULE GxTextures -----------------------------
(***************************************************************************)
(* Textures of draws: the source bytes found in Wii RAM or in a registered *)
(* host vector (gx_memory_sources.cpp, gx_host_memory_ps5.cpp), and the    *)
(* cache of their converted contents, keyed by a digest that is kept per   *)
(* address while the range's write generation stands                       *)
(* (gx_texture_cache.cpp).  RAM is a few cells; a digest is taken to be    *)
(* the bytes.  Callers keep bytes unchanged once a resolve read them       *)
(* (gx_texture_cache.h:20); until then a write may race it.                *)
(***************************************************************************)
EXTENDS Integers, Sequences, FiniteSets, FiniteSetsExt, TextureLayout

CONSTANTS GuestCells, HostCell, \* cells of Wii RAM, and of one host vector
          Values,
          Scenes,     \* sets of textures a game may draw with: [shape, cell, len, palette], 0 for no palette
          Budget,     \* blocks the cache may own
          MemoLimit,  \* kDigestMemoSoftLimit
          ClockLimit, \* the clock's width
          MaxStores, MaxWrites \* bounds of stores, and of generations handed out

Textures == UNION Scenes

Cells == GuestCells \cup {HostCell}

NoValue == -1
Untracked == -1

Shapes == {t.shape : t \in Textures}

ASSUME ShapesAssumption == \A s \in Shapes : ValidShape(s)

ASSUME TexturesAssumption ==
    /\ GuestCells \subseteq Nat /\ HostCell \in Nat \ GuestCells
    /\ Values \subseteq Nat /\ Values # {}
    /\ \A t \in Textures : t.cell \in Nat /\ t.len \in Nat \ {0} /\ t.palette \in Nat
    /\ Budget \in Nat /\ ClockLimit \in Nat \ {0, 1}

VARIABLES
    scene,      \* the textures of this game
    mem,        \* bytes of the cells
    generation, \* of the cells of RAM
    writes,     \* generations handed out so far
    stores,     \* by guest code so far
    dirty,      \* cells of RAM stored to since they were notified
    pending,    \* EFB copies not yet in RAM
    hosted,     \* the host vector is registered
    loaded,     \* what is resolved: a texture, and whether it and its palette are no-cache
    memo,       \* source address -> [size, digest, generation]
    entries,    \* key -> [content, stamp]; history: unsaid, as the call's was
    used, clock,
    call        \* the resolve in progress

vars == <<scene, mem, generation, writes, stores, dirty, pending, hosted, loaded, memo, entries, used, clock, call>>

guest == <<scene, mem, generation, writes, stores, dirty, pending, hosted>>

NoSlot == [texture |-> [cell |-> 0, len |-> 0, palette |-> 0], noCache |-> FALSE, noCachePalette |-> FALSE]

\* unsaid is history: cells of RAM changed but not told of when the generation
\* was sampled, or since.
Idle == [step |-> "idle", sampled |-> 0, pixels |-> <<>>, palette |-> <<>>, unsaid |-> {}]

Init ==
    /\ scene \in Scenes
    /\ mem = [c \in Cells |-> CHOOSE v \in Values : \A w \in Values : v <= w]
    /\ generation = [c \in GuestCells |-> 0]
    /\ writes = 0 /\ stores = 0 /\ dirty = {}
    /\ pending = [c \in GuestCells |-> NoValue]
    /\ hosted = TRUE
    /\ loaded = NoSlot
    /\ memo = <<>> /\ entries = <<>>
    /\ used = 0 /\ clock = 0
    /\ call = Idle

-----------------------------------------------------------------------------
Texture == loaded.texture
Indexed == Texture.palette # 0

PixelCells == Texture.cell..(Texture.cell + Texture.len - 1)
PaletteCells == IF Indexed THEN {Texture.palette} ELSE {}
SourceCells == PixelCells \cup PaletteCells

Bytes(cells) == [k \in 1..Cardinality(cells) |-> mem[Min(cells) + k - 1]]

\* Cells a resolve in progress has read.
Taken ==
    CASE call.step = "palette" -> PixelCells
      [] call.step = "ready" -> SourceCells
      [] OTHER -> {}

\* Where a write may race it; elsewhere it does as well before or after.
Racing(c) == call = Idle \/ c \in SourceCells \ Taken

\* EFB copies over the cells go to RAM, which is a write like any other.
Awaited(cells) == {c \in cells \cap GuestCells : pending[c] # NoValue}

ResolveDeferredReads(cells) ==
    LET awaited == Awaited(cells)
    IN  /\ mem' = [c \in Cells |-> IF c \in awaited THEN pending[c] ELSE mem[c]]
        /\ pending' = [c \in GuestCells |-> IF c \in awaited THEN NoValue ELSE pending[c]]
        /\ writes' = writes + Cardinality(awaited)
        /\ generation' = [c \in GuestCells |-> IF c \in awaited THEN writes' ELSE generation[c]]
        /\ dirty' = dirty \ awaited

\* Guest code stores, and tells later with a cache operation.  (A store over an
\* EFB copy fetches it first: GxCopyStore.)
Store(c, v) ==
    /\ Racing(c) /\ mem[c] # v /\ stores < MaxStores
    /\ IF c = HostCell THEN hosted ELSE pending[c] = NoValue
    /\ mem' = [mem EXCEPT ![c] = v] /\ stores' = stores + 1
    /\ dirty' = IF c \in GuestCells THEN dirty \cup {c} ELSE dirty
    /\ call' = IF call = Idle THEN call ELSE [call EXCEPT !.unsaid = @ \cup {c}]
    /\ UNCHANGED <<scene, generation, writes, pending, hosted, loaded, memo, entries, used, clock>>

NotifyWrite(c) ==
    /\ Racing(c) /\ writes < MaxWrites
    /\ writes' = writes + 1
    /\ generation' = [generation EXCEPT ![c] = writes']
    /\ dirty' = dirty \ {c}
    /\ UNCHANGED <<scene, mem, stores, pending, hosted, loaded, memo, entries, used, clock, call>>

\* An EFB copy replaces the contents of RAM before they are there.
CopyTex(c, v) ==
    /\ call = Idle /\ pending[c] = NoValue /\ writes + Cardinality(Awaited(GuestCells)) < MaxWrites
    /\ pending' = [pending EXCEPT ![c] = v]
    /\ UNCHANGED <<scene, mem, generation, writes, stores, dirty, hosted, loaded, memo, entries, used, clock, call>>

\* The host vector goes, or comes back at the same address.
HostFree ==
    /\ call = Idle /\ hosted
    /\ hosted' = FALSE
    /\ UNCHANGED <<scene, mem, generation, writes, stores, dirty, pending, loaded, memo, entries, used, clock, call>>

HostBytes(v) ==
    /\ call = Idle /\ ~hosted
    /\ hosted' = TRUE
    /\ mem' = [mem EXCEPT ![HostCell] = v]
    /\ UNCHANGED <<scene, generation, writes, stores, dirty, pending, loaded, memo, entries, used, clock, call>>

Loaded(t) == [texture |-> t, noCache |-> FALSE, noCachePalette |-> FALSE]

\* Destroying an object, or a palette, marks the slots that hold it.
EvictTextureObject(slot) == [slot EXCEPT !.noCache = TRUE]

EvictTlutObject(slot) == IF slot.texture.palette = 0 THEN slot ELSE [slot EXCEPT !.noCachePalette = TRUE]

\* What a slot may hold when it is drawn with.
SlotsOf(t) ==
    LET slot == Loaded(t)
    IN  {slot, EvictTextureObject(slot), EvictTlutObject(slot), EvictTlutObject(EvictTextureObject(slot))}

-----------------------------------------------------------------------------
GenerationOf(cells) ==
    IF cells \subseteq GuestCells THEN Max({generation[c] : c \in cells}) ELSE Untracked

\* RAM, or a live registered vector; anything else is refused.
Found(cells) == cells \subseteq GuestCells \/ (hosted /\ cells = {HostCell})

\* The sources of a draw, with both intervals resolved, and the generation of
\* the pixels before they are read.
Begin(slot) ==
    /\ call = Idle
    /\ loaded' = slot
    /\ Found(PixelCells') /\ (Indexed' => Found(PaletteCells'))
    /\ ResolveDeferredReads(SourceCells')
    /\ UNCHANGED <<scene, stores, hosted, memo, entries, used, clock>>
    /\ call' = [Idle EXCEPT !.step = "pixels",
                  !.sampled = IF slot.noCache THEN Untracked ELSE GenerationOf(PixelCells)',
                  !.unsaid = dirty']

\* Any size at the address.
StandsAtAddress(m, cells, sampled) ==
    Min(cells) \in DOMAIN m /\ m[Min(cells)].generation = sampled

Stands(m, cells, sampled) ==
    /\ Min(cells) \in DOMAIN m
    /\ m[Min(cells)].size = Cardinality(cells) /\ m[Min(cells)].generation = sampled

\* source_digest() with the generation it sampled: [memo, digest].
SourceDigest(cells, sampled) ==
    LET start == Min(cells)
        room == IF Cardinality(DOMAIN memo) >= MemoLimit /\ start \notin DOMAIN memo THEN <<>> ELSE memo
        fresh == [size |-> Cardinality(cells), digest |-> Bytes(cells), generation |-> sampled]
    IN  IF sampled = Untracked THEN [memo |-> memo, digest |-> Bytes(cells)]
        ELSE IF Stands(memo, cells, sampled) THEN [memo |-> memo, digest |-> memo[start].digest]
        ELSE [memo |-> [a \in DOMAIN room \cup {start} |-> IF a = start THEN fresh ELSE room[a]], digest |-> Bytes(cells)]

DigestPixels ==
    /\ call.step = "pixels"
    /\ LET d == SourceDigest(PixelCells, call.sampled)
       IN  /\ memo' = d.memo
           /\ call' = IF Indexed
                      THEN [call EXCEPT !.step = "palette", !.pixels = d.digest,
                              !.sampled = IF loaded.noCachePalette THEN Untracked ELSE GenerationOf(PaletteCells),
                              !.unsaid = (@ \cap PixelCells) \cup dirty]
                      ELSE [call EXCEPT !.step = "ready", !.pixels = d.digest, !.sampled = 0]
    /\ UNCHANGED <<guest, loaded, entries, used, clock>>

DigestPalette ==
    /\ call.step = "palette"
    /\ LET d == SourceDigest(PaletteCells, call.sampled)
       IN  /\ memo' = d.memo
           /\ call' = [call EXCEPT !.step = "ready", !.palette = d.digest, !.sampled = 0]
    /\ UNCHANGED <<guest, loaded, entries, used, clock>>

-----------------------------------------------------------------------------
\* Bytes may have changed under a memo that stands.
Unsaid ==
    \/ ~loaded.noCache /\ PixelCells \cap call.unsaid # {}
    \/ ~loaded.noCachePalette /\ PaletteCells \cap call.unsaid # {}

Key == <<Texture.shape, Indexed, call.pixels, call.palette>>

Cacheable == ~loaded.noCache /\ (Indexed => ~loaded.noCachePalette)

\* The pixels of the current bytes.
Decoded == <<Texture.shape, Indexed, Bytes(PixelCells), IF Indexed THEN Bytes(PaletteCells) ELSE <<>> >>

\* next_stamp(): [clock, entries]; a clock that wrapped forgets the order.
NextStamp ==
    IF (clock + 1) % ClockLimit = 0
    THEN [clock |-> 1, entries |-> [k \in DOMAIN entries |-> [entries[k] EXCEPT !.stamp = 0]]]
    ELSE [clock |-> clock + 1, entries |-> entries]

\* The texture a resolve hands out.
Returned == IF Cacheable /\ Key \in DOMAIN entries THEN entries[Key].content ELSE Decoded

Hit ==
    /\ call.step = "ready" /\ Cacheable /\ Key \in DOMAIN entries
    /\ entries' = [NextStamp.entries EXCEPT ![Key].stamp = NextStamp.clock]
    /\ clock' = NextStamp.clock
    /\ call' = Idle /\ loaded' = NoSlot
    /\ UNCHANGED <<guest, memo, used>>

ByteSizes == {<<s, Blocks(s)>> : s \in Shapes}

ByteSize(s) == (CHOOSE p \in ByteSizes : p[1] = s)[2]

BlocksUsed(keys) == Cardinality(UNION {{k} \X (1..ByteSize(k[1])) : k \in keys})

\* Only one entry makes room.
KeptOfOnce(all) ==
    LET order == {k \in DOMAIN all : \A j \in DOMAIN all : all[k].stamp <= all[j].stamp}
    IN  IF BlocksUsed(DOMAIN all) <= Budget THEN {DOMAIN all} ELSE {DOMAIN all \ {k} : k \in order}

\* The entries left when the oldest go until the rest is within the budget;
\* of equal stamps any may be taken first.
KeptOf(all) ==
    {kept \in SUBSET DOMAIN all :
        LET gone == DOMAIN all \ kept
        IN  /\ BlocksUsed(kept) <= Budget
            /\ \A k \in gone, j \in kept : all[k].stamp <= all[j].stamp
            /\ gone # {} => \E last \in gone :
                  /\ BlocksUsed(kept \cup {last}) > Budget
                  /\ \A k \in gone : all[k].stamp <= all[last].stamp}

Inserted == [k \in DOMAIN entries \cup {Key} |->
               IF k = Key THEN [content |-> Decoded, stamp |-> NextStamp.clock, unsaid |-> Unsaid] ELSE NextStamp.entries[k]]

\* The bytes are converted and uploaded; what is cacheable and not over the
\* budget by itself stays.
Upload ==
    /\ call.step = "ready" /\ ~(Cacheable /\ Key \in DOMAIN entries)
    /\ IF Cacheable /\ ByteSize(Texture.shape) <= Budget
       THEN /\ \E kept \in KeptOf(Inserted) :
                  /\ entries' = [k \in kept |-> Inserted[k]]
                  /\ used' = used + ByteSize(Texture.shape) - BlocksUsed(DOMAIN Inserted \ kept)
            /\ clock' = NextStamp.clock
       ELSE UNCHANGED <<entries, used, clock>>
    /\ call' = Idle /\ loaded' = NoSlot
    /\ UNCHANGED <<guest, memo>>

\* No GPU memory, or it cannot be mapped.
UploadFails ==
    /\ call.step = "ready" /\ ~(Cacheable /\ Key \in DOMAIN entries)
    /\ call' = Idle /\ loaded' = NoSlot
    /\ UNCHANGED <<guest, memo, entries, used, clock>>

Clear ==
    /\ call = Idle
    /\ entries' = <<>> /\ memo' = <<>> /\ used' = 0
    /\ UNCHANGED <<guest, loaded, clock, call>>

Next ==
    \/ \E c \in Cells, v \in Values : Store(c, v)
    \/ \E c \in GuestCells : NotifyWrite(c)
    \/ \E c \in GuestCells, v \in Values : CopyTex(c, v)
    \/ HostFree
    \/ \E v \in Values : HostBytes(v)
    \/ \E t \in scene : \E slot \in SlotsOf(t) : Begin(slot)
    \/ DigestPixels \/ DigestPalette
    \/ Hit \/ Upload \/ UploadFails
    \/ Clear

Spec == Init /\ [][Next]_vars

-----------------------------------------------------------------------------
\* A resolve returns the texture of the bytes there are, EFB copies included,
\* whatever it remembers of the address: only bytes of RAM that guest code
\* changed without telling may be missed, and not by a no-cache texture.  What
\* was uploaded while they were is kept under the digest of the bytes before,
\* and may be shown for these until it is evicted
\* (gx_texture_cache.cpp:28-42, 88-92, gx_texture_cache.h:48-53).
ServesCurrent ==
    [][Hit \/ Upload =>
          \/ Returned = Decoded /\ Awaited(SourceCells) = {}
          \/ Unsaid
          \/ Key \in DOMAIN entries /\ entries[Key].unsaid]_vars

\* The cache knows what it owns and is within its budget after any sequence of
\* hits, uploads and wraps of the clock, and what it was just given is not what
\* it gave up (gx_texture_cache.cpp:115-125).
BudgetKept ==
    /\ used = BlocksUsed(DOMAIN entries) /\ used <= Budget
    /\ clock > 0 /\ entries # <<>> => \E k \in DOMAIN entries : entries[k].stamp = clock

\* What is uploaded has a place of its own for every texel of every mip, within
\* the storage it is allocated and accounted with (texture_layout.cpp:28-56).
TilesApart(s) ==
    LET tiles == [m \in Levels(s) |-> Tiles(s, m)]
    IN  \A m \in Levels(s) :
           /\ Cardinality(tiles[m]) = Width(s, m) * Height(s, m)
           /\ \A p \in tiles[m] : p[1] < Blocks(s)
           /\ \A k \in 0..(m - 1) : tiles[k] \cap tiles[m] = {}

ShapesApart == {s \in Shapes : TilesApart(s)}

TexelsApart == call.step = "ready" => Texture.shape \in ShapesApart

=============================================================================
