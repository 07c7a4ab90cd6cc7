---------------------------- MODULE GxRegisters ----------------------------
(***************************************************************************)
(* The register decoder of the GX command stream: handle_bp, handle_cp and *)
(* handle_xf decode register words into GXRegisterState, each bank behind  *)
(* a cache that drops a write of the word the register already holds.      *)
(*                                                                         *)
(* A behaviour writes one group of registers (focus), any word in any      *)
(* order: a single register, or two that share a decoded field, one bank   *)
(* invalidating the cache of the other included.                           *)
(***************************************************************************)
EXTENDS GxRegisterMap, SequencesExt

CONSTANTS Foci,      \* sets of <<bank, register>>, each one behaviour's registers
          EpochBound \* the pipeline generation is counted modulo this

ASSUME EpochAssumption == EpochBound \in Nat /\ EpochBound > 2

VARIABLES
    focus, \* the registers this behaviour writes
    bp,    \* bpRegCache, of the registers whose word it holds
    mask,  \* bpRegCache[0xFE]: the groups the next BP write may change
    cp,    \* s_cpRegisterCache, of the valid registers
    xf,    \* xfRegCache, of the valid registers
    field, \* the decoded fields the focus touches
    epoch  \* pipelineStateGeneration

vars == <<focus, bp, mask, cp, xf, field, epoch>>

-----------------------------------------------------------------------------
Registers(bank) == {e[2] : e \in {x \in focus : x[1] = bank}}

Image(s) == {s[i] : i \in DOMAIN s}

\* What a write of register r can assign, and what that is computed from.
Touches(bank, r) ==
    LET raw == UNION {Fields(bank, r, w).lo \cup Fields(bank, r, w).hi : w \in Word}
        computed == UNION {Image(Recomputes(bank, r, w)) : w \in Word}
    IN  raw \cup Clears(bank, r) \cup computed \cup UNION {Image(FieldInputs(f)) : f \in computed}

\* The fields whose reset value is what an all-zero word decodes to.
ZeroReset == {"numTexGens", "numChans", "numIndStages"}

Reset(f) == IF f[1] \in ZeroReset THEN <<0>> ELSE <<>>

Bit(group, w) == IF group \in w THEN <<1>> ELSE <<0>>

Raw(fld, bank, r, w) ==
    LET entry == Fields(bank, r, w)
    IN  [f \in DOMAIN fld |-> IF f \in entry.lo THEN Bit("lo", w)
                              ELSE IF f \in entry.hi THEN Bit("hi", w)
                              ELSE IF f \in Clears(bank, r) THEN Reset(f) ELSE fld[f]]

Cached(cache, r) == IF r \in DOMAIN cache THEN cache[r] ELSE {}

Compute(f, fld, cache) ==
    [i \in DOMAIN FieldInputs(f) |-> fld[FieldInputs(f)[i]]]
    \o [i \in DOMAIN CacheInputs(f) |-> Bit(CacheInputs(f)[i][2], Cached(cache, CacheInputs(f)[i][1]))]

Refresh(fld, computed, cache) ==
    FoldLeft(LAMBDA acc, f : [acc EXCEPT ![f] = Compute(f, acc, cache)], fld, computed)

\* The decoder with no cache in front of it.
Decode(fld, bank, r, w, cache) == Refresh(Raw(fld, bank, r, w), Recomputes(bank, r, w), cache)

Stamp(stamped) == epoch' = IF stamped THEN (epoch + 1) % EpochBound ELSE epoch

Drop(cache, regs) == [r \in DOMAIN cache \ regs |-> cache[r]]

-----------------------------------------------------------------------------
Init ==
    /\ focus \in Foci
    /\ bp = (0 :> {})
    /\ mask = Group
    /\ cp = <<>> /\ xf = <<>>
    /\ field = [f \in UNION {Touches(e[1], e[2]) : e \in focus} |-> Reset(f)]
    /\ epoch = 0

\* Register 0xFE: a mask for the next BP write only.
SetMask(m) ==
    /\ Registers("bp") # {}
    /\ mask' = m
    /\ UNCHANGED <<focus, bp, cp, xf, field, epoch>>

Merged(r, w) == (Cached(bp, r) \ mask) \cup (w \cap mask)

\* Comparing the low half of the words only.
BpUnchangedLow(r, word) == r \in DOMAIN bp /\ bp[r] \cap {"lo"} = word \cap {"lo"}

\* The cached word keeps its register id: only register 0 starts out equal to a word.
BpUnchanged(r, word) == r \in DOMAIN bp /\ bp[r] = word

BpInvalidates(r) == IF r = 0 THEN {\h3F, \h09} ELSE {}

WriteBp(r, w) ==
    /\ r \in Registers("bp")
    /\ mask' = Group
    /\ IF BpUnchanged(r, Merged(r, w)) THEN UNCHANGED <<bp, xf, field, epoch>>
       ELSE /\ bp' = (r :> Merged(r, w)) @@ bp
            /\ xf' = Drop(xf, BpInvalidates(r))
            /\ field' = Decode(field, "bp", r, Merged(r, w), bp')
            /\ Stamp(r \in BpStamps)
    /\ UNCHANGED <<focus, cp>>

CpUnchanged(r, w) == r \in CpCacheable /\ r \in DOMAIN cp /\ cp[r] = w

CpInvalidatesOnlyA(r) == IF r = \h30 THEN {\h18} ELSE {}

CpInvalidates(r) == (IF r = \h30 THEN {\h18} ELSE {}) \cup (IF r = \h40 THEN {\h19} ELSE {})

WriteCp(r, w) ==
    /\ r \in Registers("cp")
    /\ IF CpUnchanged(r, w) THEN UNCHANGED <<cp, xf, field, epoch>>
       ELSE /\ cp' = IF r \in CpCacheable THEN (r :> w) @@ cp ELSE cp
            /\ xf' = Drop(xf, CpInvalidates(r))
            /\ field' = Decode(field, "cp", r, w, bp)
            /\ Stamp(r \in CpStamps \/ field' # field)
    /\ UNCHANGED <<focus, bp, mask>>

XfSkipped(r, w) == XfSkips(r) /\ r \in DOMAIN xf /\ xf[r] = w

\* One command loads consecutive registers; the viewport and the projection
\* are applied once, after the last of them.
LoadXf(r, words) ==
    LET written == {i \in DOMAIN words : ~XfSkipped(r + i - 1, words[i])}
        raw == FoldLeft(LAMBDA acc, i : IF i \in written THEN Raw(acc, "xf", r + i - 1, words[i]) ELSE acc,
                        field, [i \in DOMAIN words |-> i])
        applied == FoldLeft(LAMBDA acc, i : Refresh(acc, IF i \in written THEN Recomputes("xf", r + i - 1, words[i]) ELSE <<>>, bp),
                            raw, [i \in DOMAIN words |-> i])
    IN  /\ \A i \in DOMAIN words : r + i - 1 \in Registers("xf")
        /\ xf' = [i \in r..(r + Len(words) - 1) |-> words[i - r + 1]] @@ xf
        /\ field' = applied
        /\ epoch' = (epoch + Cardinality({i \in written : r + i - 1 \in XfStamps})) % EpochBound
        /\ UNCHANGED <<focus, bp, mask, cp>>

\* Packets of the Aurora extension are decoded without a cache; an array base
\* stamps the generation when it changes.
WriteAurora(r, w) ==
    /\ r \in Registers("aurora")
    /\ field' = Decode(field, "aurora", r, w, bp)
    /\ Stamp(r \in 16..31 /\ field' # field)
    /\ UNCHANGED <<focus, bp, mask, cp, xf>>

Next == \/ \E m \in Word : SetMask(m)
        \/ \E e \in focus, w \in Word : \/ e[1] = "bp" /\ WriteBp(e[2], w)
                                        \/ e[1] = "cp" /\ WriteCp(e[2], w)
                                        \/ e[1] = "xf" /\ LoadXf(e[2], <<w>>)
                                        \/ e[1] = "aurora" /\ WriteAurora(e[2], w)
        \/ \E e \in focus, w1, w2 \in Word : e[1] = "xf" /\ LoadXf(e[2], <<w1, w2>>)

Spec == Init /\ [][Next]_vars

-----------------------------------------------------------------------------
\* A command is dropped only when decoding it would leave the decoded state as
\* it is.  XF: always, whatever another bank wrote since, because the bank that
\* owns the same fields invalidates the XF slot (register_state.hpp:391,
\* register_decoder.cpp:396).
XfCacheVouches ==
    \A r \in Registers("xf"), w \in Word : XfSkipped(r, w) => Raw(field, "xf", r, w) = field

\* Fields that another bank or an Aurora packet writes without touching the
\* BP or CP cache, and the TLUT base a later 0x64 replaces.
Shared == {"numTexGens", "numChans", "currentPnMtx", "tcgMtx", "texDims", "tlutEntries", "loadTlut0",
           "renderViewport", "renderScissor"}

Differ(f, g) == {x \in DOMAIN f : f[x] # g[x]}

\* BP and CP: a dropped command loses at most a field shared with another
\* writer.  Every field computed from several registers is therefore current
\* whichever of them was written last, a masked write included.  Register 0
\* is exempt until its first change: its cache starts at the zero word.
DropLosesOnlyShared ==
    /\ \A r \in Registers("bp"), w \in Word :
          BpUnchanged(r, Merged(r, w)) /\ (r = 0 => field[<<"numTevStages", 0>>] # <<>>) =>
             \A x \in Differ(Decode(field, "bp", r, Merged(r, w), bp), field) : x[1] \in Shared
    /\ \A r \in Registers("cp"), w \in Word :
          CpUnchanged(r, w) => \A x \in Differ(Decode(field, "cp", r, w, bp), field) : x[1] \in Shared

\* A change of a field the shader configuration is built from advances the
\* pipeline generation (register_state.hpp:373).
PipelineStamped ==
    [][(\E x \in Differ(field, field') : x[1] \in PipelineNames) => epoch' # epoch]_vars

=============================================================================
