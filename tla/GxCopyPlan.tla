----------------------------- MODULE GxCopyPlan -----------------------------
(***************************************************************************)
(* The rectangles of EFB copies, draws and the presented picture, as the   *)
(* register state, the logical size of the EFB and the size of its render  *)
(* target give them (gx_texture_copy_plan.cpp, gx_display_copy_plan.cpp,   *)
(* gx_viewport.cpp, gx_video_state.cpp) and the number of lines of an XFB  *)
(* (gx_copy_commands.cpp).                                                 *)
(*                                                                         *)
(* A rectangle is a function on the two axes.  Fractions of a texel are    *)
(* kept exactly: a sampled span is counted in 1/logical texels.  The state *)
(* s is the record of GxEfb, e an extent [logical, target], each by axis.  *)
(***************************************************************************)
EXTENDS Integers, Sequences

Axes == {"x", "y"}

MaxSide == 16384

Clamp(v, low, high) == IF v < low THEN low ELSE IF v > high THEN high ELSE v

Smaller(a, b) == IF a < b THEN a ELSE b

Larger(a, b) == IF a < b THEN b ELSE a

Distance(m, n) == IF m < n THEN n - m ELSE m - n

RoundedQuotient(a, b) == (2 * a + b) \div (2 * b)

CeilQuotient(a, b) == -((-a) \div b)

ValidExtent(e, side) == \A a \in Axes : e.logical[a] \in 1..side /\ e.target[a] \in 1..side

\* VI: the EFB is at least 640x528; without a scale the target fits the
\* surface, but never below the logical size (lround of the side times scale).
\* The other policies are modelled without a scale: with one, upstream's
\* scale_framebuffer_to_aspect gives the target.
SurfaceFit(logical, surface) ==
    LET a == CHOOSE x \in Axes : \A y \in Axes : surface[x] * logical[y] <= surface[y] * logical[x]
        shrinks == surface[a] < logical[a]
    IN  [x \in Axes |-> IF shrinks THEN logical[x]
                        ELSE Larger(1, RoundedQuotient(logical[x] * surface[a], logical[a]))]

VideoExtent(settings) ==
    LET logical == [x |-> Larger(640, settings.mode[1]), y |-> Larger(528, settings.mode[2])]
    IN  [logical |-> logical,
         target |-> IF settings.policy # "fit" THEN settings.surface
                    ELSE IF settings.scale[1] = 0 THEN SurfaceFit(logical, settings.surface)
                    ELSE [a \in Axes |-> Larger(1, RoundedQuotient(logical[a] * settings.scale[1], settings.scale[2]))]]

-----------------------------------------------------------------------------
\* The part of the EFB a copy samples: clipped to the target, one texel at least.
SampledSpan(r, logical, target, direct) ==
    LET unit(v) == IF direct THEN v * logical ELSE v * target
        limit == target * logical
        low == Clamp(unit(r.lo), 0, limit)
        high == Clamp(unit(r.lo) + unit(r.size), low, limit)
        wide == Smaller(low + logical, limit)
    IN  IF high - low < logical THEN [low |-> Larger(wide - logical, 0), high |-> wide]
        ELSE [low |-> low, high |-> high]

ClearSpanFloored(r, logical, target, direct) ==
    LET edge(v) == IF direct THEN v ELSE (v * target) \div logical
        left == Smaller(edge(r.lo), target - 1)
    IN  [low |-> left, high |-> Smaller(Larger(edge(r.lo + r.size), left + 1), target)]

\* The texels a clearing copy clears: each edge goes to the nearest texel.
ClearSpan(r, logical, target, direct) ==
    LET edge(v) == IF direct THEN v ELSE RoundedQuotient(v * target, logical)
        left == Smaller(edge(r.lo), target - 1)
    IN  [low |-> left, high |-> Smaller(Larger(edge(r.lo + r.size), left + 1), target)]

ScaledSide(n, logical, target, native) ==
    IF native THEN n ELSE Larger(1, RoundedQuotient(n * target, logical))

FilterSums(s) ==
    LET f == s.vfilter
    IN  IF s.vf THEN <<f[1] + f[2], f[3] + f[4] + f[5], f[6] + f[7]>> ELSE <<0, 64, 0>>

Filtered(filter) == filter # <<0, 64, 0>>

\* Differences of up to a hundredth of a texel count as none (in floats, whose
\* rounding at exactly that difference is left out).
Apart(m, n, logical) == 100 * Distance(m, n) > logical

\* Whether an edge in 1/logical texels lies between two texels.
Fractional(edge, logical) == Apart(edge, RoundedQuotient(edge, logical) * logical, logical)

NoPlan == [ok |-> FALSE]

\* texSize and texFormat are the copy's, r its source, direct whether r counts
\* texels of the target already.
PlanTextureCopy(s, r, texSize, format, half, direct, e, clear) ==
    LET native == s.policy = "native"
        plain == native \/ direct
        source == [a \in Axes |-> SampledSpan(r[a], e.logical[a], e.target[a], plain)]
        size == [a \in Axes |-> ScaledSide(Larger(1, texSize[a]), e.logical[a], e.target[a], native)]
        resized == \E a \in Axes : \/ Fractional(source[a].low, e.logical[a])
                                   \/ Apart(source[a].high - source[a].low, size[a] * e.logical[a], e.logical[a])
        filter == FilterSums(s)
        sampled == half \/ Filtered(filter) \/ ~s.alpha \/ resized
    IN  IF \/ ~ValidExtent(e, MaxSide)
           \/ format = "unsupported"
           \/ s.aa
           \/ \E a \in Axes : r[a].lo < 0 \/ r[a].size <= 0 \/ size[a] > MaxSide
           \/ s.vf /\ \E i \in 1..7 : s.vfilter[i] > 63
        THEN NoPlan
        ELSE [ok |-> TRUE, source |-> source, size |-> size, filter |-> filter,
              clear |-> [a \in Axes |-> ClearSpan(r[a], e.logical[a], e.target[a], plain)],
              mask |-> IF clear THEN (IF s.colorUpdate THEN {"rgb"} ELSE {})
                                     \cup (IF s.alphaUpdate /\ s.alpha THEN {"a"} ELSE {})
                       ELSE {},
              clearDepth |-> clear /\ s.depthUpdate,
              opaque |-> ~s.alpha /\ format # "depth",
              linear |-> format # "depth" /\ (half \/ (sampled /\ ~Filtered(filter)))]

TexturePlan(s, e, clear) ==
    PlanTextureCopy(s, s.texSrc, s.texSize, s.texFormat, s.texHalf, FALSE, e, clear)

\* Display copies: whole texels, the lower edge down and the upper edge up.
DisplaySpan(r, logical, target, native) ==
    IF native THEN [low |-> r.lo, high |-> r.lo + r.size]
    ELSE [low |-> Clamp((r.lo * target) \div logical, 0, target),
          high |-> Clamp(CeilQuotient((r.lo + r.size) * target, logical), 0, target)]

DisplayPlan(s, e, clear, disableFilter) ==
    LET native == s.policy = "native"
        span == [a \in Axes |-> DisplaySpan(s.dispSrc[a], e.logical[a], e.target[a], native)]
        r == [a \in Axes |-> [lo |-> span[a].low, size |-> span[a].high - span[a].low]]
        size == [a \in Axes |-> IF s.dispDst[a] # 0 THEN s.dispDst[a] ELSE s.dispSrc[a].size]
        plan == PlanTextureCopy(s, r, size, "color", FALSE, TRUE, e, clear)
        filter == IF disableFilter THEN <<0, plan.filter[1] + plan.filter[2] + plan.filter[3], 0>> ELSE plan.filter
    IN  IF \/ ~ValidExtent(e, MaxSide)
           \/ \E a \in Axes : \/ s.dispSrc[a].lo < 0 \/ s.dispSrc[a].size <= 0
                              \/ span[a].low >= span[a].high \/ span[a].high > e.target[a]
           \/ ~plan.ok
        THEN NoPlan
        ELSE [plan EXCEPT !.opaque = FALSE, !.filter = filter,
                          !.linear = /\ ~Filtered(filter)
                                     /\ \E a \in Axes : r[a].size # plan.size[a]]

-----------------------------------------------------------------------------
\* Register 0x4E: 256/yScale, truncated to nine bits; yScale is a fraction.
LineScale(yScale) == ((256 * yScale[2]) \div yScale[1]) % 512

OddPart(n) == CHOOSE odd \in 1..n : odd % 2 = 1 /\ \E p \in {1, 2, 4, 8, 16, 32, 64, 128} : n = odd * p

NumXfbLines(efbHeight, scale) ==
    LET lines == ((efbHeight - 1) * 256) \div scale + 1
        exact == scale \in 129..255 /\ efbHeight % OddPart(scale) = 0
    IN  Smaller(IF exact THEN lines + 1 ELSE lines, 1024)

\* Lines per target height t; a scale of zero throws (see YScaleDefined).
LinesPerTarget(efbHeight) ==
    [t \in 1..1024 |-> IF LineScale(<<t, efbHeight>>) = 0 THEN 0
                       ELSE NumXfbLines(efbHeight, LineScale(<<t, efbHeight>>))]

\* GXGetYScaleFactor: the first loop lowers the target until its lines fit.
StartTarget(lines, xfbHeight) ==
    CHOOSE t \in 1..xfbHeight : /\ t = 1 \/ lines[t] <= xfbHeight
                               /\ \A u \in (t + 1)..xfbHeight : lines[u] > xfbHeight

ReachedTarget(lines, xfbHeight) ==
    LET start == StartTarget(lines, xfbHeight)
    IN  CHOOSE t \in start..1024 : /\ t = 1024 \/ lines[t] >= xfbHeight
                                   /\ \A u \in start..(t - 1) : lines[u] < xfbHeight

\* Keeping the target that ended the second loop.
YScaleFactorReached(efbHeight, xfbHeight) ==
    <<ReachedTarget(LinesPerTarget(efbHeight), xfbHeight), efbHeight>>

\* The second loop raises it and keeps the last one that was short.
YScaleFactor(efbHeight, xfbHeight) ==
    LET lines == LinesPerTarget(efbHeight)
    IN  <<Larger(StartTarget(lines, xfbHeight), ReachedTarget(lines, xfbHeight) - 1), efbHeight>>

\* Neither loop meets a target whose scale is zero.
YScaleDefined(efbHeight, xfbHeight) ==
    LET lines == LinesPerTarget(efbHeight)
    IN  /\ efbHeight > 0 /\ xfbHeight \in 1..1024
        /\ \A t \in StartTarget(lines, xfbHeight)..xfbHeight : lines[t] > 0
        /\ lines[ReachedTarget(lines, xfbHeight)] > 0

-----------------------------------------------------------------------------
\* Scissor offsets wrap at 1024: of the wraps that leave a piece of the scissor
\* on the EFB, the one that shows most of the viewport, then the largest.
Wraps == {1024 * k : k \in -4..4}

Piece(s, e, a, wrap) ==
    LET shift == s.offset[a] + wrap
    IN  [low |-> Clamp(s.scissor[a].lo - shift, 0, e.logical[a]),
         high |-> Clamp(s.scissor[a].lo + s.scissor[a].size - shift, 0, e.logical[a]),
         shift |-> shift]

Area(p) == (p["x"].high - p["x"].low) * (p["y"].high - p["y"].low)

Shown(p, viewport) ==
    LET side(a) == Larger(0, Clamp(p[a].high + p[a].shift, viewport[a].lo, viewport[a].lo + viewport[a].size)
                           - Clamp(p[a].low + p[a].shift, viewport[a].lo, viewport[a].lo + viewport[a].size))
    IN  side("x") * side("y")

Pieces(s, e) ==
    LET along(a) == {p \in {Piece(s, e, a, wrap) : wrap \in Wraps} : p.low < p.high}
    IN  [x : along("x"), y : along("y")]

\* The loops keep the first of equals: the least shift, x before y.
Before(p, q, viewport) ==
    \/ Shown(p, viewport) > Shown(q, viewport)
    \/ /\ Shown(p, viewport) = Shown(q, viewport)
       /\ \/ Area(p) > Area(q)
          \/ /\ Area(p) = Area(q)
             /\ \/ p["x"].shift < q["x"].shift
                \/ p["x"].shift = q["x"].shift /\ p["y"].shift < q["y"].shift

EmptyRect == [a \in Axes |-> [low |-> 0, high |-> 0]]

\* The scissor in target texels and the viewport's corner in 1/logical texels.
MapViewport(s, e) ==
    LET pieces == IF \A a \in Axes : s.scissor[a].size > 0 THEN Pieces(s, e) ELSE {}
        best == CHOOSE p \in pieces : \A q \in pieces \ {p} : Before(p, q, s.viewport)
    IN  IF ~ValidExtent(e, 32767) THEN [scissor |-> EmptyRect, corner |-> [a \in Axes |-> s.viewport[a].lo]]
        ELSE IF s.policy = "native"
        THEN [scissor |-> [a \in Axes |-> [low |-> s.scissor[a].lo, high |-> s.scissor[a].lo + s.scissor[a].size]],
              corner |-> [a \in Axes |-> s.viewport[a].lo]]
        ELSE IF pieces = {}
        THEN [scissor |-> EmptyRect, corner |-> [a \in Axes |-> s.viewport[a].lo * e.target[a]]]
        ELSE [scissor |-> [a \in Axes |-> [low |-> (best[a].low * e.target[a]) \div e.logical[a],
                                           high |-> Smaller(CeilQuotient(best[a].high * e.target[a], e.logical[a]), e.target[a])]],
              corner |-> [a \in Axes |-> (s.viewport[a].lo - best[a].shift) * e.target[a]]]

\* What the hardware registers hold of it: corners within 0..32767, never inverted.
ScissorRegisters(rect) ==
    [a \in Axes |-> LET low == rect[a].low
                        size == Larger(rect[a].high - low, 0)
                    IN  [low |-> Clamp(low, 0, 32767), high |-> Clamp(low + size, 0, 32767)]]

=============================================================================
