------------------------------- MODULE GxEfb -------------------------------
(***************************************************************************)
(* Copy state, viewport and scissor of the EFB.  GX calls of the game      *)
(* assign some fields at once and queue BP words that are decoded, behind  *)
(* the register cache, when the FIFO is drained (gx_copy_commands.cpp,     *)
(* register_decoder.cpp); GXCopyTex and GXCopyDisp drain it and plan from  *)
(* the state; the mapped viewport follows every change of its inputs       *)
(* (gx_viewport_backend.cpp); a frame opens with the VI settings of then   *)
(* (gx_video_backend.cpp).                                                 *)
(*                                                                         *)
(* A behaviour makes calls of one topic.  No call queues register 0x52:    *)
(* what GX hardware holds there is only set at once.                       *)
(***************************************************************************)
EXTENDS GxCopyPlan, SequencesExt, TLC

CONSTANTS Topics,    \* sets of calls, one behaviour's each
          Arguments, \* call -> the arguments it is made with
          Modes, Scales, Policies, Surface, \* VI settings and the surface's size
          QueueBound \* words the FIFO holds: drained before a call that would exceed it

VARIABLES
    topic,    \* this behaviour's calls
    s,        \* the fields of GXRegisterState
    cache,    \* bpRegCache
    fifo,     \* queued words
    extent,   \* the current GxRenderExtent
    settings, \* VI settings
    asked,    \* history: the last argument of each call
    done      \* the last copy, until anything else happens

vars == <<topic, s, cache, fifo, extent, settings, asked, done>>

-----------------------------------------------------------------------------
OffFilter == <<0, 0, 21, 22, 21, 0, 0>>

DefaultPattern == [q \in 1..4 |-> "default"]

Rect(lox, loy, sizex, sizey) == [x |-> [lo |-> lox, size |-> sizex], y |-> [lo |-> loy, size |-> sizey]]

Apply(t, e) == [t EXCEPT !.render = MapViewport(t, e)]

InitialExtent == [logical |-> [x |-> 640, y |-> 480], target |-> [x |-> 640, y |-> 480]]

InitialState ==
    [dispSrc |-> Rect(0, 0, 0, 0), dispDst |-> [x |-> 640, y |-> 480], yScale |-> <<1, 1>>,
     texSrc |-> Rect(0, 0, 0, 0), texSize |-> [x |-> 0, y |-> 0], texFormat |-> "color", texHalf |-> FALSE,
     gamma |-> 0, field |-> 0, edges |-> 0,
     aa |-> FALSE, vf |-> FALSE, pattern |-> [q \in 1..4 |-> "zero"], vfilter |-> [i \in 1..7 |-> 0],
     clear |-> [ra |-> 65280, gb |-> 0, z |-> 16777215],
     colorUpdate |-> TRUE, alphaUpdate |-> TRUE, depthUpdate |-> TRUE, alpha |-> FALSE,
     box |-> <<1023, 0, 1023, 0>>, policy |-> "fit",
     viewport |-> Rect(0, 0, 640, 480), scissor |-> Rect(0, 0, 640, 480), offset |-> [x |-> 0, y |-> 0],
     render |-> [scissor |-> EmptyRect, corner |-> [x |-> 0, y |-> 0]],
     lines |-> [efb |-> 0, asked |-> 1024, given |-> 0]]

Init ==
    /\ topic \in Topics
    /\ s = Apply(InitialState, InitialExtent)
    /\ cache = <<>>
    /\ fifo = <<>>
    /\ extent = InitialExtent
    /\ settings = [mode |-> <<640, 480>>, scale |-> <<0, 1>>, policy |-> "fit", surface |-> Surface]
    /\ asked = <<>>
    /\ done = [kind |-> "none"]

-----------------------------------------------------------------------------
\* GXGetYScaleFactor for the heights a model's calls combine.
YScales ==
    {<<q, YScaleFactor(q[1], q[2])>> :
        q \in {p \in {r["y"].size : r \in Arguments["DispSrc"]} \X Arguments["YScale"] : YScaleDefined(p[1], p[2])}}

\* The argument a call stands for: a null pattern or filter keeps the old one,
\* a disabled one is the default; the y scale comes from GXGetYScaleFactor.
Effective(op, a) ==
    CASE op = "Filter" -> [a EXCEPT !.pattern = IF ~a.aa THEN DefaultPattern ELSE IF @ = <<>> THEN s.pattern ELSE @,
                                    !.vfilter = IF ~a.vf THEN OffFilter ELSE IF @ = <<>> THEN s.vfilter ELSE @]
      [] op = "YScale" -> (CHOOSE y \in YScales : y[1] = <<s.dispSrc["y"].size, a>>)[2]
      [] OTHER -> a

\* What a call assigns at once.
Assigns(op, a) ==
    CASE op = "DispSrc" -> [dispSrc |-> a]
      [] op = "DispDst" -> [dispDst |-> a]
      [] op = "TexSrc" -> [texSrc |-> a]
      [] op = "TexDst" -> [texSize |-> a.size, texFormat |-> a.format, texHalf |-> a.half]
      [] op = "YScale" -> [yScale |-> a]
      [] op = "Filter" -> [aa |-> a.aa, vf |-> a.vf, pattern |-> a.pattern, vfilter |-> a.vfilter]
      [] op = "Gamma" -> [gamma |-> a % 4]
      [] op = "Field" -> [field |-> a % 4]
      [] op = "Edges" -> [edges |-> a % 4]
      [] op = "BoundingBox" -> [box |-> <<1023, 0, 1023, 0>>]
      [] OTHER -> <<>>

Pair(f(_)) == [x |-> f("x"), y |-> f("y")]

\* The BP words a call queues.
Words(op, a) ==
    CASE op = "DispSrc" -> << <<"49", Pair(LAMBDA i : a[i].lo % 1024)>>, <<"4A", Pair(LAMBDA i : (a[i].size - 1) % 1024)>> >>
      [] op = "DispDst" -> << <<"4D", (((a["x"] % 32768) * 2) \div 32) % 1024>> >>
      [] op = "YScale" -> << <<"4E", LineScale(a)>> >>
      [] op = "Clear" -> << <<"4F", a.ra>>, <<"50", a.gb>>, <<"51", a.z % 16777216>> >>
      [] op = "Filter" -> [q \in 1..4 |-> <<<<"01", "02", "03", "04">>[q], a.pattern[q]>>]
                          \o << <<"53", SubSeq(a.vfilter, 1, 4)>>, <<"54", SubSeq(a.vfilter, 5, 7)>> >>
      [] op = "BoundingBox" -> << <<"55", <<1023, 0>>>>, <<"56", <<1023, 0>>>> >>
      [] op = "Blend" -> << <<"41", a>> >>
      [] op = "ZMode" -> << <<"40", a>> >>
      [] op = "PixelFmt" -> << <<"43", a>> >>
      [] op = "Scissor" -> << <<"20", Pair(LAMBDA i : (a[i].lo + 342) % 2048)>>,
                              <<"21", Pair(LAMBDA i : (a[i].lo + a[i].size + 341) % 2048)>> >>
      [] op = "Offset" -> << <<"59", Pair(LAMBDA i : ((a[i] + 342) \div 2) % 1024)>> >>
      [] op = "Viewport" -> << <<"XF", a>> >>
      [] OTHER -> <<>>

WordOf(c, reg) == IF reg \in DOMAIN c THEN c[reg] ELSE [x |-> 0, y |-> 0]

RefreshFlags(t) ==
    [t EXCEPT !.aa = t.pattern # DefaultPattern, !.vf = t.vfilter # OffFilter]

\* handle_bp for the registers above; the viewport comes through XF.
DecodeSamples(t, reg, w) ==
    RefreshFlags([t EXCEPT !.pattern[CHOOSE q \in 1..4 : reg = <<"01", "02", "03", "04">>[q]] = w])

DecodeScissor(t, e, c) ==
    LET low == WordOf(c, "20")
        high == WordOf(c, "21")
    IN  Apply([t EXCEPT !.scissor = Pair(LAMBDA i : [lo |-> low[i] - 342, size |-> Larger(high[i] - low[i] + 1, 0)])], e)

DecodePixel(t, e, reg, w) ==
    CASE reg = "40" -> [t EXCEPT !.depthUpdate = w]
      [] reg = "41" -> [t EXCEPT !.colorUpdate = w.color, !.alphaUpdate = w.alpha]
      [] reg = "43" -> [t EXCEPT !.alpha = w]
      [] reg = "55" -> [t EXCEPT !.box = w \o SubSeq(@, 3, 4)]
      [] reg = "56" -> [t EXCEPT !.box = SubSeq(@, 1, 2) \o w]
      [] reg = "59" -> Apply([t EXCEPT !.offset = Pair(LAMBDA i : 2 * w[i] - 342)], e)

DecodeCopy(t, reg, w) ==
    CASE reg = "49" -> [t EXCEPT !.dispSrc = Pair(LAMBDA i : [lo |-> w[i], size |-> @[i].size])]
      [] reg = "4A" -> [t EXCEPT !.dispSrc = Pair(LAMBDA i : [lo |-> @[i].lo, size |-> w[i] + 1])]
      [] reg = "4D" -> [t EXCEPT !.dispDst["x"] = w * 16]
      [] reg = "4E" -> [t EXCEPT !.yScale = IF w = 0 THEN @ ELSE <<256, w>>]
      [] reg = "4F" -> [t EXCEPT !.clear.ra = w]
      [] reg = "50" -> [t EXCEPT !.clear.gb = w]
      [] reg = "51" -> [t EXCEPT !.clear.z = w]
      [] reg = "53" -> RefreshFlags([t EXCEPT !.vfilter = w \o SubSeq(@, 5, 7)])
      [] reg = "54" -> RefreshFlags([t EXCEPT !.vfilter = SubSeq(@, 1, 4) \o w])

DecodeViewport(t, e, w) == Apply([t EXCEPT !.viewport = w], e)

Decode(t, e, c, reg, w) ==
    CASE reg \in {"01", "02", "03", "04"} -> DecodeSamples(t, reg, w)
      [] reg \in {"20", "21"} -> DecodeScissor(t, e, c)
      [] reg \in {"40", "41", "43", "55", "56", "59"} -> DecodePixel(t, e, reg, w)
      [] reg = "XF" -> DecodeViewport(t, e, w)
      [] OTHER -> DecodeCopy(t, reg, w)

RememberFirst(c, reg, w) == IF reg \in DOMAIN c THEN c ELSE (reg :> w) @@ c

Remember(c, reg, w) == (reg :> w) @@ c

Unchanged(c, reg, w) == reg # "XF" /\ reg \in DOMAIN c /\ c[reg] = w

\* The state and the cache once a queue is decoded.
Drained(queue) ==
    FoldLeft(LAMBDA acc, e : IF Unchanged(acc.c, e[1], e[2]) THEN acc
                             ELSE LET c == Remember(acc.c, e[1], e[2])
                                  IN  [t |-> Decode(acc.t, extent, c, e[1], e[2]), c |-> c],
             [t |-> s, c |-> cache], queue)

NothingDone == done' = [kind |-> "none"]

-----------------------------------------------------------------------------
\* The calls that refuse their argument leave everything as it is.
Accepted(op, a) ==
    op = "YScale" => \E y \in YScales : y[1] = <<s.dispSrc["y"].size, a>>

Lines(op, a, effective) ==
    IF op # "YScale" THEN <<>>
    ELSE LET efb == s.dispSrc["y"].size
         IN  [lines |-> [efb |-> efb, asked |-> a, given |-> NumXfbLines(efb, LineScale(effective))]]

\* The calls whose argument the state is compared with.
Compared == {"DispSrc", "DispDst", "YScale", "Clear", "Filter", "Blend", "ZMode", "PixelFmt", "TexSrc", "TexDst"}

Call(op, a) ==
    LET effective == Effective(op, a)
    IN  /\ Accepted(op, a)
        /\ Len(fifo) + Len(Words(op, effective)) <= QueueBound
        /\ s' = Assigns(op, effective) @@ Lines(op, a, effective) @@ s
        /\ cache' = IF op = "Gamma" THEN ("52" :> a % 4) @@ cache ELSE cache
        /\ fifo' = fifo \o Words(op, effective)
        /\ asked' = IF op \in Compared THEN (op :> effective) @@ asked ELSE asked
        /\ NothingDone
        /\ UNCHANGED <<topic, extent, settings>>

\* A draw, or a full FIFO.
Drain ==
    /\ fifo # <<>>
    /\ LET drained == Drained(fifo) IN s' = drained.t /\ cache' = drained.c
    /\ fifo' = <<>>
    /\ NothingDone
    /\ UNCHANGED <<topic, extent, settings, asked>>

SettingsAllowed(next) == next.policy # "fit" => next.scale[1] = 0

Configure(next) ==
    /\ SettingsAllowed(next)
    /\ \A a \in Axes : VideoExtent(next).logical[a] <= MaxSide
    /\ settings' = next
    /\ NothingDone
    /\ UNCHANGED <<topic, s, cache, fifo, extent, asked>>

\* The policy without mapping the viewport again.
WithPolicyOnly(t, policy) == [t EXCEPT !.policy = policy]

WithPolicy(t, policy) == Apply([t EXCEPT !.policy = policy], extent)

SetViewportPolicy(policy) ==
    /\ SettingsAllowed([settings EXCEPT !.policy = policy])
    /\ LET drained == Drained(fifo) IN s' = WithPolicy(drained.t, policy) /\ cache' = drained.c
    /\ fifo' = <<>>
    /\ settings' = [settings EXCEPT !.policy = policy]
    /\ NothingDone
    /\ UNCHANGED <<topic, extent, asked>>

\* Commands queued before the frame stay queued; they are decoded in it.
BeginFrame ==
    /\ extent' = VideoExtent(settings)
    /\ s' = Apply([s EXCEPT !.policy = settings.policy], extent')
    /\ NothingDone
    /\ UNCHANGED <<topic, cache, fifo, settings, asked>>

Copy(kind, drained, plan) ==
    /\ s' = drained.t /\ cache' = drained.c /\ done' = [kind |-> kind, plan |-> plan]
    /\ fifo' = <<>>
    /\ UNCHANGED <<topic, extent, settings, asked>>

CopyTex(clear) ==
    LET drained == Drained(fifo) IN Copy("texture", drained, TexturePlan(drained.t, extent, clear))

CopyDisp(clear, disableFilter) ==
    LET drained == Drained(fifo)
    IN  Copy("display", drained, DisplayPlan(drained.t, extent, clear, disableFilter))

VideoNext ==
    \/ \E mode \in Modes : Configure([settings EXCEPT !.mode = mode])
    \/ \E scale \in Scales : Configure([settings EXCEPT !.scale = scale])
    \/ \E policy \in Policies : SetViewportPolicy(policy)
    \/ BeginFrame

Next ==
    \/ \E op \in topic \cap DOMAIN Arguments : \E a \in Arguments[op] : Call(op, a)
    \/ Drain
    \/ "Video" \in topic /\ VideoNext
    \/ "CopyTex" \in topic /\ \E clear \in BOOLEAN : CopyTex(clear)
    \/ "CopyDisp" \in topic /\ \E clear, disableFilter \in BOOLEAN : CopyDisp(clear, disableFilter)

Spec == Init /\ [][Next]_vars

-----------------------------------------------------------------------------
\* What a state holds of a call, in the form of its argument.
Holds(t, op) ==
    CASE op = "DispSrc" -> t.dispSrc [] op = "DispDst" -> t.dispDst
      [] op = "YScale" -> t.yScale [] op = "Clear" -> t.clear
      [] op = "Filter" -> [aa |-> t.aa, vf |-> t.vf, pattern |-> t.pattern, vfilter |-> t.vfilter]
      [] op = "Blend" -> [color |-> t.colorUpdate, alpha |-> t.alphaUpdate]
      [] op = "ZMode" -> t.depthUpdate [] op = "PixelFmt" -> t.alpha
      [] op = "TexSrc" -> t.texSrc
      [] op = "TexDst" -> [size |-> t.texSize, format |-> t.texFormat, half |-> t.texHalf]

\* The state had the latest call been made now, and all of its words decoded.
Registered(op) ==
    FoldLeft(LAMBDA t, w : Decode(t, extent, cache, w[1], w[2]),
             Assigns(op, asked[op]) @@ s, Words(op, asked[op]))

\* A copy uses the latest call's arguments, all of them exactly as given or all
\* exactly as its own words decode, and nothing of an earlier call, however
\* assignments made at once and words queued and dropped by the cache overtook
\* each other (gx_copy_commands.cpp:120-210, register_decoder.cpp:332).  Both
\* occur: a width of 641 stays 641 if 640 was decoded before it, and else becomes
\* 640; so does aa with a pattern that does not need it.
CopyAsAsked ==
    done.kind # "none" =>
       \A op \in DOMAIN asked : Holds(s, op) \in {asked[op], Holds(Registered(op), op)}

\* The part of r that a cut at n texels of its side leaves on either side.
Cuts(r) == {n \in {1, r.size \div 2} : n > 0 /\ n < r.size}

\* A copy samples and clears within the target, a texel at least; what it clears
\* is what it copied, to the nearest texel for a texture copy and exactly for a
\* display copy; copies that abut leave no uncleared texel between them
\* (gx_texture_copy_plan.cpp:30-71, gx_display_copy_plan.cpp:17-28).
ClearFollowsCopy ==
    done.kind # "none" /\ done.plan.ok =>
       \A a \in Axes :
          LET unit == extent.logical[a]
              source == done.plan.source[a]
              cleared == done.plan.clear[a]
              distance == Larger(Distance(cleared.low * unit, source.low), Distance(cleared.high * unit, source.high))
              clears(r) == ClearSpan(r, unit, extent.target[a], s.policy = "native")
          IN  /\ 0 <= source.low /\ source.high - source.low >= unit /\ source.high <= extent.target[a] * unit
              /\ 0 <= cleared.low /\ cleared.low < cleared.high /\ cleared.high <= extent.target[a]
              /\ 2 * distance <= IF done.kind = "display" THEN 0 ELSE unit
              /\ done.kind = "texture" =>
                    \A n \in Cuts(s.texSrc[a]) :
                       LET left == clears([s.texSrc[a] EXCEPT !.size = n])
                           right == clears([lo |-> s.texSrc[a].lo + n, size |-> s.texSrc[a].size - n])
                       IN  left.low = cleared.low /\ right.low <= left.high /\ right.high >= cleared.high

\* Draws are clipped by the present state: every change of viewport, scissor,
\* offset, policy or extent maps it again, in whichever order they come; the
\* scissor stays on the target and an offset counts modulo 1024
\* (gx_viewport_backend.cpp:9-42, gx_viewport.cpp:45-71).
RenderCurrent ==
    LET mapped == MapViewport(s, extent)
    IN  /\ s.render = mapped
        /\ s.policy # "native" => \A a \in Axes : /\ 0 <= mapped.scissor[a].low /\ mapped.scissor[a].high <= extent.target[a]
                                                   /\ ScissorRegisters(mapped.scissor)[a] = mapped.scissor[a]
        /\ \A a \in Axes : MapViewport([s EXCEPT !.offset[a] = @ + 1024], extent) = mapped

\* The copy with the scale of GXGetYScaleFactor never yields more lines than the
\* XFB was made for, while that is more than half of the EFB's height
\* (gx_copy_commands.cpp:256-281).
LinesFit == 2 * s.lines.asked > s.lines.efb => s.lines.given <= s.lines.asked

=============================================================================
