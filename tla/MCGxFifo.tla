------------------------------ MODULE MCGxFifo ------------------------------
(* Streams of any two packets, of three mostly draws, and of four or five  *)
(* draws that can merge; and packets of up to three TEV stages.            *)
EXTENDS GxFifo, GxMaterial

MCFormats == [f \in 0..2 |-> CASE f = 0 -> [indices |-> 1, components |-> 3]
                               [] f = 1 -> [indices |-> 1, components |-> 9]
                               [] f = 2 -> [indices |-> 3, components |-> 9]]

Draws(prims, counts, fmts, starts, cuts) ==
    [op : {"draw"}, prim : prims, count : counts, fmt : fmts, start : starts, cut : cuts]

MCDraws == Draws({"quads", "strip"}, {4}, {0}, {0}, {FALSE})
           \cup Draws({"triangles"}, {0, 3}, {0}, {0, 1}, {FALSE})
           \cup Draws({"fan"}, {4}, {1}, {0}, {FALSE})
           \cup Draws({"triangles"}, {3}, {2}, {1}, {FALSE})
           \cup Draws({"strip"}, {5}, {0}, {0}, {TRUE})
           \cup Draws({"lines", "linestrip", "points"}, {3}, {0}, {0}, {FALSE})

MCOthers == {[op |-> "nop"]}
            \cup [op : {"write"}, cut : {FALSE}, cullAll : {FALSE}, layout : {"good", "bad"}]
            \cup {[op |-> "write", cut |-> FALSE, cullAll |-> TRUE, layout |-> "good"],
                  [op |-> "write", cut |-> TRUE, cullAll |-> FALSE, layout |-> "good"]}
            \cup {[op |-> "memory", cut |-> FALSE, source |-> "good", region |-> "texture", offset |-> 0, len |-> 8],
                  [op |-> "memory", cut |-> FALSE, source |-> "good", region |-> "normal", offset |-> 3, len |-> 6],
                  [op |-> "memory", cut |-> FALSE, source |-> "good", region |-> "light", offset |-> 8, len |-> 9],
                  [op |-> "memory", cut |-> FALSE, source |-> "bad", region |-> "position", offset |-> 0, len |-> 12],
                  [op |-> "memory", cut |-> TRUE, source |-> "good", region |-> "post", offset |-> 0, len |-> 12]}
            \cup [op : {"ignored"}, cut : BOOLEAN]
            \cup {[op |-> "malformed"]}

MCRaw == {[op |-> "draw", id |-> 1, prim |-> "quads", count |-> 8, fmt |-> 0, start |-> 0, cut |-> FALSE],
          [op |-> "draw", id |-> 1, prim |-> "fan", count |-> 4, fmt |-> 0, start |-> 2, cut |-> FALSE]}

MCMergeable == Draws({"quads", "strip"}, {4}, {0}, {0}, {FALSE}) \cup Draws({"triangles"}, {3}, {0}, {0}, {FALSE})
               \cup {[op |-> "nop"]}

MCMixed == MCMergeable \cup Draws({"fan"}, {4}, {1}, {0}, {FALSE}) \cup Draws({"triangles"}, {3}, {0}, {1}, {FALSE})
           \cup Draws({"lines"}, {3}, {0}, {0}, {FALSE})
           \cup [op : {"write"}, cut : {FALSE}, cullAll : BOOLEAN, layout : {"good"}] \cup {[op |-> "malformed"]}

MCStreams == SeqOf(MCDraws \cup MCOthers, 2) \cup [1..3 -> MCMixed] \cup [1..4 -> MCMergeable]
             \cup [1..5 -> Draws({"fan", "strip"}, {4}, {0}, {0}, {FALSE})]

-----------------------------------------------------------------------------
(* Packets.  A packet is a snapshot, so its shading does not depend on what *)
(* the stream does: packets are built between streams, in the first state.  *)

Plain == [op |-> 0, bias |-> 0, scale |-> 0, clamp |-> TRUE, out |-> 0]

TextureStage ==
    [color |-> <<15, 8, 10, 15>>, alpha |-> <<7, 7, 7, 4>>, colorOp |-> Plain, alphaOp |-> Plain,
     texSwap |-> <<0, 1, 2, 3>>, rasSwap |-> <<0, 1, 2, 3>>, konstColor |-> 0, konstAlpha |-> 0,
     map |-> 2, coord |-> 1, channel |-> 0, indStage |-> 0, indFormat |-> 0, indAlpha |-> 0,
     indMatrix |-> 0, wrap |-> <<0, 0>>, addPrev |-> FALSE]

NoTexture == [TextureStage EXCEPT !.color = <<15, 15, 15, 0>>, !.alpha = <<7, 7, 7, 0>>]

\* Stages that differ in what they depend on.
MCStages == {TextureStage, NoTexture,
             [TextureStage EXCEPT !.coord = 255, !.map = 7],
             [TextureStage EXCEPT !.map = 255],
             [TextureStage EXCEPT !.indMatrix = 1, !.indStage = 1],
             [NoTexture EXCEPT !.indMatrix = 6, !.coord = 0],
             [NoTexture EXCEPT !.coord = 0, !.indStage = 3],
             [NoTexture EXCEPT !.wrap = <<6, 0>>, !.indStage = 3],
             [TextureStage EXCEPT !.addPrev = TRUE, !.indStage = 3],
             [NoTexture EXCEPT !.channel = 8, !.indAlpha = 1, !.color = <<15, 15, 15, 10>>]}

\* Stages the build refuses, or must not refuse.
MCOddStages == {[TextureStage EXCEPT !.indMatrix = 4],
                [TextureStage EXCEPT !.konstColor = 9],
                [TextureStage EXCEPT !.konstColor = 9, !.color = <<14, 8, 10, 15>>],
                [TextureStage EXCEPT !.konstAlpha = 13, !.alpha = <<6, 7, 7, 4>>]}

C(r, g, b, a) == <<r * Byte, g * Byte, b * Byte, a * Byte>>

State(stages, texGens, indStages) ==
    [stages |-> stages, texGens |-> texGens, indStages |-> indStages,
     indirect |-> [k \in 0..3 |-> [map |-> IF k = 2 THEN 255 ELSE k + 4, coord |-> k + 1, scale |-> 0]],
     texgen |-> [c \in 0..7 |-> CASE c = 2 -> "emboss" [] c = 1 -> "srtg" [] OTHER -> "matrix"],
     textures |-> [m \in 0..7 |-> IF m = 7 THEN "mismatch" ELSE IF m = 4 THEN "copy" ELSE "memory"],
     raster |-> "triangles", alphaTest |-> [comp0 |-> 4, ref0 |-> 64, op |-> 0, comp1 |-> 7, ref1 |-> 0],
     colors |-> <<C(-3, 200, 1023, 128), C(7, 7, 7, 255), C(-1024, 0, 90, 0), C(17, 34, 51, 68)>>,
     konst |-> <<C(1, 2, 3, 4), C(255, 128, 64, 32), C(9, 8, 7, 6), C(0, 255, 0, 255)>>,
     rasters |-> <<C(10, 20, 200, 40), C(255, 1, 2, 3)>>,
     texels |-> {C(17, 34, 51, 67)}, bumps |-> {C(248, 17, 128, 0)}]

MCDependencies ==
    {State(stages, texGens, indStages) : stages \in SeqOf(MCStages, 2) \ {<<>>}, texGens \in 0..3, indStages \in {0, 1, 2, 4}}
    \cup {State(stages, 2, 2) : stages \in [1..3 -> MCStages]}
    \cup {State(<<s>>, 2, 0) : s \in MCOddStages} \cup {State(<<>>, 1, 0)}
    \cup {[State(<<NoTexture>>, 1, 0) EXCEPT !.raster = "lines"]}

\* Every operation, on inputs of every kind.
MCOperations == [op : {0, 1}, bias : {-128, 0, 128}, scale : 0..3, clamp : BOOLEAN, out : {2}]
                \cup [op : 8..15, bias : {0}, scale : {0}, clamp : BOOLEAN, out : {2}]

MCColorArgs == {<<0, 2, 8, 4>>, <<8, 6, 12, 0>>, <<13, 8, 11, 2>>, <<8, 8, 14, 5>>}

MCTexels == {C(0, 0, 0, 0), C(17, 34, 51, 67), <<2047, 1021, 8, 4>>, C(255, 200, 1, 128)}

MCCombiners ==
    {[State(<<[TextureStage EXCEPT !.colorOp = o, !.alphaOp = [o EXCEPT !.out = 0], !.color = args, !.alpha = <<4, 0, 2, 1>>,
                                  !.konstColor = k, !.texSwap = swap]>>, 2, 0) EXCEPT !.texels = MCTexels] :
        o \in MCOperations, args \in MCColorArgs, k \in {1, 22}, swap \in {<<0, 1, 2, 3>>, <<3, 2, 1, 0>>}}

MCMaterials == MCDependencies \cup MCCombiners

MCInit == FifoInit /\ MaterialInit

MCNext == \/ shade = "none" /\ FifoNext /\ UNCHANGED materialVars
          \/ /\ status = "idle" /\ reg = InitialRegisters
             /\ \/ \E gx \in MCMaterials : BuildPacket(gx)
                \/ MaterialNext
             /\ UNCHANGED fifoVars

MCSpec == MCInit /\ [][MCNext]_<<fifoVars, materialVars>>

=============================================================================
