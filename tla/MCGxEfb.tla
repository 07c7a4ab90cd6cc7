------------------------------ MODULE MCGxEfb ------------------------------
(* Real sizes: copies of the game's screens, at edges, thinner than a      *)
(* texel, beyond the EFB; widths that are no multiple of 16; filters set,  *)
(* kept and disabled; scissors behind each offset.                         *)
EXTENDS GxEfb

MCRect(x, y, w, h) == Rect(x, y, w, h)

MCSources == {MCRect(0, 0, 640, 480), MCRect(7, 13, 333, 101), MCRect(638, 470, 5, 80), MCRect(1, 2, 1, 3), MCRect(700, 600, 9, 9)}

MCSize(w, h) == [x |-> w, y |-> h]

MCArguments ==
    [DispSrc |-> {MCRect(0, 0, 640, 480), MCRect(5, 9, 607, 455)},
     DispDst |-> {MCSize(640, 480), MCSize(641, 574), MCSize(0, 0)},
     TexSrc |-> MCSources,
     TexDst |-> {[size |-> MCSize(640, 480), format |-> "color", half |-> FALSE],
                 [size |-> MCSize(320, 51), format |-> "color", half |-> TRUE],
                 [size |-> MCSize(0, 7), format |-> "depth", half |-> FALSE],
                 [size |-> MCSize(1, 1), format |-> "unsupported", half |-> FALSE]},
     YScale |-> {480, 528, 574},
     Clear |-> {[ra |-> 1, gb |-> 2, z |-> 16777215], [ra |-> 3, gb |-> 2, z |-> 16777216]},
     Filter |-> {[aa |-> FALSE, pattern |-> <<>>, vf |-> TRUE, vfilter |-> <<8, 8, 10, 12, 10, 8, 8>>],
                 [aa |-> FALSE, pattern |-> <<>>, vf |-> TRUE, vfilter |-> <<>>],
                 [aa |-> TRUE, pattern |-> [q \in 1..4 |-> "odd"], vf |-> FALSE, vfilter |-> <<>>],
                 [aa |-> TRUE, pattern |-> <<>>, vf |-> TRUE, vfilter |-> <<8, 8, 10, 12, 10, 0, 0>>]},
     Gamma |-> {0, 2}, Field |-> {6}, Edges |-> {1}, BoundingBox |-> {0},
     Blend |-> {[color |-> c, alpha |-> ~c] : c \in BOOLEAN}, ZMode |-> BOOLEAN, PixelFmt |-> BOOLEAN,
     Scissor |-> {MCRect(320, 240, 320, 240), MCRect(1000, 1010, 60, 40), MCRect(100, 700, 0, 9)},
     Offset |-> {MCSize(20, 30), MCSize(1000, 1004)},
     Viewport |-> {MCRect(1024, 1024, 640, 480), MCRect(320, 0, 320, 480)}]

MCTopics == {{"DispSrc", "CopyDisp", "Video"}, {"DispSrc", "DispDst", "CopyDisp"}, {"DispSrc", "YScale"}, {"TexSrc", "TexDst", "CopyTex", "Video"},
             {"Filter", "PixelFmt", "TexDst", "CopyTex"}, {"Filter", "DispSrc", "CopyDisp"}, {"Clear", "ZMode", "CopyTex"}, {"Blend", "PixelFmt", "CopyTex"},
             {"Gamma", "Field", "Edges", "BoundingBox", "CopyTex"}, {"Scissor", "Offset"}, {"Scissor", "Viewport"}, {"Scissor", "Video"}}

MCModes == {<<640, 480>>, <<704, 574>>}
MCScales == {<<0, 1>>, <<1, 3>>, <<3, 2>>}
MCPolicies == {"fit", "stretch", "native"}
MCSurface == MCSize(1920, 1080)

=============================================================================
