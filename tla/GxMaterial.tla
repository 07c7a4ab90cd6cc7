----------------------------- MODULE GxMaterial -----------------------------
(***************************************************************************)
(* GxDrawPacket::build turns the register state of one draw into a packet: *)
(* the TEV program, the texture coordinates to generate, the material's    *)
(* texture bindings; the pixel shader then runs the program, stage after   *)
(* stage, on that packet alone.                                            *)
(*                                                                         *)
(* The state is a record: texGens and indStages count the generators and   *)
(* the indirect stages, stages holds the TEV stages, indirect the four     *)
(* indirect stages, textures what each map is bound to; texels and bumps   *)
(* are what a sample of a texture or an indirect map may return.           *)
(***************************************************************************)
EXTENDS TevStage, FiniteSets, TLC

VARIABLES
    packet,    \* the packet in use, or NoPacket
    shade,     \* "none", "shading", "kept" or "discarded"
    stage,     \* stages evaluated so far
    regs,      \* the TEV registers
    result,    \* the last stage's result
    savedAt    \* the stage that last updated the persistent coordinate, or 0

materialVars == <<packet, shade, stage, regs, result, savedAt>>

NoPacket == [stages |-> <<>>, texels |-> {}, bumps |-> {}]

MaterialInit ==
    /\ packet = NoPacket /\ shade = "none" /\ stage = 0
    /\ regs = [r \in 1..4 |-> Splat(0)] /\ result = Splat(0) /\ savedAt = 0

-----------------------------------------------------------------------------
(* Dependencies of a TEV stage (register_state.hpp).                       *)

\* A coordinate outside the generated set reads coordinate 0; -1: there is none.
EffectiveCoord(gx, id) == IF gx.texGens = 0 THEN -1 ELSE IF id < gx.texGens THEN id ELSE 0

MovesCoord(s) == s.indMatrix # 0 \/ s.wrap # <<0, 0>> \/ s.addPrev

\* The next stage adds this one's coordinate to its own.
FeedsNext(gx, i) == i < Len(gx.stages) /\ gx.stages[i + 1].addPrev

NeedsCoord(gx, i) == MovesCoord(gx.stages[i]) \/ FeedsNext(gx, i)

HasMap(s) == s.map < 8
CombinesTexture(s) == \E k \in 1..4 : s.color[k] \in {8, 9} \/ s.alpha[k] = 4

Sampled(gx, i) ==
    EffectiveCoord(gx, gx.stages[i].coord) >= 0 /\ HasMap(gx.stages[i]) /\ CombinesTexture(gx.stages[i])

IndirectActive(gx, i) == gx.stages[i].indStage < gx.indStages

-----------------------------------------------------------------------------
(* build_tev_program and tev_program_used_texcoords.                       *)

KonstColor(sel, konst) ==
    IF sel < 8 THEN Splat((8 - sel) * 255)
    ELSE IF sel < 16 THEN konst[sel - 11]
    ELSE Splat(konst[((sel - 16) % 4) + 1][((sel - 16) \div 4) + 1])

ReadsKonst(s) == \E k \in 1..4 : s.color[k] = 14
ReadsKonstAlpha(s) == \E k \in 1..4 : s.alpha[k] = 6

Konst(gx, s) ==
    LET rgb == IF ReadsKonst(s) THEN KonstColor(s.konstColor, gx.konst) ELSE Splat(0)
    IN  [rgb EXCEPT ![4] = IF ReadsKonstAlpha(s) THEN KonstColor(s.konstAlpha, gx.konst)[4] ELSE rgb[4]]

\* An unused konst selector is not looked at.
ValidStage(s) ==
    /\ ReadsKonst(s) => s.konstColor \in (0..7) \cup (12..31)
    /\ ReadsKonstAlpha(s) => s.konstAlpha \in (0..7) \cup (16..31)
    /\ s.channel \in (0..8) \cup {255}

ProgramStage(gx, i) ==
    LET s == gx.stages[i]
    IN  [sampled |-> Sampled(gx, i), map |-> s.map, coord |-> EffectiveCoord(gx, s.coord),
         konst |-> Konst(gx, s), indActive |-> IndirectActive(gx, i), feedsNext |-> FeedsNext(gx, i)] @@ s

ProgramAccepted(gx) ==
    /\ Len(gx.stages) \in 1..16 /\ gx.texGens <= 8 /\ gx.indStages <= 4
    /\ \A i \in DOMAIN gx.stages : ValidStage(gx.stages[i])

UsedCoordsSampledOnly(gx) ==
    ({EffectiveCoord(gx, gx.stages[i].coord) : i \in {j \in DOMAIN gx.stages : Sampled(gx, j)}}
     \cup {EffectiveCoord(gx, gx.indirect[gx.stages[i].indStage].coord) : i \in {j \in DOMAIN gx.stages : IndirectActive(gx, j)}})
    \ {-1}

\* The coordinates of sampling stages, of stages that compute one without
\* sampling, and of active indirect stages.
UsedCoords(gx) ==
    ({EffectiveCoord(gx, gx.stages[i].coord) : i \in {j \in DOMAIN gx.stages : Sampled(gx, j) \/ NeedsCoord(gx, j)}}
     \cup {EffectiveCoord(gx, gx.indirect[gx.stages[i].indStage].coord) : i \in {j \in DOMAIN gx.stages : IndirectActive(gx, j)}})
    \ {-1}

\* Emboss and recursive generators are refused, when their coordinate is used.
TexgenAccepted(gx) == \A c \in UsedCoords(gx) : gx.texgen[c] \in {"matrix", "srtg"}

-----------------------------------------------------------------------------
(* GxDirectMaterial::build.                                                *)

ActiveIndirect(gx) == {gx.stages[i].indStage : i \in {j \in DOMAIN gx.stages : IndirectActive(gx, j)}}

IndirectAccepted(gx) ==
    /\ \A k \in ActiveIndirect(gx) : gx.indirect[k].map < 8 /\ gx.indirect[k].scale <= 8
    /\ \A i \in DOMAIN gx.stages :
          gx.stages[i].indMatrix \in (0..11) \ {4, 8} /\ gx.stages[i].wrap \in (0..6) \X (0..6)

UsesMatrices(gx) == \E i \in DOMAIN gx.stages : IndirectActive(gx, i) /\ gx.stages[i].indMatrix # 0

\* The coordinate 8 is the shader's constant.
IndirectUniform(gx, k) ==
    [map |-> gx.indirect[k].map, scale |-> gx.indirect[k].scale,
     coord |-> IF gx.texGens = 0 THEN 8 ELSE EffectiveCoord(gx, gx.indirect[k].coord)]

Mask(gx) == {gx.indirect[k].map : k \in ActiveIndirect(gx)}
            \cup {gx.stages[i].map : i \in {j \in DOMAIN gx.stages : Sampled(gx, j)}}

\* A map holds a texture copy or a texture in memory; a copy viewed in another
\* size or format and a palette outside the table are refused.
TexturesAccepted(gx) == \A m \in Mask(gx) : gx.textures[m] \in {"copy", "memory"}

\* Raster state the triangle pipeline cannot express: lines and points,
\* depth textures, integer logic.
RasterAccepted(gx) == gx.raster = "triangles"

Accepted(gx) == RasterAccepted(gx) /\ ProgramAccepted(gx) /\ TexgenAccepted(gx)
                /\ IndirectAccepted(gx) /\ TexturesAccepted(gx)

PacketOf(gx) ==
    [stages |-> [i \in DOMAIN gx.stages |-> ProgramStage(gx, i)],
     disabled |-> Splat(IF gx.texGens = 0 THEN 0 ELSE 255 * Byte),
     initial |-> gx.colors, alphaTest |-> gx.alphaTest, rasters |-> gx.rasters, texels |-> gx.texels, bumps |-> gx.bumps,
     generated |-> UsedCoords(gx), scales |-> 0..(gx.texGens - 1),
     matrices |-> IF UsesMatrices(gx) THEN 0..2 ELSE {},
     indirect |-> [k \in ActiveIndirect(gx) |-> IndirectUniform(gx, k)],
     bound |-> [m \in Mask(gx) |-> gx.textures[m]]]

\* A refused draw throws before anything is recorded.
BuildPacket(gx) ==
    /\ shade = "none"
    /\ IF Accepted(gx) THEN /\ packet' = PacketOf(gx) /\ shade' = "shading"
                            /\ regs' = gx.colors /\ result' = gx.colors[1]
       ELSE UNCHANGED <<packet, shade, regs, result>>
    /\ stage' = 0 /\ savedAt' = 0

-----------------------------------------------------------------------------
(* The pixel shader.                                                       *)

Current == packet.stages[stage + 1]

UpdatesCoord(s) == s.indMatrix # 0 \/ s.wrap # <<0, 0>> \/ s.addPrev \/ s.feedsNext

\* What the shader takes for stage n.  A dynamic matrix reads one exponent; with
\* coordinate 8 it reads some word as a scale and multiplies zero by it.
Loads(p, s, n) ==
    (IF s.sampled THEN {<<"texture", s.map>>} ELSE {})
    \cup (IF s.indActive
          THEN LET ind == p.indirect[s.indStage]
               IN  {<<"indirect", s.indStage>>, <<"texture", ind.map>>}
                   \cup (IF ind.coord < 8 THEN {<<"coord", ind.coord>>, <<"scale", ind.coord>>} ELSE {})
          ELSE {})
    \cup (IF (s.sampled \/ UpdatesCoord(s)) /\ s.coord \in 0..7
          THEN {<<"coord", s.coord>>, <<"scale", s.coord>>} ELSE {})
    \cup (IF UpdatesCoord(s) /\ s.indActive /\ s.indMatrix # 0
          THEN {<<"matrix", (s.indMatrix - 1) % 4>>} ELSE {})
    \cup (IF s.addPrev /\ n > 1 THEN {<<"previous", n - 1>>} ELSE {})

ShadeStage(sample, indirect) ==
    /\ shade = "shading" /\ stage < Len(packet.stages)
    /\ LET s == Current
           tex == IF s.sampled THEN sample ELSE packet.disabled
           in == StageInputs(regs, s, tex, Raster(s, packet.rasters, indirect))
       IN  /\ result' = StageResult(s, in)
           /\ regs' = WriteRegisters(regs, s, StageResult(s, in))
           /\ savedAt' = IF UpdatesCoord(s) THEN stage + 1 ELSE savedAt
    /\ stage' = stage + 1
    /\ UNCHANGED <<packet, shade>>

EndPixel ==
    /\ shade = "shading" /\ stage = Len(packet.stages)
    /\ shade' = IF AlphaTest(result[4], packet.alphaTest) THEN "kept" ELSE "discarded"
    /\ UNCHANGED <<packet, stage, regs, result, savedAt>>

\* The next draw has a packet of its own.
DropPacket ==
    /\ shade \in {"kept", "discarded"}
    /\ packet' = NoPacket /\ shade' = "none" /\ stage' = 0
    /\ regs' = [r \in 1..4 |-> Splat(0)] /\ result' = Splat(0) /\ savedAt' = 0

MaterialNext == \/ \E sample \in packet.texels, indirect \in packet.bumps : ShadeStage(sample, indirect)
                \/ EndPixel \/ DropPacket

-----------------------------------------------------------------------------
Provided(p) ==
    {<<"texture", m>> : m \in DOMAIN p.bound} \cup {<<"coord", c>> : c \in p.generated}
    \cup {<<"scale", c>> : c \in p.scales} \cup {<<"matrix", m>> : m \in p.matrices}
    \cup {<<"indirect", k>> : k \in DOMAIN p.indirect}

Running == shade = "shading" /\ stage < Len(packet.stages)

\* Whatever the shader loads for a stage is there: the CPU has bound the map,
\* generates the coordinate, has uploaded its scale, the indirect stage and the
\* matrix; and an added coordinate is that of the stage just before, not one an
\* earlier stage left (gx_direct_material.cpp:29, gx_tev_program.cpp:82, 96 and
\* the shader derive these each on their own).
LoadsProvided ==
    Running => Loads(packet, Current, stage + 1) \subseteq Provided(packet) \cup {<<"previous", savedAt>>}

IsByte(v) == \A i \in 1..4 : v[i] % Byte = 0
Whole(v) == v[1] \div Byte + 256 * (v[2] \div Byte) + 65536 * (v[3] \div Byte)

\* On whole bytes the shader's combiner computes what the integer combiner
\* does, for every channel and operation (tev_integer.h:25).
CombinerAgrees ==
    Running =>
        \A sample \in packet.texels :
            LET s == Current
                in == StageInputs(regs, s, IF s.sampled THEN sample ELSE packet.disabled, packet.rasters[1])
                colorA == Whole(in.a)
                colorB == Whole(in.b)
            IN  (IsByte(in.a) /\ IsByte(in.b) /\ IsByte(in.c) /\ IsByte(in.d)) =>
                \A i \in 1..4 :
                    StageResult(s, in)[i] =
                        Byte * Component(in.a[i] \div Byte, in.b[i] \div Byte, in.c[i] \div Byte, in.d[i] \div Byte,
                                         colorA, colorB, Operation(s, i))

=============================================================================
