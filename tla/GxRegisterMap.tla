--------------------------- MODULE GxRegisterMap ---------------------------
(***************************************************************************)
(* Which decoded fields of GXRegisterState each hardware register of the   *)
(* GX command stream owns, as register_decoder.cpp assigns them.           *)
(*                                                                         *)
(* A register word is abstracted to two groups of bits, "lo" and "hi": a   *)
(* word is the set of the groups that are one.  An entry [lo |-> L,        *)
(* hi |-> H] says that a write decodes the fields L from the low group and *)
(* the fields H from the high one.  A field is a pair <<name, index>>, the *)
(* index being the TEV stage, texture slot, matrix or vertex format.       *)
(***************************************************************************)
EXTENDS Integers, Sequences, TLC

Group == {"lo", "hi"}
Word == SUBSET Group

F(names, i) == {<<n, i>> : n \in names}
Bits(lo, hi) == [lo |-> lo, hi |-> hi]
NoBits == Bits({}, {})

-----------------------------------------------------------------------------
(* BP registers.                                                           *)

\* Colour (even) and alpha (odd) combiner of the sixteen TEV stages.
TevCombiners == [r \in \hC0..\hDF |->
    LET stage == (r - \hC0) \div 2
    IN  IF r % 2 = 0
        THEN Bits(F({"colorPass"}, stage), F({"colorOp"}, stage))
        ELSE Bits(F({"tevSwap", "alphaPass"}, stage), F({"alphaOp"}, stage))]

GenMode == 0 :> Bits(F({"numTexGens", "numChans"}, 0),
                     F({"numTevStages", "cullMode", "numIndStages"}, 0))

\* Copy filter: four sample registers, two vertical-filter registers.
CopyFilterRegs == [r \in 1..4 |-> Bits(F({"samplePattern"}, r), {})]
                  @@ [r \in {\h53, \h54} |-> Bits(F({"vfilter"}, r), {})]

\* Three registers per 3x2 indirect matrix: a column and two scale bits each.
IndirectMatrices == [r \in \h06..\h0E |->
    Bits(F({"indMtxColumn"}, r - \h06), F({"indAdjScale"}, r - \h06))]

IndirectStages ==
    [r \in \h10..\h1F |-> Bits(F({"indTexStage", "indTexFormat", "indTexBias", "indTexAlpha"}, r - \h10),
                               F({"indTexMtxId", "indTexWrap", "indTexFlags"}, r - \h10))]
    @@ (\h0F :> Bits(F({"indTexMask"}, 0), {}))
    @@ [r \in {\h25, \h26} |-> Bits(F({"indScale"}, 2 * (r - \h25)), F({"indScale"}, 2 * (r - \h25) + 1))]
    @@ (\h27 :> Bits(F({"indOrder"}, 0) \cup F({"indOrder"}, 1), F({"indOrder"}, 2) \cup F({"indOrder"}, 3)))

\* Two TEV stages per order register, and the line and point sizes.
RasterOrder ==
    [r \in \h28..\h2F |-> Bits(F({"texMapId", "texCoordId", "channelId"}, 2 * (r - \h28)),
                               F({"texMapId", "texCoordId", "channelId"}, 2 * (r - \h28) + 1))]
    @@ (\h22 :> Bits(F({"lineWidth", "pointSize"}, 0), F({"lineTexOffset", "pointTexOffset", "lineHalfAspect"}, 0)))

TexCoordScales == [r \in \h30..\h3F |->
    LET coord == (r - \h30) \div 2
    IN  IF r % 2 = 1 THEN Bits(F({"scaleT"}, coord), F({"biasT", "cylWrapT"}, coord))
        ELSE Bits(F({"scaleS"}, coord), F({"biasS", "cylWrapS", "lineOffset", "pointOffset"}, coord))]

\* Z mode, blend mode, destination alpha, pixel control, field mask.
PixelEngine ==
    (\h40 :> Bits(F({"depthCompare", "depthFunc"}, 0), F({"depthUpdate"}, 0)))
    @@ (\h41 :> Bits(F({"colorUpdate", "alphaUpdate", "blendMode"}, 0), F({"blendFac", "blendOp"}, 0)))
    @@ (\h42 :> Bits(F({"dstAlpha"}, 0), {}))
    @@ (\h43 :> Bits({}, F({"zFmt", "zCompLocBeforeTex"}, 0)))
    @@ (\h44 :> Bits(F({"fieldMask"}, 0), {}))

\* Bounding box, copy control bits of other GX state, scissor offset.
BoxesAndOffsets ==
    (\h55 :> Bits(F({"boundingBox"}, 0), F({"boundingBox"}, 1)))
    @@ (\h56 :> Bits(F({"boundingBox"}, 2), F({"boundingBox"}, 3)))
    @@ (\h58 :> Bits(F({"revBits"}, 0), {}))
    @@ (\h59 :> Bits(F({"scissorOffset"}, 0), F({"scissorOffset"}, 1)))
    @@ (\h68 :> Bits(F({"fieldMode"}, 0), {}))

AlphaAndKonst ==
    (\hF3 :> Bits(F({"alphaRef"}, 0), F({"alphaComp"}, 0)))
    @@ [r \in \hF6..\hFD |->
           Bits(F({IF r % 2 = 1 THEN "swapBlueAlpha" ELSE "swapRedGreen"}, (r - \hF6) \div 2)
                    \cup F({"konstSel"}, 2 * (r - \hF6)),
                F({"konstSel"}, 2 * (r - \hF6) + 1))]

\* Raw fog words; the parameters computed from them are in Recomputed.
FogRegs ==
    (\hEE :> Bits(F({"fog0Raw"}, 0), {}))
    @@ (\hEF :> Bits(F({"fog1Raw"}, 0), {}))
    @@ (\hF0 :> Bits(F({"fog2Raw"}, 0), {}))
    @@ (\hF1 :> Bits(F({"fogC"}, 0), F({"fogType"}, 0)))
    @@ (\hF2 :> Bits(F({"fogColor"}, 0), {}))
    @@ [r \in \hE8..\hED |-> Bits(F({"fogRange"}, r - \hE8), {})]

DisplayCopyRegs ==
    (\h49 :> Bits(F({"dispCopySrcX"}, 0), F({"dispCopySrcY"}, 0)))
    @@ (\h4A :> Bits(F({"dispCopySrcW"}, 0), F({"dispCopySrcH"}, 0)))
    @@ (\h4D :> Bits(F({"dispCopyDstWidth"}, 0), {}))
    @@ (\h4F :> Bits(F({"clearRed"}, 0), F({"clearAlpha"}, 0)))
    @@ (\h50 :> Bits(F({"clearBlue"}, 0), F({"clearGreen"}, 0)))
    @@ (\h51 :> Bits(F({"clearDepth"}, 0), {}))
    @@ (\h52 :> Bits(F({"copyClamp", "texCopyFmt"}, 0), F({"dispCopyGamma", "texCopyHalfScale", "frame2Field"}, 0)))
    @@ (\hF4 :> Bits(F({"zTextureBias"}, 0), {}))
    @@ (\hF5 :> Bits(F({"zTextureFmt"}, 0), F({"zTextureOp"}, 0)))

\* Slot of a texture register: slots 0-3 at 0x80, slots 4-7 at 0xA0, four
\* consecutive registers per kind.
TexSlot(r) == (r % 4) + (IF r >= \hA0 THEN 4 ELSE 0)
TexKind(r) == ((r % \h20) \div 4)
TextureRegs == [r \in (\h80..\h9B) \cup (\hA0..\hBB) |->
    CASE TexKind(r) = 0 -> Bits(F({"mode0"}, TexSlot(r)), {})
      [] TexKind(r) = 1 -> Bits(F({"mode1"}, TexSlot(r)), {})
      [] TexKind(r) = 2 -> Bits(F({"image0"}, TexSlot(r)), {})
      [] TexKind(r) = 5 -> Bits(F({"image3"}, TexSlot(r)), {})
      [] OTHER -> NoBits]

BpMap == TevCombiners @@ GenMode @@ CopyFilterRegs @@ IndirectMatrices @@ IndirectStages
         @@ RasterOrder @@ TexCoordScales @@ PixelEngine @@ BoxesAndOffsets @@ AlphaAndKonst
         @@ FogRegs @@ DisplayCopyRegs @@ TextureRegs @@ [r \in 0..255 |-> NoBits]

\* Bit 23 of a colour register selects the konst bank over the TEV bank.
ColorRegs == \hE0..\hE7
TevColor(r, w) ==
    LET half == IF r % 2 = 0 THEN "RA" ELSE "BG"
    IN  IF "hi" \in w THEN Bits(F({"kcolor" \o half}, (r - \hE0) \div 2), {})
                      ELSE Bits(F({"colorReg" \o half}, (r - \hE0) \div 2), {})

\* A zero scale is ignored; here the low group is the scale.
YScale(w) == IF "lo" \in w THEN Bits(F({"dispCopyYScale"}, 0), {}) ELSE NoBits

\* A TLUT load names its slot in the word; here the high group is an index
\* past the last slot, which is ignored.
TlutLoad(w) == IF "hi" \in w THEN NoBits ELSE Bits(F({"tlutEntries"}, 0), {})

BpFields(r, w) == IF r \in ColorRegs THEN TevColor(r, w)
                  ELSE IF r = \h4E THEN YScale(w)
                  ELSE IF r = \h65 THEN TlutLoad(w)
                  ELSE BpMap[r]

-----------------------------------------------------------------------------
(* CP registers: vertex descriptors, vertex formats, matrix indices, array *)
(* strides.  0x30 and 0x40 own the fields XF 0x18 and 0x19 own as well.    *)

PnMatrixIndices == Bits({<<"currentPnMtx", 0>>}, F({"tcgMtx"}, 0) \cup F({"tcgMtx"}, 1) \cup F({"tcgMtx"}, 2) \cup F({"tcgMtx"}, 3))
TexMatrixIndices == Bits(F({"tcgMtx"}, 4) \cup F({"tcgMtx"}, 5), F({"tcgMtx"}, 6) \cup F({"tcgMtx"}, 7))

Descriptors ==
    (\h50 :> Bits(F({"descMtxIdx"}, 0), F({"descPos", "descNrm", "descClr"}, 0)))
    @@ (\h60 :> Bits(F({"descTexLow"}, 0), F({"descTexHigh"}, 0)))

\* The position and normal formats; the formats of the colours and texture 0.
VertexFormats ==
    [r \in \h70..\h77 |-> Bits(F({"fmtPos", "fmtNrm"}, r - \h70), F({"fmtClr0", "fmtClr1", "fmtTex0"}, r - \h70))]
    @@ [r \in \h80..\h87 |-> Bits(F({"fmtTex1", "fmtTex2"}, r - \h80), F({"fmtTex3", "fmtTex4"}, r - \h80))]
    @@ [r \in \h90..\h97 |-> Bits(F({"fracTex4", "fmtTex5"}, r - \h90), F({"fmtTex6", "fmtTex7"}, r - \h90))]

\* The stride is a byte: the high group lies above it.
Strides == [r \in \hB0..\hBF |-> Bits(F({"stride"}, r - \hB0), {})]

CpMap == Descriptors @@ VertexFormats @@ Strides @@ (\h30 :> PnMatrixIndices) @@ (\h40 :> TexMatrixIndices)
         @@ [r \in 0..255 |-> NoBits]

CpCacheable == {\h30, \h40, \h50, \h60} \cup (\h70..\h97)

-----------------------------------------------------------------------------
(* XF registers below 0x60, the ones the XF cache covers.                  *)

Lighting ==
    [r \in {\h0A, \h0B} |-> Bits(F({"ambColor"}, r - \h0A), {})]
    @@ [r \in {\h0C, \h0D} |-> Bits(F({"matColor"}, r - \h0C), {})]
    @@ [r \in \h0E..\h11 |-> Bits(F({"matSrc", "lighting", "lightMask"}, r - \h0E), F({"ambSrc", "diffFn", "attnFn"}, r - \h0E))]

Counts ==
    (\h00 :> Bits(F({"xfError"}, 0), {})) @@ (\h09 :> Bits(F({"numChans"}, 0), {}))
    @@ (\h12 :> Bits(F({"dualTex"}, 0), {})) @@ (\h3F :> Bits(F({"numTexGens"}, 0), {}))

ViewAndProjection ==
    [r \in \h1A..\h1F |-> Bits(F({"xfViewport"}, r - \h1A), {})]
    @@ [r \in \h20..\h25 |-> Bits(F({"xfProjection"}, r - \h20), {})]
    @@ (\h26 :> Bits(F({"projType"}, 0), {}))

PostTransforms == [r \in \h50..\h57 |-> Bits(F({"postMtx"}, r - \h50), F({"normalize"}, r - \h50))]

XfMap == Lighting @@ Counts @@ ViewAndProjection @@ PostTransforms
         @@ (\h18 :> PnMatrixIndices) @@ (\h19 :> TexMatrixIndices) @@ [r \in 0..\h5F |-> NoBits]

\* A texture generator's type and source are decoded only from the rows the
\* tables hold; here the high group names a row past them.
TexGenRegs == \h40..\h47
TexGen(r, w) == Bits(F({"inputForm"}, r - \h40) \cup
                     (IF "hi" \in w THEN {} ELSE F({"texGenType", "texGenSrc"}, r - \h40)), {})

XfFields(r, w) == IF r \in TexGenRegs THEN TexGen(r, w) ELSE XfMap[r]

\* Viewport and projection are applied again on every write.
XfSkips(r) == r <= \h19 \/ r >= \h3F

-----------------------------------------------------------------------------
(* Packets of the Aurora extension that write the same fields, uncached:   *)
(* 0-7 bind a texture object, 8 loads a TLUT, 9 and 10 set the render      *)
(* viewport and scissor, 16-31 set the base of a vertex array.             *)

AuroraFields(r) == CASE r \in 0..7 -> Bits(F({"texDims"}, r), {})
                     [] r = 8 -> Bits(F({"tlutEntries"}, 0), {})
                     [] r = 9 -> Bits(F({"renderViewport"}, 0), {})
                     [] r = 10 -> Bits(F({"renderScissor"}, 0), {})
                     [] r \in 16..31 -> Bits(F({"arrayBase"}, r - 16), F({"arrayLe"}, r - 16))

Fields(bank, r, w) == CASE bank = "bp" -> BpFields(r, w)
                        [] bank = "cp" -> CpMap[r]
                        [] bank = "xf" -> XfFields(r, w)
                        [] bank = "aurora" -> AuroraFields(r)

-----------------------------------------------------------------------------
(* Fields computed from several registers, and who recomputes them.        *)

\* The fields a computed field is a function of, in the order it reads them.
FieldInputs(f) ==
    CASE f[1] = "copyFilterAa" -> [i \in 1..4 |-> <<"samplePattern", i>>]
      [] f[1] = "copyFilterVf" -> <<<<"vfilter", \h53>>, <<"vfilter", \h54>>>>
      [] f[1] = "fogA" -> <<<<"fog0Raw", 0>>, <<"fog2Raw", 0>>>>
      [] f[1] = "fogB" -> <<<<"fog1Raw", 0>>, <<"fog2Raw", 0>>>>
      [] f[1] = "indScaleExp" -> [i \in 1..3 |-> <<"indAdjScale", 3 * f[2] + i - 1>>]
      [] f[1] = "logicalViewport" -> [i \in 1..6 |-> <<"xfViewport", i - 1>>]
      [] f[1] = "proj" -> [i \in 1..6 |-> <<"xfProjection", i - 1>>] \o <<<<"projType", 0>>>>
      [] f[1] \in {"renderViewport", "renderScissor"} -> <<<<"logicalViewport", 0>>, <<"logicalScissor", 0>>,
                                <<"scissorOffset", 0>>, <<"scissorOffset", 1>>>>
      [] OTHER -> <<>>

\* The cached BP words a computed field is a function of: <<register, group>>.
CacheInputs(f) ==
    CASE f[1] = "logicalScissor" -> <<<<\h20, "lo">>, <<\h20, "hi">>, <<\h21, "lo">>, <<\h21, "hi">>>>
      [] f[1] = "pixelFmt" -> <<<<\h43, "lo">>, <<\h42, "hi">>>>
      [] f[1] = "loadTlut0" -> <<<<\h64, "lo">>>>
      [] OTHER -> <<>>

\* The fields a write recomputes, in the order the handler does.
Recomputes(bank, r, w) ==
    CASE bank = "bp" /\ r \in (1..4) \cup {\h53, \h54} -> <<<<"copyFilterAa", 0>>, <<"copyFilterVf", 0>>>>
      [] bank = "bp" /\ r \in {\h20, \h21} -> <<<<"logicalScissor", 0>>, <<"renderViewport", 0>>, <<"renderScissor", 0>>>>
      [] bank = "bp" /\ r = \h59 -> <<<<"renderViewport", 0>>, <<"renderScissor", 0>>>>
      [] bank = "bp" /\ r \in {\h42, \h43} -> <<<<"pixelFmt", 0>>>>
      [] bank = "bp" /\ r \in \h06..\h0E -> <<<<"indScaleExp", (r - 6) \div 3>>>>
      [] bank = "bp" /\ r = \hEE -> <<<<"fogA", 0>>>>
      [] bank = "bp" /\ r = \hEF -> <<<<"fogB", 0>>>>
      [] bank = "bp" /\ r = \hF0 -> <<<<"fogA", 0>>, <<"fogB", 0>>>>
      [] bank = "bp" /\ r = \h65 -> IF "hi" \in w THEN <<>> ELSE <<<<"loadTlut0", 0>>>>
      [] bank = "xf" /\ r \in \h1A..\h1F -> <<<<"logicalViewport", 0>>, <<"renderViewport", 0>>, <<"renderScissor", 0>>>>
      [] bank = "xf" /\ r \in \h20..\h26 -> <<<<"proj", 0>>>>
      [] OTHER -> <<>>

\* Writing image0 clears the dimensions the texture object had bound.
Clears(bank, r) == IF bank = "bp" /\ r \in DOMAIN TextureRegs /\ TexKind(r) = 2 THEN F({"texDims"}, TexSlot(r)) ELSE {}

-----------------------------------------------------------------------------
(* Writes that advance pipelineStateGeneration, and the fields of          *)
(* ShaderConfig, which is built from the register state.                   *)

BpStamps == (\hC0..\hDF) \cup (\h10..\h1F) \cup (\h25..\h2F) \cup (\h40..\h43)
            \cup {0, \hF1, \hF3, \hF4, \hF5} \cup (\hF6..\hFD) \cup (\hE8..\hED)
CpStamps == {\h30, \h40, \h50, \h60} \cup (\h70..\h97)
XfStampsNoCount == (\h0E..\h12) \cup {\h18, \h19} \cup (\h40..\h47) \cup (\h50..\h57)

XfStamps == (\h0E..\h12) \cup {\h18, \h19} \cup (\h3F..\h47) \cup (\h50..\h57)

PipelineNames ==
    {"fogType", "dualTex", "numTexGens", "zTextureBias", "zTextureFmt", "zTextureOp", "fogRange",
     "descMtxIdx", "descPos", "descNrm", "descClr", "descTexLow", "descTexHigh",
     "fmtPos", "fmtNrm", "fmtClr0", "fmtClr1", "fmtTex0", "fmtTex1", "fmtTex2", "fmtTex3", "fmtTex4",
     "fracTex4", "fmtTex5", "fmtTex6", "fmtTex7", "stride", "arrayLe", "swapBlueAlpha", "swapRedGreen",
     "colorPass", "colorOp", "alphaPass", "alphaOp", "tevSwap", "konstSel", "texMapId", "texCoordId",
     "channelId", "indTexStage", "indTexFormat", "indTexBias", "indTexAlpha", "indTexMtxId",
     "indTexWrap", "indTexFlags", "numTevStages", "matSrc", "ambSrc", "diffFn", "attnFn", "lighting",
     "texGenType", "texGenSrc", "inputForm", "tcgMtx", "postMtx", "normalize", "alphaRef", "alphaComp",
     "indScale", "indOrder", "numIndStages"}

=============================================================================
