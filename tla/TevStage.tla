------------------------------ MODULE TevStage ------------------------------
(***************************************************************************)
(* One TEV stage as the pixel shader evaluates it (tev_stage.h), and the   *)
(* integer combiner it was translated from (tev_integer.h).                *)
(*                                                                         *)
(* A channel is counted in eighths of a byte, exact for every konst colour *)
(* and for samples with three fraction bits.  A value is a tuple of the    *)
(* channels r, g, b, a; an operation is a record [op, bias, scale, clamp,  *)
(* out]: op 0 adds, 1 subtracts, 8 to 15 compare.                          *)
(***************************************************************************)
EXTENDS Integers, Sequences

Byte == 8

Splat(x) == <<x, x, x, x>>
Swizzle(v, swap) == [i \in 1..4 |-> v[swap[i] + 1]]

\* The TEV byte overflow, and rounding to the nearest integer, ties to even.
Wrap(x) == x % (256 * Byte)
Round(x) ==
    LET below == x \div Byte
        rest == x % Byte
    IN  IF 2 * rest < Byte \/ (2 * rest = Byte /\ below % 2 = 0) THEN below ELSE below + 1

-----------------------------------------------------------------------------
(* Inputs.                                                                 *)

\* Colour channels read one of two rasterised colours; the bump channels read
\* the high bits of an indirect sample, the last one normalised.
Raster(s, rasters, indirect) ==
    IF s.channel < 6 THEN rasters[(s.channel % 2) + 1]
    ELSE IF s.channel \in {7, 8} /\ s.indActive /\ s.indAlpha # 0
    THEN LET keep == CASE s.indFormat = 1 -> 32 [] s.indFormat = 2 -> 16 [] OTHER -> 8
             value == ((indirect[s.indAlpha] \div Byte) \div keep) * keep * Byte
         IN  Splat(IF s.channel = 8 THEN (value * 255) \div 248 ELSE value)
    ELSE Splat(0)

ColorArg(regs, arg, tex, ras, konst) ==
    CASE arg < 8 -> LET v == regs[(arg \div 2) + 1] IN IF arg % 2 = 1 THEN Splat(v[4]) ELSE v
      [] arg = 8 -> tex
      [] arg = 9 -> Splat(tex[4])
      [] arg = 10 -> ras
      [] arg = 11 -> Splat(ras[4])
      [] arg = 12 -> Splat(255 * Byte)
      [] arg = 13 -> Splat((255 * Byte) \div 2)
      [] arg = 14 -> konst
      [] OTHER -> Splat(0)

AlphaArg(regs, arg, tex, ras, konst) ==
    CASE arg < 4 -> regs[arg + 1][4]
      [] arg = 4 -> tex[4]
      [] arg = 5 -> ras[4]
      [] arg = 6 -> konst[4]
      [] OTHER -> 0

\* The four inputs of every channel: a, b and c overflow, d does not.  The
\* compare operations of both combiners read the colour combiner's a and b.
StageInputs(regs, s, tex, ras) ==
    LET t == Swizzle(tex, s.texSwap)
        r == Swizzle(ras, s.rasSwap)
        color(k) == ColorArg(regs, s.color[k], t, r, s.konst)
        Input(k) == [color(k) EXCEPT ![4] = AlphaArg(regs, s.alpha[k], t, r, s.konst)]
        Wrapped(v) == [i \in 1..4 |-> Wrap(v[i])]
    IN  [a |-> Wrapped(Input(1)), b |-> Wrapped(Input(2)), c |-> Wrapped(Input(3)), d |-> Input(4)]

-----------------------------------------------------------------------------
(* Evaluation.                                                             *)

\* mkw_tev_regular: integer interpolation, the shifts rounding down.
Regular(a, b, c, d, o) ==
    LET factor == CASE o.scale = 1 -> 2 [] o.scale = 2 -> 4 [] OTHER -> 1
        half == IF o.scale = 3 THEN 0 ELSE IF o.op = 1 THEN 127 ELSE 128
        lerp == ((a * 256 + (b - a) * (c + (c \div 128))) * factor + half) \div 256
        result == (d + o.bias) * factor + (IF o.op = 1 THEN -lerp ELSE lerp)
    IN  IF o.scale = 3 THEN result \div 2 ELSE result

Passes(op, x, y) == IF op % 2 = 1 THEN x = y ELSE x > y

PackedFromTwelve(v, op) ==
    v[1] + (IF op >= 12 THEN 256 * v[2] + 65536 * v[3] ELSE 0)

\* Compares of 8, 16 and 24 bits.
Packed(v, op) ==
    v[1] + (IF op >= 10 THEN 256 * v[2] ELSE 0) + (IF op >= 12 THEN 65536 * v[3] ELSE 0)

Compare(in, op) == Passes(op, Round(Packed(in.a, op)), Round(Packed(in.b, op)))

Clamped(x, o, unit) ==
    LET lo == (IF o.clamp THEN 0 ELSE -1024) * unit
        hi == (IF o.clamp THEN 255 ELSE 1023) * unit
    IN  IF x < lo THEN lo ELSE IF x > hi THEN hi ELSE x

\* mkw_tev_eval; 14 and 15 compare the channel itself.
Eval(a, b, c, d, o, packed) ==
    LET passes == IF o.op >= 14 THEN Passes(o.op, Round(a), Round(b)) ELSE packed
        result == IF o.op < 2 THEN Byte * Regular(Round(a), Round(b), Round(c), Round(d), o)
                  ELSE d + (IF passes THEN c ELSE 0)
    IN  Clamped(result, o, Byte)

Operation(s, i) == IF i = 4 THEN s.alphaOp ELSE s.colorOp

StageResult(s, in) ==
    [i \in 1..4 |-> Eval(in.a[i], in.b[i], in.c[i], in.d[i], Operation(s, i), Compare(in, Operation(s, i).op))]

WriteRegisters(regs, s, result) ==
    [r \in 1..4 |-> [i \in 1..4 |-> IF Operation(s, i).out = r - 1 THEN result[i] ELSE regs[r][i]]]

\* mkw_tev_component: bytes in, the packed colours given as one number each.
Component(a, b, c, d, colorA, colorB, o) ==
    LET width == CASE o.op < 10 -> 256 [] o.op \in {10, 11} -> 65536 [] OTHER -> 16777216
        passes == IF o.op >= 14 THEN Passes(o.op, a, b) ELSE Passes(o.op, colorA % width, colorB % width)
        result == IF o.op < 2 THEN Regular(a, b, c, d, o) ELSE d + (IF passes THEN c ELSE 0)
    IN  Clamped(result, o, 1)

-----------------------------------------------------------------------------
(* The alpha test [comp0, ref0, op, comp1, ref1] of the last stage.        *)

AlphaPasses(value, ref, comp) ==
    CASE comp = 0 -> FALSE
      [] comp = 1 -> value < ref
      [] comp = 2 -> value = ref
      [] comp = 3 -> value <= ref
      [] comp = 4 -> value > ref
      [] comp = 5 -> value # ref
      [] comp = 6 -> value >= ref
      [] OTHER -> TRUE

AlphaTest(alpha, test) ==
    LET value == Round(IF Wrap(alpha) > 255 * Byte THEN 255 * Byte ELSE Wrap(alpha))
        first == AlphaPasses(value, test.ref0, test.comp0)
        second == AlphaPasses(value, test.ref1, test.comp1)
    IN  CASE test.op = 0 -> first /\ second
          [] test.op = 1 -> first \/ second
          [] test.op = 2 -> first # second
          [] OTHER -> first = second

=============================================================================
