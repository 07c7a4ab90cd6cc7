----------------------------- MODULE GxGeometry -----------------------------
(***************************************************************************)
(* Geometry of one GPU draw: the vertex records of one or several draw     *)
(* commands, the indices of their primitives, and the range of the vertex  *)
(* array those records refer to (gx_geometry.cpp).                         *)
(*                                                                         *)
(* A vertex is <<command, number>>.  One indexed attribute stands for all  *)
(* of them; a component is one byte.                                       *)
(***************************************************************************)
EXTENDS Integers, SequencesExt

CONSTANTS Formats,     \* vertex format -> [indices, components] of the indexed attribute
          ArrayStride, \* of the vertex array, in bytes
          ArraySize,
          ArrayIndices \* the array indices in the records run through 0..ArrayIndices-1

TriangleClass == {"quads", "triangles", "strip", "fan"}

\* The array index a record of command p holds for vertex v and index group k.
IndexOf(p, v, k) == (p.start + v + k) % ArrayIndices

RecordBytes(fmt) == Formats[fmt].indices

\* The corners of a primitive's triangles (or lines, or points), offset by base.
Strip(count, base) ==
    [i \in 1..(IF count > 2 THEN count - 2 ELSE 0) |->
        IF (i + 1) % 2 = 1 THEN <<base + i, base + i - 1, base + i + 1>> ELSE <<base + i - 1, base + i, base + i + 1>>]

Fan(count, base) ==
    [i \in 1..(IF count > 2 THEN count - 2 ELSE 0) |-> <<base, base + i, base + i + 1>>]

Indices(primitive, count, base) ==
    CASE primitive = "quads" ->
            FlattenSeq([i \in 1..(count \div 4) |->
                LET v == base + 4 * (i - 1) IN <<<<v, v + 1, v + 2>>, <<v + 2, v + 3, v>>>>])
      [] primitive = "triangles" ->
            [i \in 1..(count \div 3) |-> LET v == base + 3 * (i - 1) IN <<v, v + 1, v + 2>>]
      [] primitive = "strip" -> Strip(count, base)
      [] primitive = "fan" -> Fan(count, base)
      [] primitive = "lines" -> [i \in 1..(count \div 2) |-> <<base + 2 * (i - 1), base + 2 * (i - 1) + 1>>]
      [] primitive = "linestrip" -> [i \in 1..(IF count > 1 THEN count - 1 ELSE 0) |-> <<base + i - 1, base + i>>]
      [] primitive = "points" -> [i \in 1..count |-> <<base + i - 1>>]

Vertices(p) == [i \in 1..p.count |-> [command |-> p.id, number |-> i - 1, index |->
                    [k \in 1..Formats[p.fmt].indices |-> IndexOf(p, i - 1, k - 1)]]]

Records(segments) == FlattenSeq([i \in DOMAIN segments |-> Vertices(segments[i])])

CountOfLast(segments, n) == IF n = 1 THEN 0 ELSE segments[n - 1].count

CountBefore(segments, n) == FoldLeft(LAMBDA acc, p : acc + p.count, 0, SubSeq(segments, 1, n - 1))

\* Each segment's indices, offset by the vertices before it.
SegmentIndices(segments) ==
    FlattenSeq([i \in DOMAIN segments |->
        Indices(segments[i].prim, segments[i].count, CountBefore(segments, i))])

Used(segments) == UNION {{v.index[k] : k \in DOMAIN v.index} : v \in ToSet(Records(segments))}

\* Without the normal's second and third vector.
ElementBytesShort(fmt) == 3

\* Bytes of one array element; three separate indices fetch a third each.
ElementBytes(fmt) == IF Formats[fmt].indices = 3 THEN 3 ELSE Formats[fmt].components

ArrayBegin(segments) == IF Used(segments) = {} THEN 0 ELSE Min(Used(segments)) * ArrayStride
ArrayEnd(segments) ==
    IF Used(segments) = {} THEN 0 ELSE Max(Used(segments)) * ArrayStride + ElementBytes(segments[1].fmt)

\* The snapshot of a group throws when an index leads outside the array.
Rejected(segments) == ArrayEnd(segments) > ArraySize

Corners(segments) ==
    LET records == Records(segments)
        indices == SegmentIndices(segments)
    IN  [i \in DOMAIN indices |->
            [k \in DOMAIN indices[i] |-> <<records[indices[i][k] + 1].command, records[indices[i][k] + 1].number>>]]

Snapshot(segments, reg) ==
    [corners |-> Corners(segments), reg |-> reg, fmt |-> segments[1].fmt, records |-> Records(segments),
     begin |-> ArrayBegin(segments), end |-> ArrayEnd(segments)]

-----------------------------------------------------------------------------
(* The reader of a snapshot: decode_gx_vertex and the vertex shader it     *)
(* stands for.                                                             *)

Groups(fmt) == IF Formats[fmt].components = 9 THEN 0..2 ELSE {0}

FetchAddress(g, vertex, group) ==
    LET index == IF Formats[g.fmt].indices = 3 THEN vertex.index[group + 1] ELSE vertex.index[1]
    IN  index * ArrayStride - g.begin + (IF Formats[g.fmt].indices = 3 THEN 0 ELSE 3 * group)

Covered(g) ==
    \A i \in DOMAIN g.records : \A group \in Groups(g.fmt) :
        FetchAddress(g, g.records[i], group) \in 0..(g.end - g.begin - 3)

=============================================================================
