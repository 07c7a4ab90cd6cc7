------------------------------- MODULE GxFifo -------------------------------
(***************************************************************************)
(* process() of register_dispatch.cpp decodes one command stream under the *)
(* renderer mutex; handle_draw() of gx_draw.cpp merges consecutive         *)
(* triangle draws of that stream into one GPU draw.  One step handles one  *)
(* packet.                                                                 *)
(*                                                                         *)
(* A packet is a record: op names the command, cut says that the stream    *)
(* ends inside it.  The register state is a version number, advanced by    *)
(* every packet that writes it, whether everything is culled, and whether  *)
(* the vertex descriptors are decodable.                                   *)
(***************************************************************************)
EXTENDS GxGeometry

CONSTANTS Streams,      \* the streams process() is called with
          RawDraws,     \* draws submitted outside a stream
          Versions,     \* register versions are counted modulo this
          MergeBytes,   \* kMergedRecordBytes
          MergeVertices \* 64 * 65535

ASSUME StreamsAssumption == \A s \in Streams : s \in Seq(ToSet(s))

VARIABLES
    stream,  \* the packets of the stream being decoded
    at,      \* the next packet
    status,  \* "idle", "running", "stopped" (malformed) or "thrown"
    sink,    \* a renderer receives draws
    reg,     \* the register state
    merging, \* the group of draws not yet submitted: its commands
    since,   \* the register state when the group's first draw was decoded
    out,     \* the geometries submitted from this stream
    drawn    \* history: what the draws of this stream draw one by one

fifoVars == <<stream, at, status, sink, reg, merging, since, out, drawn>>

-----------------------------------------------------------------------------
InitialRegisters == [version |-> 0, cullAll |-> FALSE, layout |-> "good"]

FifoInit ==
    /\ stream = <<>> /\ at = 1 /\ status = "idle" /\ sink = TRUE
    /\ reg = InitialRegisters /\ merging = <<>> /\ since = InitialRegisters
    /\ out = <<>> /\ drawn = <<>>

\* A call of process().
Process(s, receives) ==
    /\ status = "idle"
    /\ stream' = [i \in DOMAIN s |-> s[i] @@ [id |-> i]]
    /\ at' = 1 /\ status' = "running" /\ sink' = receives
    /\ UNCHANGED <<reg, merging, since, out, drawn>>

\* It returns, or the exception leaves it; the history of the call ends.
Return ==
    /\ status \in {"stopped", "thrown"} \/ (status = "running" /\ at > Len(stream))
    /\ stream' = <<>> /\ at' = 1 /\ status' = "idle" /\ sink' = TRUE
    /\ out' = <<>> /\ drawn' = <<>> /\ since' = reg
    /\ UNCHANGED <<reg, merging>>

Packet == stream[at]
Handles(op) == status = "running" /\ at <= Len(stream) /\ Packet.op = op

Continue == at' = at + 1 /\ UNCHANGED status
Leave(why) == status' = why /\ UNCHANGED at

Nop == Handles("nop") /\ Continue /\ UNCHANGED <<stream, sink, reg, merging, since, out, drawn>>

\* A register write: BP, CP or XF, or an accepted Aurora packet.
Write == /\ Handles("write")
         /\ IF Packet.cut THEN Leave("stopped") /\ UNCHANGED reg
            ELSE /\ Continue
                 /\ reg' = [version |-> (reg.version + 1) % Versions,
                            cullAll |-> Packet.cullAll, layout |-> Packet.layout]
         /\ UNCHANGED <<stream, sink, merging, since, out, drawn>>

\* XF memory takes whole matrices only, and lights within one light.
XfAccepts(p) ==
    CASE p.region \in {"position", "post"} -> p.offset = 0 /\ p.len = 12
      [] p.region = "texture" -> p.offset = 0 /\ p.len \in {8, 12}
      [] p.region = "normal" -> p.offset = 0 /\ p.len = 9
      [] p.region = "light" -> p.offset + p.len <= 16

\* A load of XF memory, from the stream or indexed from an array; a refused
\* one is skipped, its data included.
LoadMemory == /\ Handles("memory")
              /\ IF Packet.cut THEN Leave("stopped") /\ UNCHANGED reg
                 ELSE /\ Continue
                      /\ reg' = IF Packet.source = "good" /\ XfAccepts(Packet)
                                THEN [reg EXCEPT !.version = (@ + 1) % Versions] ELSE reg
              /\ UNCHANGED <<stream, sink, merging, since, out, drawn>>

\* Display-list calls, cache invalidations, debug labels and unknown opcodes
\* change nothing a draw reads.
Ignored == /\ Handles("ignored")
           /\ IF Packet.cut THEN Leave("stopped") ELSE Continue
           /\ UNCHANGED <<stream, sink, reg, merging, since, out, drawn>>

\* An Aurora packet naming an invalid slot, or an unknown one.
Malformed == /\ Handles("malformed")
             /\ Leave("stopped")
             /\ UNCHANGED <<stream, sink, reg, merging, since, out, drawn>>

-----------------------------------------------------------------------------
Visible(p, state) == p.count > 0 /\ ~(state.cullAll /\ p.prim \in TriangleClass)

\* What submitting a group does: "skip", "throw", or a draw.
Outcome(segments) ==
    CASE Len(segments) = 1 /\ ~Visible(segments[1], reg) -> "skip"
      [] Len(segments) > 1 /\ reg.cullAll -> "skip"
      [] Rejected(segments) -> "throw"
      [] SegmentIndices(segments) = <<>> -> "skip"
      [] ~sink -> "throw"
      [] OTHER -> "draw"

Submit(segments) ==
    /\ IF Outcome(segments) = "throw" THEN Leave("thrown") ELSE Continue
    /\ out' = IF Outcome(segments) = "draw" THEN Append(out, Snapshot(segments, reg)) ELSE out

\* The packet after the NOPs that follow position n of the stream, if any.
AfterNops(n) == LET rest == {i \in (n + 1)..Len(stream) : stream[i].op # "nop"}
                IN  IF rest = {} THEN Len(stream) + 1 ELSE Min(rest)

NextJoinsCut(p) ==
    LET n == AfterNops(at)
    IN  n <= Len(stream) /\ stream[n].op = "draw" /\ stream[n].prim \in TriangleClass /\ stream[n].fmt = p.fmt

NextJoins(p) ==
    LET n == AfterNops(at)
    IN  /\ n <= Len(stream)
        /\ stream[n].op = "draw" /\ ~stream[n].cut
        /\ stream[n].prim \in TriangleClass /\ stream[n].fmt = p.fmt

\* Appending may bring the group over a limit; it then ends with this draw.
RoomFor(segments) ==
    /\ Len(Records(segments)) * RecordBytes(segments[1].fmt) < MergeBytes
    /\ Len(Records(segments)) <= MergeVertices

\* The unmerged meaning of a draw in a register state.
Separate(p, state) ==
    IF Visible(p, state) THEN [i \in DOMAIN Corners(<<p>>) |-> [corners |-> Corners(<<p>>)[i], reg |-> state]] ELSE <<>>

Joined(p) == merging # <<>> /\ p.prim \in TriangleClass /\ merging[1].fmt = p.fmt

\* The whole of handle_draw(): layout, records, merging and submission.
Draw ==
    /\ Handles("draw")
    /\ UNCHANGED <<stream, sink, reg>>
    /\ LET p == Packet
           group == Append(merging, p)
       IN  IF ~Joined(p) /\ reg.layout = "bad" THEN Leave("thrown") /\ UNCHANGED <<merging, since, out, drawn>>
           ELSE IF p.cut THEN Leave("stopped") /\ UNCHANGED <<merging, since, out, drawn>>
           ELSE /\ drawn' = drawn \o Separate(p, reg)
                /\ IF p.prim \notin TriangleClass THEN Submit(<<p>>) /\ UNCHANGED <<merging, since>>
                   ELSE IF RoomFor(group) /\ NextJoins(p)
                   THEN /\ merging' = group
                        /\ since' = IF merging = <<>> THEN reg ELSE since
                        /\ Continue /\ UNCHANGED out
                   ELSE /\ Submit(group)
                        /\ merging' = <<>> /\ UNCHANGED since

\* submit_raw_draw(): the stream is drained first.
RawDraw(p) ==
    /\ status = "idle"
    /\ IF reg.layout = "bad" THEN UNCHANGED <<out, drawn>> /\ status' = "thrown"
       ELSE /\ drawn' = Separate(p, reg)
            /\ out' = IF Outcome(<<p>>) = "draw" THEN <<Snapshot(<<p>>, reg)>> ELSE <<>>
            /\ status' = IF Outcome(<<p>>) = "throw" THEN "thrown" ELSE "running"
    /\ UNCHANGED <<stream, at, sink, reg, merging, since>>

FifoNext ==
    \/ /\ status = "idle"
       /\ \/ \E s \in Streams, receives \in BOOLEAN : Process(s, receives)
          \/ \E p \in RawDraws : RawDraw(p)
    \/ Return \/ Nop \/ Write \/ LoadMemory \/ Ignored \/ Malformed \/ Draw

FifoSpec == FifoInit /\ [][FifoNext]_fifoVars

-----------------------------------------------------------------------------
Flat(geometries) ==
    FlattenSeq([i \in DOMAIN geometries |->
        [k \in DOMAIN geometries[i].corners |-> [corners |-> geometries[i].corners[k], reg |-> geometries[i].reg]]])

Waiting == IF merging = <<>> \/ reg.cullAll THEN <<>>
           ELSE [k \in DOMAIN Corners(merging) |-> [corners |-> Corners(merging)[k], reg |-> reg]]

\* Merging is invisible: the submitted triangles, lines and points are those
\* the commands would draw one by one, in order and in the register state each
\* command saw.  An exception may only lose a tail of them.
DrawsAsIssued ==
    IF status = "thrown" THEN IsPrefix(Flat(out), drawn)
    ELSE Flat(out) \o Waiting = drawn

\* A group survives a command only when the next command of the same stream,
\* behind NOPs, is a complete triangle draw of its vertex format, decoded in
\* the register state of the group's first draw (gx_draw.cpp:119).
GroupContinues ==
    merging # <<>> =>
        /\ status = "running" /\ reg = since
        /\ AfterNops(at - 1) <= Len(stream)
        /\ LET next == stream[AfterNops(at - 1)]
           IN  next.op = "draw" /\ ~next.cut /\ next.prim \in TriangleClass /\ next.fmt = merging[1].fmt

\* Every fetch of a submitted geometry lies inside its copy of the array.
SnapshotCovers == \A i \in DOMAIN out : Covered(out[i])

=============================================================================
