--------------------------- MODULE GxFrame_proofs ---------------------------
(***************************************************************************)
(* A pool always has a target for a display copy, unfinished work has what *)
(* it needs, and the frame as a whole implements GxImmediate: proofs for   *)
(* every number of destinations and targets, every pool and every bound.   *)
(***************************************************************************)
EXTENDS GxFrame, FiniteSetTheorems, SequenceTheorems, TLAPS

(***************************************************************************)
(* The inductive invariant.                                                *)
(***************************************************************************)
Drained == fifo = <<>> /\ batch = <<>>

Calls == [op : {"none", "display", "begin", "end", "read", "close"},
          at : {"idle", "draws", "pool", "blits", "take", "joining", "core", "fill",
                "present", "flip", "encode", "release"},
          dest : Dest \union {None}, clear : BOOLEAN]

\* Each call is at one of its own steps, and what it relied on when it began
\* still holds there.
CallOk ==
    /\ call \in Calls
    /\ inFrame => core > 0 /\ ~failed /\ ~closed
    /\ closed => call = Idle /\ gpu = <<>>
    /\ call.op = "none" => call = Idle
    /\ call.op = "display" =>
         call.at \in {"draws", "pool", "blits", "take"} /\ inFrame /\ stamp < MaxStamp /\ Drained
    /\ call.op = "begin" =>
         call.at \in {"joining", "draws", "core", "fill"} /\ ~inFrame /\ ~failed /\ stamp < MaxStamp
           /\ (call.at = "fill" => core > 0)
    /\ call.op = "end" =>
         call.at \in {"draws", "present", "blits", "flip"} /\ inFrame
           /\ (call.at # "draws" \/ "draws" \notin broken => Drained)
    /\ call.op = "read" => call.at \in {"blits", "encode"} /\ call.dest \in due
    /\ call.op = "close" => call.at \in {"blits", "joining", "draws", "release"} /\ ~inFrame

\* Copies go to textures, and only to published ones the FIFO and the CPU refer.
Published ==
    /\ \A d \in Dest : copies[d] # None => copies[d].target \in Texture
    /\ \A d \in due : copies[d] # None
    /\ \A i \in DOMAIN fifo : fifo[i].tex # None => copies[fifo[i].tex] # None

\* The work there may be: its stamps are not ahead of the count n, and its draws
\* belong to the renderer c.
DrawJobs(n, c) == [kind : {"draw"}, from : Texture \union {None}, to : {Efb},
                   image : Image, stamp : 0 .. n, core : {c}]
CopyJobs       == [kind : {"copy"}, from : {Efb}, to : Texture \union Display,
                   image : {0}, stamp : {0}, core : Nat]
ClearJobs(n)   == [kind : {"clear"}, from : {None}, to : {Efb},
                   image : {0}, stamp : 0 .. n, core : Nat]
PresentJobs    == [kind : {"present"}, from : Display \union {Efb}, to : {None},
                   image : {0}, stamp : {0}, core : Nat]
AllJobs(n, c)  == DrawJobs(n, c) \union CopyJobs \union ClearJobs(n) \union PresentJobs

JobsOk ==
    /\ batch \in Seq(DrawJobs(stamp, core))
    /\ gpu \in Seq(AllJobs(stamp, core))
    /\ \A i \in DOMAIN fifo : fifo[i].stamp <= stamp
    /\ efb <= stamp

\* What the joins have established.
Joined ==
    /\ core = 0 => batch = <<>> /\ ~Unfinished(Draws)
    /\ call.op \in {"begin", "close"} /\ call.at = "draws" /\ "draws" \notin broken => batch = <<>>
    /\ call.at = "core" => batch = <<>> /\ ~Unfinished(Draws)
    /\ call.at = "encode" => ~Unfinished(Blits)
    /\ call.op = "close" /\ call.at # "blits" => ~Unfinished(Blits)
    /\ call.at = "release" => gpu = <<>>

\* The image that the EFB shows when the i-th job begins, and the copies to a target.
Before(s, image, i) == After(SubSeq(s, 1, i - 1), image)
CopiesTo(s, t)      == {i \in DOMAIN s : s[i].kind = "copy" /\ s[i].to = t}

\* The target t has the image v, or the only copy to it in the work s will put it there.
Promised(s, image, m, t, v) ==
    /\ \A i \in CopiesTo(s, t) : Before(s, image, i) = v
    /\ CopiesTo(s, t) = {} => m[t] = v

\* A target has at most one copy; a draw samples what it expects, behind that copy.
WorkKept(s, image, m) ==
    /\ \A i, k \in DOMAIN s :
         s[i].kind = "copy" /\ s[k].kind = "copy" /\ s[i].to = s[k].to => i = k
    /\ \A i \in DOMAIN s :
         s[i].kind = "draw" /\ s[i].from # None => Promised(s, image, m, s[i].from, s[i].image)
    /\ \A i, k \in DOMAIN s :
         s[i].kind = "copy" /\ s[k].kind = "draw" /\ s[k].from = s[i].to => i < k

\* Everything that refers to a target is promised the image it expects.
Keeps(t, v) == Promised(gpu, efb, memory, t, v)

Kept ==
    /\ WorkKept(gpu, efb, memory)
    /\ \A d \in Dest : copies[d] # None => Keeps(copies[d].target, copies[d].image)
    /\ latest # None => Keeps(latest.target, latest.image)
    /\ \A i \in DOMAIN batch : batch[i].from # None => Keeps(batch[i].from, batch[i].image)

\* What the frame is to show: its display copy, or else the EFB.
Source == IF latest = None THEN Efb ELSE latest.target
Shown  == IF latest = None THEN Due ELSE latest.image

\* The present is the last job of its frame, and the buffer it fills shows the frame.
Presented ==
    /\ \A i \in DOMAIN gpu : gpu[i].kind = "present" =>
         failed \/ (call.op = "end" /\ call.at = "blits" /\ i = Len(gpu) /\ gpu[i].from = Source)
    /\ call.op = "end" /\ call.at \in {"blits", "flip"} /\ ~Unfinished({"present"}) => back = Shown

\* The pool has a target for the copy about to be made.
Served == IsFiniteSet(pool) /\ (call.at = "take" => PoolReady)

IInv == TypeOK /\ CallOk /\ Published /\ JobsOk /\ Joined /\ Kept /\ Presented /\ Served

-----------------------------------------------------------------------------
(* Lemmas on the helpers.                                                   *)

\* A set of naturals has a least element: the intervals 0 .. n are finite, and
\* proper inclusion of finite sets is well-founded.
LEMMA LeastNat ==
    ASSUME NEW M \in SUBSET Nat, M # {}
    PROVE  \E m \in M : \A n \in M : m <= n
<1> DEFINE Down(n) == 0 .. n
           D == {Down(n) : n \in M}
           R == StrictSubsetOrdering(Nat)
<1>1. IsWellFoundedOn(R, FiniteSubsetsOf(Nat))
  BY FS_StrictSubsetOrderingWellFounded
<1>2. \A n \in Nat : IsFiniteSet(Down(n)) /\ Down(n) \in SUBSET Nat
  BY FS_Interval
<1>3. \A n \in M : Down(n) \in FiniteSubsetsOf(Nat)
  BY <1>2 DEF FiniteSubsetsOf
<1>4. D \subseteq FiniteSubsetsOf(Nat) /\ D # {}
  <2> HIDE DEF Down
  <2> QED BY <1>3
<1>5. \E x \in D : \A y \in D : <<y, x>> \notin R
  <2> HIDE DEF D, R
  <2> QED BY <1>1, <1>4, WFMin
<1>6. PICK m \in M : \A n \in M : <<Down(n), Down(m)>> \notin R
  BY <1>5
<1>7. ASSUME NEW n \in M, ~(m <= n)
      PROVE  FALSE
  <2>1. n \in Nat /\ m \in Nat /\ n < m
    BY <1>7
  <2>2. m \in Down(m) /\ m \notin Down(n) /\ Down(n) \subseteq Down(m)
    BY <2>1
  <2>3. <<Down(n), Down(m)>> \in R
    BY <1>2, <2>2 DEF StrictSubsetOrdering
  <2> QED BY <2>3, <1>6, <1>7
<1> QED BY <1>7

\* A bounded set of naturals has a greatest element, and Max is it.
LEMMA MaxFacts ==
    ASSUME NEW n \in Nat, NEW M \in SUBSET (1 .. n), M # {}
    PROVE  Max(M) \in M /\ \A m \in M : m <= Max(M)
<1> DEFINE L == {n - m : m \in M}
<1>1. \A m \in M : m \in Nat /\ n - m \in Nat
  OBVIOUS
<1>2. L \in SUBSET Nat /\ L # {}
  BY <1>1
<1>3. \E x \in L : \A y \in L : x <= y
  <2> HIDE DEF L
  <2> QED BY <1>2, LeastNat
<1>4. \E m \in M : \A k \in M : n - m <= n - k
  BY <1>3
<1>5. \E m \in M : \A k \in M : m >= k
  BY <1>4, <1>1
<1>6. Max(M) \in M /\ \A k \in M : Max(M) >= k
  BY <1>5 DEF Max
<1> QED BY <1>6, <1>1

\* The last painter decides what the EFB shows.
LEMMA AfterLast ==
    ASSUME NEW s \in Seq(Job), NEW v, NEW i \in DOMAIN s, s[i].to = Efb,
           \A k \in DOMAIN s : s[k].to = Efb => k <= i
    PROVE  After(s, v) = s[i].stamp
<1>1. i \in Painters(s) /\ Painters(s) \in SUBSET (1 .. Len(s)) /\ Len(s) \in Nat
  BY DEF Painters
<1>2. Max(Painters(s)) \in Painters(s) /\ \A m \in Painters(s) : m <= Max(Painters(s))
  BY <1>1, MaxFacts
<1>3. Max(Painters(s)) = i
  <2> DEFINE m == Max(Painters(s))
  <2>1. m \in DOMAIN s /\ s[m].to = Efb
    BY <1>2 DEF Painters
  <2>2. m <= i /\ i <= m /\ m \in Nat /\ i \in Nat
    BY <1>1, <1>2, <2>1
  <2> QED BY <2>2
<1> QED BY <1>1, <1>3 DEF After

LEMMA AfterNone ==
    ASSUME NEW s, NEW v, \A k \in DOMAIN s : s[k].to # Efb
    PROVE  After(s, v) = v
BY DEF After, Painters

\* Either way, what the EFB shows comes from a job or was there before.
LEMMA AfterCases ==
    ASSUME NEW s \in Seq(Job), NEW v
    PROVE  \/ (\A k \in DOMAIN s : s[k].to # Efb) /\ After(s, v) = v
           \/ \E i \in DOMAIN s : /\ s[i].to = Efb
                                  /\ \A k \in DOMAIN s : s[k].to = Efb => k <= i
                                  /\ After(s, v) = s[i].stamp
<1>1. CASE \A k \in DOMAIN s : s[k].to # Efb
  BY <1>1, AfterNone
<1>2. CASE ~ \A k \in DOMAIN s : s[k].to # Efb
  <2>1. Painters(s) # {} /\ Painters(s) \in SUBSET (1 .. Len(s)) /\ Len(s) \in Nat
    BY <1>2 DEF Painters
  <2>2. Max(Painters(s)) \in Painters(s) /\ \A m \in Painters(s) : m <= Max(Painters(s))
    BY <2>1, MaxFacts
  <2> QED BY <2>1, <2>2 DEF After, Painters
<1> QED BY <1>1, <1>2

\* Work in two parts is one part after the other.
LEMMA AfterConcat ==
    ASSUME NEW s \in Seq(Job), NEW t \in Seq(Job), NEW v
    PROVE  After(s \o t, v) = After(t, After(s, v))
<1>1. /\ s \o t \in Seq(Job) /\ Len(s) \in Nat /\ Len(t) \in Nat
      /\ Len(s \o t) = Len(s) + Len(t)
      /\ DOMAIN s = 1 .. Len(s) /\ DOMAIN t = 1 .. Len(t)
      /\ DOMAIN (s \o t) = 1 .. Len(s) + Len(t)
      /\ \A k \in 1 .. Len(s) : (s \o t)[k] = s[k]
      /\ \A k \in 1 .. Len(t) : (s \o t)[Len(s) + k] = t[k]
      /\ \A k \in 1 .. Len(s) + Len(t) : k \notin 1 .. Len(s) => k - Len(s) \in 1 .. Len(t) /\ (s \o t)[k] = t[k - Len(s)]
  BY ConcatProperties, LenProperties
<1>2. CASE \A k \in DOMAIN t : t[k].to # Efb
  <2>1. After(t, After(s, v)) = After(s, v)
    BY <1>2, AfterNone
  <2>2. CASE \A k \in DOMAIN s : s[k].to # Efb
    <3>1. \A k \in DOMAIN (s \o t) : (s \o t)[k].to # Efb
      BY <1>1, <1>2, <2>2
    <3> QED BY <3>1, <2>1, <2>2, AfterNone
  <2>3. CASE ~ \A k \in DOMAIN s : s[k].to # Efb
    <3>1. PICK i \in DOMAIN s : /\ s[i].to = Efb
                                /\ \A k \in DOMAIN s : s[k].to = Efb => k <= i
                                /\ After(s, v) = s[i].stamp
      BY <2>3, AfterCases
    <3>2. i \in DOMAIN (s \o t) /\ (s \o t)[i] = s[i]
      BY <1>1, <3>1
    <3>3. \A k \in DOMAIN (s \o t) : (s \o t)[k].to = Efb => k <= i
      BY <1>1, <1>2, <3>1
    <3>4. After(s \o t, v) = (s \o t)[i].stamp
      BY <1>1, <3>1, <3>2, <3>3, AfterLast
    <3> QED BY <3>1, <3>2, <3>4, <2>1
  <2> QED BY <2>2, <2>3
<1>3. CASE ~ \A k \in DOMAIN t : t[k].to # Efb
  <2>1. PICK i \in DOMAIN t : /\ t[i].to = Efb
                              /\ \A k \in DOMAIN t : t[k].to = Efb => k <= i
                              /\ After(t, After(s, v)) = t[i].stamp
    BY <1>3, AfterCases
  <2>2. Len(s) + i \in DOMAIN (s \o t) /\ (s \o t)[Len(s) + i] = t[i]
    BY <1>1, <2>1
  <2>3. \A k \in DOMAIN (s \o t) : (s \o t)[k].to = Efb => k <= Len(s) + i
    BY <1>1, <2>1
  <2>4. After(s \o t, v) = (s \o t)[Len(s) + i].stamp
    BY <1>1, <2>1, <2>2, <2>3, AfterLast
  <2> QED BY <2>1, <2>2, <2>4
<1> QED BY <1>2, <1>3

LEMMA AfterOne ==
    ASSUME NEW j \in Job, NEW v
    PROVE  After(<<j>>, v) = IF j.to = Efb THEN j.stamp ELSE v
<1>1. <<j>> \in Seq(Job) /\ DOMAIN <<j>> = {1} /\ <<j>>[1] = j
  OBVIOUS
<1>2. CASE j.to = Efb
  <2> DEFINE s == <<j>>
  <2>0. s \in Seq(Job) /\ 1 \in DOMAIN s /\ s[1].to = Efb /\ \A k \in DOMAIN s : k <= 1
    BY <1>1, <1>2
  <2>1. After(s, v) = s[1].stamp
    <3> HIDE DEF s
    <3> QED BY <2>0, AfterLast
  <2> QED BY <2>1, <1>1, <1>2
<1>3. CASE j.to # Efb
  BY <1>1, <1>3, AfterNone
<1> QED BY <1>2, <1>3

\* What a job finds does not depend on the work behind it.
LEMMA BeforeConcat ==
    ASSUME NEW s \in Seq(Job), NEW t \in Seq(Job), NEW e
    PROVE  /\ \A i \in DOMAIN s : Before(s \o t, e, i) = Before(s, e, i)
           /\ Before(s \o t, e, Len(s) + 1) = After(s, e)
<1>1. Len(s) \in Nat /\ DOMAIN s = 1 .. Len(s) /\ s \o t \in Seq(Job)
  BY LenProperties, ConcatProperties
<1>2. ASSUME NEW i \in 0 .. Len(s)
      PROVE  SubSeq(s \o t, 1, i) = SubSeq(s, 1, i)
  <2>1. CASE i = 0
    BY <2>1, SubSeqEmpty
  <2>2. CASE i # 0
    <3>1. 1 \in 1 .. Len(s) /\ i \in 1 .. Len(s)
      BY <1>1, <2>2
    <3> QED BY <3>1, SubSeqOfConcat1
  <2> QED BY <2>1, <2>2
<1>3. \A i \in DOMAIN s : i - 1 \in 0 .. Len(s)
  BY <1>1
<1>4. SubSeq(s \o t, 1, (Len(s) + 1) - 1) = s
  <2>1. (Len(s) + 1) - 1 = Len(s) /\ Len(s) \in 0 .. Len(s)
    BY <1>1
  <2> QED BY <2>1, <1>2, SubSeqFull
<1> QED BY <1>2, <1>3, <1>4 DEF Before

\* Work without copies can be added if it samples what it was promised.
LEMMA KeptWithoutCopies ==
    ASSUME NEW s \in Seq(Job), NEW t \in Seq(Job), NEW e, NEW m,
           WorkKept(s, e, m),
           \A k \in DOMAIN t : t[k].kind # "copy",
           \A k \in DOMAIN t : t[k].kind = "draw" /\ t[k].from # None
                                 => Promised(s, e, m, t[k].from, t[k].image)
    PROVE  /\ WorkKept(s \o t, e, m)
           /\ \A u, v : Promised(s, e, m, u, v) => Promised(s \o t, e, m, u, v)
<1> DEFINE w == s \o t
<1>1. /\ Len(s) \in Nat /\ Len(t) \in Nat /\ DOMAIN s = 1 .. Len(s) /\ DOMAIN t = 1 .. Len(t)
      /\ DOMAIN w = 1 .. Len(s) + Len(t)
      /\ \A k \in DOMAIN s : k \in DOMAIN w /\ w[k] = s[k]
      /\ \A k \in DOMAIN w : k \notin DOMAIN s => k - Len(s) \in DOMAIN t /\ w[k] = t[k - Len(s)] /\ k > Len(s)
  BY ConcatProperties, LenProperties
<1>2. \A i \in DOMAIN s : Before(w, e, i) = Before(s, e, i)
  BY BeforeConcat
<1> HIDE DEF w
<1>3. ASSUME NEW u
      PROVE  CopiesTo(w, u) = CopiesTo(s, u)
  BY <1>1 DEF CopiesTo
<1>4. ASSUME NEW u, NEW v, Promised(s, e, m, u, v)
      PROVE  Promised(w, e, m, u, v)
  <2>1. \A i \in CopiesTo(s, u) : i \in DOMAIN s
    BY DEF CopiesTo
  <2> QED BY <1>2, <1>3, <1>4, <2>1 DEF Promised
<1>5. \A i \in DOMAIN w : w[i].kind = "copy" => i \in DOMAIN s
  BY <1>1
<1>6. \A i, k \in DOMAIN w :
        w[i].kind = "copy" /\ w[k].kind = "copy" /\ w[i].to = w[k].to => i = k
  BY <1>1, <1>5 DEF WorkKept
<1>7. ASSUME NEW i \in DOMAIN w, w[i].kind = "draw", w[i].from # None
      PROVE  Promised(w, e, m, w[i].from, w[i].image)
  <2>1. CASE i \in DOMAIN s
    <3>1. w[i] = s[i]
      BY <2>1, <1>1
    <3>2. Promised(s, e, m, s[i].from, s[i].image)
      BY <3>1, <1>7, <2>1 DEF WorkKept
    <3> QED BY <3>1, <3>2, <1>4
  <2>2. CASE i \notin DOMAIN s
    <3>1. i - Len(s) \in DOMAIN t /\ w[i] = t[i - Len(s)]
      BY <2>2, <1>1
    <3>2. Promised(s, e, m, w[i].from, w[i].image)
      BY <3>1, <1>7
    <3> QED BY <3>2, <1>4
  <2> QED BY <2>1, <2>2
<1>8. ASSUME NEW i \in DOMAIN w, NEW k \in DOMAIN w,
             w[i].kind = "copy", w[k].kind = "draw", w[k].from = w[i].to
      PROVE  i < k
  <2>1. i \in DOMAIN s /\ w[i] = s[i]
    BY <1>1, <1>5, <1>8
  <2>2. CASE k \in DOMAIN s
    BY <2>1, <2>2, <1>1, <1>8 DEF WorkKept
  <2>3. CASE k \notin DOMAIN s
    BY <2>1, <2>3, <1>1
  <2> QED BY <2>2, <2>3
<1> QED BY <1>4, <1>6, <1>7, <1>8 DEF WorkKept, w

\* A copy can be added if its target is in nobody's use.
LEMMA KeptWithCopy ==
    ASSUME NEW s \in Seq(Job), NEW j \in Job, NEW e, NEW m,
           WorkKept(s, e, m), j.kind = "copy",
           \A k \in DOMAIN s : s[k].from # j.to /\ s[k].to # j.to
    PROVE  /\ WorkKept(s \o <<j>>, e, m)
           /\ Promised(s \o <<j>>, e, m, j.to, After(s, e))
           /\ \A u, v : u # j.to /\ Promised(s, e, m, u, v) => Promised(s \o <<j>>, e, m, u, v)
<1> DEFINE w == s \o <<j>>
           n == Len(s) + 1
<1>0. <<j>> \in Seq(Job) /\ Len(<<j>>) = 1 /\ <<j>>[1] = j
  OBVIOUS
<1>1. /\ Len(s) \in Nat /\ DOMAIN s = 1 .. Len(s) /\ DOMAIN w = 1 .. n
      /\ \A k \in DOMAIN s : k \in DOMAIN w /\ w[k] = s[k] /\ k < n
      /\ n \in DOMAIN w /\ w[n] = j
      /\ \A k \in DOMAIN w : k \in DOMAIN s \/ k = n
  BY <1>0, ConcatProperties, LenProperties
<1>2. (\A i \in DOMAIN s : Before(w, e, i) = Before(s, e, i)) /\ Before(w, e, n) = After(s, e)
  BY <1>0, BeforeConcat
<1> HIDE DEF w, n
<1>3. CopiesTo(w, j.to) = {n}
  BY <1>1 DEF CopiesTo
<1>4. Promised(w, e, m, j.to, After(s, e))
  BY <1>2, <1>3 DEF Promised
<1>5. ASSUME NEW u, NEW v, u # j.to, Promised(s, e, m, u, v)
      PROVE  Promised(w, e, m, u, v)
  <2>1. CopiesTo(w, u) = CopiesTo(s, u)
    BY <1>1, <1>5 DEF CopiesTo
  <2>2. \A i \in CopiesTo(s, u) : i \in DOMAIN s
    BY DEF CopiesTo
  <2> QED BY <2>1, <2>2, <1>2, <1>5 DEF Promised
<1>6. \A i, k \in DOMAIN w :
        w[i].kind = "copy" /\ w[k].kind = "copy" /\ w[i].to = w[k].to => i = k
  BY <1>1 DEF WorkKept
<1>7. ASSUME NEW i \in DOMAIN w, w[i].kind = "draw", w[i].from # None
      PROVE  Promised(w, e, m, w[i].from, w[i].image)
  <2>1. i \in DOMAIN s /\ w[i] = s[i]
    BY <1>1, <1>7
  <2>2. Promised(s, e, m, s[i].from, s[i].image) /\ s[i].from # j.to
    BY <2>1, <1>7 DEF WorkKept
  <2> QED BY <2>1, <2>2, <1>5
<1>8. \A i, k \in DOMAIN w :
        w[i].kind = "copy" /\ w[k].kind = "draw" /\ w[k].from = w[i].to => i < k
  <2>1. ASSUME NEW i \in DOMAIN w, NEW k \in DOMAIN w,
               w[i].kind = "copy", w[k].kind = "draw", w[k].from = w[i].to
        PROVE  i < k
    <3>1. k \in DOMAIN s /\ w[k] = s[k]
      BY <1>1, <2>1
    <3>2. i \in DOMAIN s /\ w[i] = s[i]
      BY <1>1, <2>1, <3>1
    <3> QED BY <3>1, <3>2, <2>1 DEF WorkKept
  <2> QED BY <2>1
<1> QED BY <1>4, <1>5, <1>6, <1>7, <1>8 DEF WorkKept, w

\* The image the EFB shows after a job, and memory after it.
Efb2(j, e)    == IF j.to = Efb THEN j.stamp ELSE e
Mem2(j, e, m) == IF j.kind = "copy" THEN [m EXCEPT ![j.to] = e] ELSE m

\* When the oldest job has ended, every promise stands.
LEMMA KeptByTail ==
    ASSUME NEW s \in Seq(Job), s # <<>>, NEW e, NEW m, WorkKept(s, e, m),
           \A k \in DOMAIN s : s[k].kind = "draw" => s[k].from \in DOMAIN m \union {None}
    PROVE  LET e2 == Efb2(s[1], e)
               m2 == Mem2(s[1], e, m)
           IN  /\ After(Tail(s), e2) = After(s, e)
               /\ WorkKept(Tail(s), e2, m2)
               /\ \A u \in DOMAIN m : \A v : Promised(s, e, m, u, v) => Promised(Tail(s), e2, m2, u, v)
<1> DEFINE t == Tail(s)
           e2 == Efb2(s[1], e)
           m2 == Mem2(s[1], e, m)
<1>1. /\ Len(s) \in Nat /\ 1 <= Len(s) /\ DOMAIN s = 1 .. Len(s) /\ 1 \in DOMAIN s /\ s[1] \in Job
      /\ t \in Seq(Job) /\ Len(t) = Len(s) - 1 /\ DOMAIN t = 1 .. Len(s) - 1
      /\ \A i \in DOMAIN t : i + 1 \in DOMAIN s /\ t[i] = s[i + 1]
      /\ \A i \in DOMAIN s : i # 1 => i - 1 \in DOMAIN t
  <2>1. Len(s) \in Nat /\ 1 <= Len(s) /\ DOMAIN s = 1 .. Len(s)
    BY LenProperties, EmptySeq
  <2>2. t \in Seq(Job) /\ Len(t) = Len(s) - 1 /\ \A i \in 1 .. Len(t) : t[i] = s[i + 1]
    BY HeadTailProperties
  <2>3. DOMAIN t = 1 .. Len(t)
    BY <2>2, LenProperties
  <2>4. 1 \in DOMAIN s /\ s[1] \in Job
    BY <2>1, ElementOfSeq
  <2> QED BY <2>1, <2>2, <2>3, <2>4
<1>2. <<s[1]>> \in Seq(Job) /\ After(<<s[1]>>, e) = e2
  BY <1>1, AfterOne DEF Efb2
<1>3. ASSUME NEW i \in 1 .. Len(s)
      PROVE  /\ SubSeq(s, 1, i) = <<s[1]>> \o SubSeq(t, 1, i - 1)
             /\ SubSeq(t, 1, i - 1) \in Seq(Job)
             /\ After(SubSeq(s, 1, i), e) = After(SubSeq(t, 1, i - 1), e2)
  <2>1. SubSeq(s, 1, i) = <<s[1]>> \o SubSeq(s, 2, i)
    <3>1. 1 \in 1 .. Len(s) /\ i \in 1 .. Len(s) /\ 1 + 1 = 2
      BY <1>1
    <3> QED BY <3>1, SubSeqRecursiveFirst
  <2>2. SubSeq(s, 2, i) \in Seq(Job) /\ Len(SubSeq(s, 2, i)) = i - 1
        /\ \A k \in 1 .. i - 1 : SubSeq(s, 2, i)[k] = s[k + 1]
    <3>1. \A k \in 2 .. i : s[k] \in Job
      BY <1>1, ElementOfSeq
    <3>2. 2 \in Int /\ i \in Int
      OBVIOUS
    <3>3. SubSeq(s, 2, i) \in Seq(Job) /\ Len(SubSeq(s, 2, i)) = (IF 2 <= i THEN i - 2 + 1 ELSE 0)
          /\ \A k \in 1 .. i - 2 + 1 : SubSeq(s, 2, i)[k] = s[2 + k - 1]
      BY <3>1, <3>2, SubSeqProperties
    <3> QED BY <3>3
  <2>3. SubSeq(t, 1, i - 1) \in Seq(Job) /\ Len(SubSeq(t, 1, i - 1)) = i - 1
        /\ \A k \in 1 .. i - 1 : SubSeq(t, 1, i - 1)[k] = s[k + 1]
    <3>1. \A k \in 1 .. i - 1 : t[k] \in Job /\ t[k] = s[k + 1]
      BY <1>1, ElementOfSeq
    <3>2. 1 \in Int /\ i - 1 \in Int
      OBVIOUS
    <3>3. SubSeq(t, 1, i - 1) \in Seq(Job)
          /\ Len(SubSeq(t, 1, i - 1)) = (IF 1 <= i - 1 THEN (i - 1) - 1 + 1 ELSE 0)
          /\ \A k \in 1 .. (i - 1) - 1 + 1 : SubSeq(t, 1, i - 1)[k] = t[1 + k - 1]
      BY <3>1, <3>2, SubSeqProperties
    <3> QED BY <3>1, <3>3
  <2>4. SubSeq(s, 2, i) = SubSeq(t, 1, i - 1)
    BY <2>2, <2>3, SeqEqual
  <2>5. SubSeq(s, 1, i) = <<s[1]>> \o SubSeq(t, 1, i - 1)
    BY <2>1, <2>4
  <2>6. After(<<s[1]>> \o SubSeq(t, 1, i - 1), e) = After(SubSeq(t, 1, i - 1), After(<<s[1]>>, e))
    BY <1>2, <2>3, AfterConcat
  <2> QED BY <2>3, <2>5, <2>6, <1>2
<1>4. After(t, e2) = After(s, e)
  <2>1. SubSeq(s, 1, Len(s)) = s
    BY SubSeqFull
  <2>2. SubSeq(t, 1, Len(s) - 1) = t
    BY <1>1, SubSeqFull
  <2>3. Len(s) \in 1 .. Len(s)
    BY <1>1
  <2>4. After(SubSeq(s, 1, Len(s)), e) = After(SubSeq(t, 1, Len(s) - 1), e2)
    <3> HIDE DEF t, e2
    <3> QED BY <2>3, <1>3
  <2> QED BY <2>1, <2>2, <2>4
<1>5. \A i \in DOMAIN t : Before(t, e2, i) = Before(s, e, i + 1)
  <2>1. \A i \in DOMAIN t : i \in 1 .. Len(s) /\ (i + 1) - 1 = i
    BY <1>1
  <2> QED BY <2>1, <1>3 DEF Before
<1>6. Before(s, e, 1) = e
  <2>1. SubSeq(s, 1, 1 - 1) = <<>>
    BY SubSeqEmpty
  <2>2. After(<<>>, e) = e
    BY AfterNone
  <2> QED BY <2>1, <2>2 DEF Before
<1>7. ASSUME NEW u \in DOMAIN m, NEW v, Promised(s, e, m, u, v)
      PROVE  Promised(t, e2, m2, u, v)
  <2>1. ASSUME NEW i \in CopiesTo(t, u)
        PROVE  Before(t, e2, i) = v
    <3>1. i \in DOMAIN t /\ i + 1 \in CopiesTo(s, u)
      BY <1>1, <2>1 DEF CopiesTo
    <3> QED BY <3>1, <1>5, <1>7 DEF Promised
  <2>2. ASSUME CopiesTo(t, u) = {}
        PROVE  m2[u] = v
    <3>1. \A i \in CopiesTo(s, u) : i = 1
      <4>1. ASSUME NEW i \in CopiesTo(s, u), i # 1
            PROVE  FALSE
        <5>1. i - 1 \in DOMAIN t /\ t[i - 1] = s[(i - 1) + 1] /\ (i - 1) + 1 = i
          BY <1>1, <4>1 DEF CopiesTo
        <5> QED BY <5>1, <4>1, <2>2 DEF CopiesTo
      <4> QED BY <4>1
    <3>2. CASE CopiesTo(s, u) = {}
      <4>1. m[u] = v /\ ~(s[1].kind = "copy" /\ s[1].to = u)
        BY <3>2, <1>1, <1>7 DEF Promised, CopiesTo
      <4> QED BY <4>1 DEF Mem2
    <3>3. CASE CopiesTo(s, u) # {}
      <4>1. 1 \in CopiesTo(s, u)
        BY <3>1, <3>3
      <4>2. s[1].kind = "copy" /\ s[1].to = u /\ v = e
        BY <4>1, <1>6, <1>7 DEF Promised, CopiesTo
      <4> QED BY <4>2 DEF Mem2
    <3> QED BY <3>2, <3>3
  <2> QED BY <2>1, <2>2 DEF Promised
<1> HIDE DEF t, e2, m2
<1>8. \A i, k \in DOMAIN t :
        t[i].kind = "copy" /\ t[k].kind = "copy" /\ t[i].to = t[k].to => i = k
  <2>1. ASSUME NEW i \in DOMAIN t, NEW k \in DOMAIN t,
               t[i].kind = "copy", t[k].kind = "copy", t[i].to = t[k].to
        PROVE  i = k
    <3>1. i + 1 = k + 1
      BY <1>1, <2>1 DEF WorkKept
    <3> QED BY <3>1, <1>1
  <2> QED BY <2>1
<1>9. ASSUME NEW i \in DOMAIN t, t[i].kind = "draw", t[i].from # None
      PROVE  Promised(t, e2, m2, t[i].from, t[i].image)
  <2>1. Promised(s, e, m, t[i].from, t[i].image) /\ t[i].from \in DOMAIN m
    BY <1>1, <1>9 DEF WorkKept
  <2> QED BY <2>1, <1>7, <1>9
<1>10. \A i, k \in DOMAIN t :
        t[i].kind = "copy" /\ t[k].kind = "draw" /\ t[k].from = t[i].to => i < k
  <2>1. ASSUME NEW i \in DOMAIN t, NEW k \in DOMAIN t,
               t[i].kind = "copy", t[k].kind = "draw", t[k].from = t[i].to
        PROVE  i < k
    <3>1. i + 1 < k + 1
      BY <1>1, <2>1 DEF WorkKept
    <3> QED BY <3>1, <1>1
  <2> QED BY <2>1
<1> QED BY <1>4, <1>7, <1>8, <1>9, <1>10 DEF WorkKept, t, e2, m2

-----------------------------------------------------------------------------
(* Lemmas on the state.                                                     *)

LEMMA JobFacts ==
    ASSUME NEW n \in Image, NEW c \in Nat
    PROVE  /\ AllJobs(n, c) \subseteq Job /\ DrawJobs(n, c) \subseteq AllJobs(n, c)
           /\ \A j \in AllJobs(n, c) : /\ j.kind = "draw" => j \in DrawJobs(n, c)
                                       /\ j.kind = "copy" => j \in CopyJobs
                                       /\ j.kind = "clear" => j \in ClearJobs(n)
                                       /\ j.kind = "present" => j \in PresentJobs
                                       /\ j.kind \in {"draw", "copy", "clear", "present"}
                                       /\ j.stamp \in 0 .. n
<1>0. 0 .. n \subseteq Image /\ 0 \in Image /\ 0 \in 0 .. n
  BY FrameAssumption DEF Image
<1>1. DrawJobs(n, c) \subseteq Job
  BY <1>0 DEF DrawJobs, Job
<1>2. CopyJobs \subseteq Job
  BY <1>0 DEF CopyJobs, Job
<1>3. ClearJobs(n) \subseteq Job
  BY <1>0 DEF ClearJobs, Job
<1>4. PresentJobs \subseteq Job
  BY <1>0 DEF PresentJobs, Job
<1>5. /\ \A j \in DrawJobs(n, c) : j.kind = "draw" /\ j.stamp \in 0 .. n
      /\ \A j \in CopyJobs : j.kind = "copy" /\ j.stamp = 0
      /\ \A j \in ClearJobs(n) : j.kind = "clear" /\ j.stamp \in 0 .. n
      /\ \A j \in PresentJobs : j.kind = "present" /\ j.stamp = 0
  BY DEF DrawJobs, CopyJobs, ClearJobs, PresentJobs
<1> HIDE DEF DrawJobs, CopyJobs, ClearJobs, PresentJobs
<1> QED BY <1>0, <1>1, <1>2, <1>3, <1>4, <1>5 DEF AllJobs

\* The count only grows.
LEMMA JobsGrow ==
    ASSUME NEW n \in Image, NEW k \in Image, n <= k, NEW c \in Nat
    PROVE  DrawJobs(n, c) \subseteq DrawJobs(k, c) /\ AllJobs(n, c) \subseteq AllJobs(k, c)
<1>0. 0 .. n \subseteq 0 .. k
  BY FrameAssumption DEF Image
<1>1. DrawJobs(n, c) \subseteq DrawJobs(k, c)
  BY <1>0 DEF DrawJobs
<1>2. ClearJobs(n) \subseteq ClearJobs(k)
  BY <1>0 DEF ClearJobs
<1> HIDE DEF DrawJobs, CopyJobs, ClearJobs, PresentJobs
<1> QED BY <1>1, <1>2 DEF AllJobs

LEMMA DecodedFacts ==
    ASSUME TypeOK, Published, JobsOk
    PROVE  /\ Decoded \in Seq(DrawJobs(stamp, core))
           /\ DOMAIN Decoded = DOMAIN fifo /\ Len(Decoded) = Len(fifo)
           /\ \A i \in DOMAIN fifo : /\ Decoded[i].stamp = fifo[i].stamp
                                     /\ Decoded[i].from # None =>
                                          \E d \in Dest : /\ copies[d] # None
                                                          /\ Decoded[i].from = copies[d].target
                                                          /\ Decoded[i].image = copies[d].image
<1> DEFINE Command == [stamp : Image, tex : Dest \union {None}]
<1>0. fifo \in Seq(Command) /\ stamp \in Nat
  BY FrameAssumption DEF TypeOK, Image
<1>1. Len(fifo) \in Nat /\ DOMAIN fifo = 1 .. Len(fifo) /\ stamp \in Nat
      /\ \A i \in DOMAIN fifo : fifo[i] \in Command
  <2> HIDE DEF Command
  <2> QED BY <1>0, LenProperties, ElementOfSeq
<1>2. DOMAIN Decoded = DOMAIN fifo
  BY DEF Decoded
<1>3. ASSUME NEW i \in DOMAIN fifo
      PROVE  /\ Decoded[i] \in DrawJobs(stamp, core)
             /\ Decoded[i].stamp = fifo[i].stamp
             /\ Decoded[i].from # None => \E d \in Dest : /\ copies[d] # None
                                                          /\ Decoded[i].from = copies[d].target
                                                          /\ Decoded[i].image = copies[d].image
  <2>0. fifo[i].stamp \in 0 .. stamp /\ 0 \in Image /\ fifo[i].tex \in Dest \union {None}
    BY <1>1, FrameAssumption DEF JobsOk, Image
  <2>1. CASE fifo[i].tex = None
    <3>1. Decoded[i] = DrawJob(fifo[i].stamp, None, 0)
      BY <2>1 DEF Decoded
    <3> QED BY <3>1, <2>0 DEF DrawJob, DrawJobs
  <2>2. CASE fifo[i].tex # None
    <3>1. fifo[i].tex \in Dest /\ copies[fifo[i].tex] # None
      BY <2>0, <2>2 DEF Published
    <3>2. copies[fifo[i].tex] \in Held /\ copies[fifo[i].tex].target \in Texture
      BY <3>1 DEF TypeOK, Published
    <3>3. copies[fifo[i].tex].image \in Image
      BY <3>2 DEF Held
    <3>4. Decoded[i] = DrawJob(fifo[i].stamp, copies[fifo[i].tex].target, copies[fifo[i].tex].image)
      BY <2>2 DEF Decoded
    <3> QED BY <3>1, <3>2, <3>3, <3>4, <2>0 DEF DrawJob, DrawJobs
  <2> QED BY <2>1, <2>2
<1>4. Decoded \in [1 .. Len(fifo) -> DrawJobs(stamp, core)]
  <2>1. Decoded = [i \in 1 .. Len(fifo) |-> Decoded[i]]
    BY <1>1 DEF Decoded
  <2>2. \A i \in 1 .. Len(fifo) : Decoded[i] \in DrawJobs(stamp, core)
    BY <1>1, <1>3
  <2> HIDE DEF Decoded
  <2> QED BY <2>1, <2>2
<1>5. Decoded \in Seq(DrawJobs(stamp, core)) /\ Len(Decoded) = Len(fifo)
  <2> HIDE DEF Decoded, DrawJobs
  <2> QED BY <1>1, <1>4
<1> QED BY <1>2, <1>3, <1>5

LEMMA WorkFacts ==
    ASSUME TypeOK, Published, JobsOk
    PROVE  /\ stamp \in Image /\ stamp \in Nat /\ core \in Nat /\ efb \in 0 .. stamp
           /\ gpu \in Seq(Job) /\ batch \in Seq(Job) /\ Decoded \in Seq(Job) /\ DrawsSoFar \in Seq(Job)
           /\ DrawsSoFar \in Seq(DrawJobs(stamp, core))
           /\ Len(gpu) \in Nat /\ DOMAIN gpu = 1 .. Len(gpu)
           /\ Len(batch) \in Nat /\ DOMAIN batch = 1 .. Len(batch)
           /\ Len(fifo) \in Nat /\ DOMAIN fifo = 1 .. Len(fifo)
           /\ \A i \in DOMAIN gpu : gpu[i] \in AllJobs(stamp, core) /\ gpu[i] \in Job
           /\ \A i \in DOMAIN batch : batch[i] \in DrawJobs(stamp, core)
<1>1. stamp \in Image /\ stamp \in Nat /\ core \in Nat /\ efb \in 0 .. stamp
  BY FrameAssumption DEF TypeOK, JobsOk, Image
<1>2. AllJobs(stamp, core) \subseteq Job /\ DrawJobs(stamp, core) \subseteq AllJobs(stamp, core)
  BY <1>1, JobFacts
<1>3. DrawJobs(stamp, core) \subseteq Job
  BY <1>2
<1>4. gpu \in Seq(Job) /\ batch \in Seq(Job)
  BY DEF TypeOK
<1>5. Decoded \in Seq(DrawJobs(stamp, core))
  BY DecodedFacts
<1>6. Decoded \in Seq(Job)
  BY <1>3, <1>5, SeqMonotonic
<1>7. DrawsSoFar \in Seq(DrawJobs(stamp, core))
  BY <1>5, ConcatProperties DEF JobsOk, DrawsSoFar
<1>8. DrawsSoFar \in Seq(Job)
  BY <1>3, <1>7, SeqMonotonic
<1>9. /\ Len(gpu) \in Nat /\ DOMAIN gpu = 1 .. Len(gpu)
      /\ Len(batch) \in Nat /\ DOMAIN batch = 1 .. Len(batch)
      /\ Len(fifo) \in Nat /\ DOMAIN fifo = 1 .. Len(fifo)
  BY LenProperties DEF TypeOK
<1>10. \A i \in DOMAIN gpu : gpu[i] \in AllJobs(stamp, core)
  BY <1>9, ElementOfSeq DEF JobsOk
<1>11. \A i \in DOMAIN batch : batch[i] \in DrawJobs(stamp, core)
  BY <1>9, ElementOfSeq DEF JobsOk
<1> HIDE DEF DrawsSoFar, Decoded, AllJobs, DrawJobs, Job, Image
<1> QED BY <1>1, <1>2, <1>4, <1>6, <1>7, <1>8, <1>9, <1>10, <1>11

\* The last draw in the FIFO decides, whatever it samples.
LEMMA DecodedAfter ==
    ASSUME TypeOK, Published, JobsOk, NEW v
    PROVE  After(Decoded, v) = IF fifo = <<>> THEN v ELSE fifo[Len(fifo)].stamp
<1>0. /\ Decoded \in Seq(Job) /\ Len(fifo) \in Nat /\ DOMAIN fifo = 1 .. Len(fifo)
      /\ DOMAIN Decoded = DOMAIN fifo
      /\ \A i \in DOMAIN fifo : Decoded[i].stamp = fifo[i].stamp
      /\ \A i \in DOMAIN fifo : Decoded[i].to = Efb
  <2>1. \A i \in DOMAIN fifo : Decoded[i].to = Efb
    BY DEF Decoded, DrawJob
  <2> QED BY <2>1, WorkFacts, DecodedFacts
<1>1. CASE fifo = <<>>
  <2>1. \A k \in DOMAIN Decoded : FALSE
    BY <1>0, <1>1
  <2> QED BY <2>1, <1>1, AfterNone
<1>2. CASE fifo # <<>>
  <2>1. Len(fifo) \in DOMAIN fifo
    BY <1>0, <1>2, EmptySeq DEF TypeOK
  <2>2. After(Decoded, v) = Decoded[Len(fifo)].stamp
    <3> HIDE DEF Decoded
    <3>1. \A k \in DOMAIN Decoded : k <= Len(fifo)
      BY <1>0
    <3> QED BY <1>0, <2>1, <3>1, AfterLast
  <2> QED BY <2>1, <2>2, <1>0, <1>2
<1> QED BY <1>1, <1>2

LEMMA BatchAfter ==
    ASSUME TypeOK, Published, JobsOk, NEW v
    PROVE  After(batch, v) = IF batch = <<>> THEN v ELSE batch[Len(batch)].stamp
<1>0. batch \in Seq(Job) /\ Len(batch) \in Nat /\ DOMAIN batch = 1 .. Len(batch)
      /\ \A i \in DOMAIN batch : batch[i].to = Efb
  BY WorkFacts DEF DrawJobs
<1>1. CASE batch = <<>>
  <2>1. \A k \in DOMAIN batch : FALSE
    BY <1>0, <1>1
  <2> QED BY <2>1, <1>1, AfterNone
<1>2. CASE batch # <<>>
  <2>1. Len(batch) \in DOMAIN batch
    BY <1>0, <1>2, EmptySeq DEF TypeOK
  <2>2. \A k \in DOMAIN batch : k <= Len(batch)
    BY <1>0
  <2>3. After(batch, v) = batch[Len(batch)].stamp
    BY <1>0, <2>1, <2>2, AfterLast
  <2> QED BY <2>3, <1>2
<1> QED BY <1>1, <1>2

\* What the game expects of the EFB: the FIFO's last draw, or else the open
\* batch's, or else what the GPU's work leaves there.
LEMMA DueSplit ==
    ASSUME TypeOK, Published, JobsOk
    PROVE  /\ After(DrawsSoFar, After(gpu, efb)) = Due
           /\ Due = IF fifo # <<>> THEN fifo[Len(fifo)].stamp
                    ELSE IF batch # <<>> THEN batch[Len(batch)].stamp
                    ELSE After(gpu, efb)
<1>1. gpu \in Seq(Job) /\ batch \in Seq(Job) /\ Decoded \in Seq(Job) /\ DrawsSoFar \in Seq(Job)
  BY WorkFacts
<1>2. After(DrawsSoFar, After(gpu, efb)) = Due
  BY <1>1, AfterConcat DEF Due
<1>3. After(DrawsSoFar, After(gpu, efb)) = After(Decoded, After(batch, After(gpu, efb)))
  BY <1>1, AfterConcat DEF DrawsSoFar
<1> QED BY <1>2, <1>3, DecodedAfter, BatchAfter

LEMMA AfterBound ==
    ASSUME NEW n \in Image, NEW s \in Seq(Job), NEW v \in 0 .. n,
           \A i \in DOMAIN s : s[i].stamp \in 0 .. n
    PROVE  After(s, v) \in 0 .. n
BY AfterCases

LEMMA DueBound ==
    ASSUME TypeOK, Published, JobsOk
    PROVE  Due \in 0 .. stamp /\ Due \in Image
<1>1. stamp \in Image /\ core \in Nat /\ gpu \in Seq(Job) /\ DrawsSoFar \in Seq(Job)
      /\ efb \in 0 .. stamp
  BY WorkFacts
<1>2. \A i \in DOMAIN gpu : gpu[i].stamp \in 0 .. stamp
  BY WorkFacts, JobFacts
<1>3. \A i \in DOMAIN DrawsSoFar : DrawsSoFar[i].stamp \in 0 .. stamp
  <2>1. DrawsSoFar \in Seq(DrawJobs(stamp, core))
    BY WorkFacts
  <2>2. \A i \in DOMAIN DrawsSoFar : DrawsSoFar[i] \in DrawJobs(stamp, core)
    BY <2>1, LenProperties, ElementOfSeq
  <2> QED BY <2>2 DEF DrawJobs
<1>4. After(gpu, efb) \in 0 .. stamp
  BY <1>1, <1>2, AfterBound
<1>5. After(DrawsSoFar, After(gpu, efb)) \in 0 .. stamp
  BY <1>1, <1>3, <1>4, AfterBound
<1>6. 0 .. stamp \subseteq Image
  BY <1>1, FrameAssumption DEF Image
<1> QED BY <1>5, <1>6, DueSplit

LEMMA ConcatElements ==
    ASSUME NEW s \in Seq(Job), NEW t \in Seq(Job)
    PROVE  /\ s \o t \in Seq(Job)
           /\ \A k \in DOMAIN (s \o t) : \/ k \in DOMAIN s /\ (s \o t)[k] = s[k]
                                         \/ \E i \in DOMAIN t : (s \o t)[k] = t[i]
<1>1. DOMAIN (s \o t) = 1 .. Len(s) + Len(t) /\ DOMAIN s = 1 .. Len(s) /\ DOMAIN t = 1 .. Len(t)
      /\ Len(s) \in Nat /\ Len(t) \in Nat /\ s \o t \in Seq(Job)
  BY ConcatProperties, LenProperties
<1>2. \A k \in 1 .. Len(s) + Len(t) : (s \o t)[k] = IF k <= Len(s) THEN s[k] ELSE t[k - Len(s)]
  BY ConcatProperties
<1>3. ASSUME NEW k \in 1 .. Len(s) + Len(t)
      PROVE  \/ k \in DOMAIN s /\ (s \o t)[k] = s[k]
             \/ \E i \in DOMAIN t : (s \o t)[k] = t[i]
  <2>1. CASE k <= Len(s)
    BY <2>1, <1>1, <1>2
  <2>2. CASE ~(k <= Len(s))
    <3>1. k - Len(s) \in DOMAIN t
      BY <2>2, <1>1
    <3> QED BY <3>1, <2>2, <1>2
  <2> QED BY <2>1, <2>2
<1> QED BY <1>1, <1>3

\* Draws that sample published copies can follow the work on the GPU.
LEMMA DrawsKept ==
    ASSUME TypeOK, Published, JobsOk, Kept, NEW d \in Seq(DrawJobs(stamp, core)),
           \A k \in DOMAIN d : d[k].from # None => Keeps(d[k].from, d[k].image)
    PROVE  /\ WorkKept(gpu \o d, efb, memory)
           /\ \A u, v : Keeps(u, v) => Promised(gpu \o d, efb, memory, u, v)
<1>1. d \in Seq(Job) /\ gpu \in Seq(Job)
  BY WorkFacts, JobFacts, SeqMonotonic
<1>2. \A k \in DOMAIN d : d[k] \in DrawJobs(stamp, core)
  BY LenProperties, ElementOfSeq
<1>3. \A k \in DOMAIN d : d[k].kind = "draw"
  BY <1>2 DEF DrawJobs
<1>4. WorkKept(gpu, efb, memory)
  BY DEF Kept
<1> QED BY <1>1, <1>3, <1>4, KeptWithoutCopies DEF Keeps

\* The open batch and the FIFO sample published copies.
LEMMA DrawsPromised ==
    ASSUME TypeOK, Published, JobsOk, Kept
    PROVE  \A k \in DOMAIN DrawsSoFar :
             DrawsSoFar[k].from # None => Keeps(DrawsSoFar[k].from, DrawsSoFar[k].image)
<1>1. batch \in Seq(Job) /\ Decoded \in Seq(Job) /\ DOMAIN Decoded = DOMAIN fifo
  BY WorkFacts, DecodedFacts
<1>2. \A k \in DOMAIN Decoded : Decoded[k].from # None => Keeps(Decoded[k].from, Decoded[k].image)
  BY <1>1, DecodedFacts DEF Kept
<1>3. \A k \in DOMAIN batch : batch[k].from # None => Keeps(batch[k].from, batch[k].image)
  BY DEF Kept
<1>4. \A k \in DOMAIN (batch \o Decoded) : \/ k \in DOMAIN batch /\ (batch \o Decoded)[k] = batch[k]
                                           \/ \E i \in DOMAIN Decoded : (batch \o Decoded)[k] = Decoded[i]
  BY <1>1, ConcatElements
<1> HIDE DEF Decoded, Keeps
<1> QED BY <1>2, <1>3, <1>4 DEF DrawsSoFar

LEMMA SoFarKept ==
    ASSUME TypeOK, Published, JobsOk, Kept
    PROVE  /\ WorkKept(gpu \o DrawsSoFar, efb, memory)
           /\ \A u, v : Keeps(u, v) => Promised(gpu \o DrawsSoFar, efb, memory, u, v)
           /\ WorkKept(gpu \o batch, efb, memory)
           /\ \A u, v : Keeps(u, v) => Promised(gpu \o batch, efb, memory, u, v)
<1>1. DrawsSoFar \in Seq(DrawJobs(stamp, core)) /\ batch \in Seq(DrawJobs(stamp, core))
  BY WorkFacts DEF JobsOk
<1>2. \A k \in DOMAIN batch : batch[k].from # None => Keeps(batch[k].from, batch[k].image)
  BY DEF Kept
<1> QED BY <1>1, <1>2, DrawsPromised, DrawsKept

\* A copy and its clear behind the work s.
CopyBehind(s, t, clear) == s \o <<CopyJob(t)>> \o ClearBehind(clear)

LEMMA NewJobs ==
    ASSUME TypeOK, Published, JobsOk, stamp < MaxStamp
    PROVE  /\ stamp + 1 \in Image /\ stamp + 1 \in Nat
           /\ \A t \in Texture \union Display :
                CopyJob(t) \in AllJobs(stamp + 1, core) /\ CopyJob(t) \in Job
           /\ ClearJob(stamp + 1) \in AllJobs(stamp + 1, core) /\ ClearJob(stamp + 1) \in Job
           /\ \A clear \in BOOLEAN : ClearBehind(clear) \in Seq(AllJobs(stamp + 1, core))
           /\ \A clear \in BOOLEAN : ClearBehind(clear) \in Seq(Job)
<1>1. stamp + 1 \in Image /\ stamp + 1 \in Nat /\ core \in Nat
  BY WorkFacts, FrameAssumption DEF Image
<1>2. AllJobs(stamp + 1, core) \subseteq Job
  BY <1>1, JobFacts
<1>3. \A t \in Texture \union Display : CopyJob(t) \in CopyJobs
  BY <1>1 DEF CopyJob, CopyJobs
<1>4. ClearJob(stamp + 1) \in ClearJobs(stamp + 1)
  BY <1>1 DEF ClearJob, ClearJobs
<1>5. /\ \A t \in Texture \union Display : CopyJob(t) \in AllJobs(stamp + 1, core)
      /\ ClearJob(stamp + 1) \in AllJobs(stamp + 1, core)
  <2> HIDE DEF CopyJob, ClearJob, CopyJobs, ClearJobs, DrawJobs, PresentJobs
  <2> QED BY <1>3, <1>4 DEF AllJobs
<1>6. \A clear \in BOOLEAN : ClearBehind(clear) \in Seq(AllJobs(stamp + 1, core))
  <2> DEFINE S == AllJobs(stamp + 1, core)
             j == ClearJob(stamp + 1)
  <2>1. j \in S
    BY <1>5
  <2>2. <<j>> \in Seq(S) /\ <<>> \in Seq(S)
    <3> HIDE DEF j, S
    <3> QED BY <2>1
  <2>3. ASSUME NEW clear \in BOOLEAN
        PROVE  ClearBehind(clear) \in Seq(S)
    <3>1. ClearBehind(clear) = IF clear THEN <<j>> ELSE <<>>
      BY DEF ClearBehind
    <3> HIDE DEF S, j
    <3> QED BY <2>2, <3>1
  <2> QED BY <2>3
<1>7. \A clear \in BOOLEAN : ClearBehind(clear) \in Seq(Job)
  BY <1>2, <1>6, SeqMonotonic
<1> HIDE DEF CopyJob, ClearJob, AllJobs, Job
<1> QED BY <1>1, <1>2, <1>5, <1>6, <1>7

LEMMA CopyBehindFacts ==
    ASSUME TypeOK, Published, JobsOk, stamp < MaxStamp,
           NEW s \in Seq(AllJobs(stamp, core)), NEW t \in Texture \union Display, NEW clear \in BOOLEAN
    PROVE  /\ CopyBehind(s, t, clear) \in Seq(AllJobs(stamp + 1, core))
           /\ After(CopyBehind(s, t, clear), efb) = IF clear THEN stamp + 1 ELSE After(s, efb)
           /\ \A k \in DOMAIN CopyBehind(s, t, clear) :
                \/ k \in DOMAIN s /\ CopyBehind(s, t, clear)[k] = s[k]
                \/ CopyBehind(s, t, clear)[k].kind \in {"copy", "clear"}
           /\ WorkKept(s, efb, memory) /\ (\A k \in DOMAIN s : s[k].from # t /\ s[k].to # t) =>
                /\ WorkKept(CopyBehind(s, t, clear), efb, memory)
                /\ Promised(CopyBehind(s, t, clear), efb, memory, t, After(s, efb))
                /\ \A u, v : u # t /\ Promised(s, efb, memory, u, v)
                               => Promised(CopyBehind(s, t, clear), efb, memory, u, v)
<1> DEFINE c == <<CopyJob(t)>>
           z == ClearBehind(clear)
           a == s \o c
<1>1. stamp \in Image /\ stamp + 1 \in Image /\ stamp <= stamp + 1 /\ core \in Nat
  BY WorkFacts, NewJobs
<1>2. s \in Seq(AllJobs(stamp + 1, core)) /\ s \in Seq(Job)
  BY <1>1, JobFacts, JobsGrow, SeqMonotonic
<1>3. /\ CopyJob(t) \in AllJobs(stamp + 1, core) /\ CopyJob(t) \in Job
      /\ z \in Seq(AllJobs(stamp + 1, core)) /\ z \in Seq(Job)
  BY NewJobs
<1>4. c \in Seq(AllJobs(stamp + 1, core)) /\ c \in Seq(Job) /\ DOMAIN c = {1} /\ c[1] = CopyJob(t)
  <2> HIDE DEF CopyJob, AllJobs, Job
  <2> QED BY <1>3
<1>5. CopyJob(t).kind = "copy" /\ CopyJob(t).to = t /\ t # Efb /\ CopyJob(t).from = Efb
  BY FrameAssumption DEF CopyJob
<1>6. \A k \in DOMAIN z : z[k] = ClearJob(stamp + 1) /\ z[k].kind = "clear"
  BY DEF ClearBehind, ClearJob
<1>7. a \in Seq(AllJobs(stamp + 1, core)) /\ a \in Seq(Job)
  <2> HIDE DEF c
  <2> QED BY <1>2, <1>4, ConcatProperties
<1>8. CopyBehind(s, t, clear) = a \o z
  BY DEF CopyBehind
<1>9. a \o z \in Seq(AllJobs(stamp + 1, core))
  <2> HIDE DEF a, z
  <2> QED BY <1>3, <1>7, ConcatProperties
<1>10. After(a \o z, efb) = IF clear THEN stamp + 1 ELSE After(s, efb)
  <2>1. After(a, efb) = After(c, After(s, efb))
    <3> HIDE DEF c
    <3> QED BY <1>2, <1>4, AfterConcat
  <2>2. After(c, After(s, efb)) = After(s, efb)
    BY <1>3, <1>5, AfterOne
  <2>3. After(a \o z, efb) = After(z, After(a, efb))
    <3> HIDE DEF a, z
    <3> QED BY <1>3, <1>7, AfterConcat
  <2>4. CASE clear
    <3>1. z = <<ClearJob(stamp + 1)>>
      BY <2>4 DEF ClearBehind
    <3>2. ClearJob(stamp + 1).to = Efb /\ ClearJob(stamp + 1).stamp = stamp + 1
      BY DEF ClearJob
    <3>3. After(z, After(a, efb)) = stamp + 1
      BY <3>1, <3>2, NewJobs, AfterOne
    <3> QED BY <3>3, <2>3, <2>4
  <2>5. CASE ~clear
    <3>1. z = <<>>
      BY <2>5 DEF ClearBehind
    <3>2. After(z, After(a, efb)) = After(a, efb)
      BY <3>1, AfterNone
    <3> QED BY <3>2, <2>1, <2>2, <2>3, <2>5
  <2> QED BY <2>4, <2>5
<1>11. ASSUME NEW k \in DOMAIN (a \o z)
       PROVE  (k \in DOMAIN s /\ (a \o z)[k] = s[k]) \/ (a \o z)[k].kind \in {"copy", "clear"}
  <2>1. (k \in DOMAIN a /\ (a \o z)[k] = a[k]) \/ \E i \in DOMAIN z : (a \o z)[k] = z[i]
    <3> HIDE DEF a, z
    <3> QED BY <1>3, <1>7, ConcatElements
  <2>2. ASSUME k \in DOMAIN a
        PROVE  (k \in DOMAIN s /\ a[k] = s[k]) \/ \E i \in DOMAIN c : a[k] = c[i]
    <3> HIDE DEF c
    <3> QED BY <2>2, <1>2, <1>4, ConcatElements
  <2>3. (\E i \in DOMAIN z : (a \o z)[k] = z[i]) => (a \o z)[k].kind = "clear"
    <3> HIDE DEF z, a
    <3> QED BY <1>6
  <2>4. (\E i \in DOMAIN c : a[k] = c[i]) => a[k].kind = "copy"
    <3> HIDE DEF c, a
    <3> QED BY <1>4, <1>5
  <2> HIDE DEF a, z, c
  <2> QED BY <2>1, <2>2, <2>3, <2>4
<1>12. ASSUME WorkKept(s, efb, memory), \A k \in DOMAIN s : s[k].from # t /\ s[k].to # t
       PROVE  /\ WorkKept(a \o z, efb, memory)
              /\ Promised(a \o z, efb, memory, t, After(s, efb))
              /\ \A u, v : u # t /\ Promised(s, efb, memory, u, v) => Promised(a \o z, efb, memory, u, v)
  <2>1. /\ WorkKept(a, efb, memory)
        /\ Promised(a, efb, memory, t, After(s, efb))
        /\ \A u, v : u # t /\ Promised(s, efb, memory, u, v) => Promised(a, efb, memory, u, v)
    <3> DEFINE j == CopyJob(t)
    <3>1. j \in Job /\ j.kind = "copy" /\ j.to = t
      BY <1>3, <1>5
    <3> HIDE DEF j
    <3>2. /\ WorkKept(s \o <<j>>, efb, memory)
          /\ Promised(s \o <<j>>, efb, memory, t, After(s, efb))
          /\ \A u, v : u # t /\ Promised(s, efb, memory, u, v) => Promised(s \o <<j>>, efb, memory, u, v)
      BY <3>1, <1>2, <1>12, KeptWithCopy
    <3> QED BY <3>2 DEF j
  <2>2. \A k \in DOMAIN z : z[k].kind # "copy" /\ z[k].kind # "draw"
    BY <1>6
  <2>3. WorkKept(a \o z, efb, memory) /\ \A u, v : Promised(a, efb, memory, u, v) => Promised(a \o z, efb, memory, u, v)
    <3> HIDE DEF a, z
    <3> QED BY <1>3, <1>7, <2>1, <2>2, KeptWithoutCopies
  <2> HIDE DEF a, z
  <2> QED BY <2>1, <2>3
<1> HIDE DEF a, z
<1> QED BY <1>8, <1>9, <1>10, <1>11, <1>12

LEMMA InUseFacts ==
    ASSUME NEW t, t \notin InUse
    PROVE  /\ \A k \in DOMAIN gpu : gpu[k].from # t /\ gpu[k].to # t
           /\ \A k \in DOMAIN batch : batch[k].from # t
           /\ t \notin lingering
<1> DEFINE W == UNION {{gpu[i].from, gpu[i].to} : i \in DOMAIN gpu}
           B == {batch[i].from : i \in DOMAIN batch}
<1>1. t \notin W /\ t \notin B /\ t \notin lingering
  <2>1. InUse = (W \union B) \union lingering
    BY DEF InUse
  <2> HIDE DEF W, B
  <2> QED BY <2>1
<1>2. \A k \in DOMAIN gpu : gpu[k].from \in W /\ gpu[k].to \in W
  OBVIOUS
<1>3. \A k \in DOMAIN batch : batch[k].from \in B
  OBVIOUS
<1> HIDE DEF W, B
<1> QED BY <1>1, <1>2, <1>3

\* A free texture target is in nobody's use.
LEMMA FreeTextureFacts ==
    ASSUME TypeOK, Published, JobsOk, NEW t \in FreeTextures
    PROVE  /\ t \in Texture
           /\ \A k \in DOMAIN (gpu \o DrawsSoFar) :
                (gpu \o DrawsSoFar)[k].from # t /\ (gpu \o DrawsSoFar)[k].to # t
           /\ \A d \in Dest : copies[d] # None => copies[d].target # t
           /\ latest # None => latest.target # t
<1>1. t \in Texture /\ t \notin InUse /\ \A d \in Dest : copies[d] # None => copies[d].target # t
  BY DEF FreeTextures
<1>2. t # None /\ t # Efb /\ t \notin Display
  BY <1>1, FrameAssumption
<1>3. latest # None => latest.target # t
  BY <1>2 DEF TypeOK
<1>4. \A i \in DOMAIN gpu : gpu[i].from # t /\ gpu[i].to # t
  BY <1>1, InUseFacts
<1>5. \A i \in DOMAIN batch : batch[i].from # t /\ batch[i].to = Efb
  BY <1>1, InUseFacts, WorkFacts DEF DrawJobs
<1>6. DOMAIN Decoded = DOMAIN fifo
  BY DecodedFacts
<1>7. \A i \in DOMAIN Decoded : Decoded[i].from # t /\ Decoded[i].to = Efb
  <2>1. \A i \in DOMAIN fifo : Decoded[i].from # t
    BY <1>1, <1>2, DecodedFacts
  <2>2. \A i \in DOMAIN fifo : Decoded[i].to = Efb
    BY DEF Decoded, DrawJob
  <2> QED BY <1>6, <2>1, <2>2
<1>8. gpu \in Seq(Job) /\ batch \in Seq(Job) /\ Decoded \in Seq(Job) /\ DrawsSoFar \in Seq(Job)
  BY WorkFacts
<1> HIDE DEF Decoded
<1>9. \A k \in DOMAIN DrawsSoFar : DrawsSoFar[k].from # t /\ DrawsSoFar[k].to = Efb
  BY <1>5, <1>7, <1>8, ConcatElements DEF DrawsSoFar
<1>10. \A k \in DOMAIN (gpu \o DrawsSoFar) :
         (gpu \o DrawsSoFar)[k].from # t /\ (gpu \o DrawsSoFar)[k].to # t
  BY <1>2, <1>4, <1>8, <1>9, ConcatElements
<1> QED BY <1>1, <1>3, <1>10

\* So is a display target that a copy may take, and the pool keeps its size.
LEMMA NextDisplayFacts ==
    ASSUME TypeOK, Published, JobsOk, Served, NEW t \in NextDisplays
    PROVE  /\ t \in Display
           /\ \A k \in DOMAIN gpu : gpu[k].from # t /\ gpu[k].to # t
           /\ \A k \in DOMAIN batch : batch[k].from # t
           /\ \A d \in Dest : copies[d] # None => copies[d].target # t
           /\ latest # None => latest.target # t
           /\ IsFiniteSet(pool \union {t}) /\ Cardinality(pool \union {t}) <= Displays
<1>1. IsFiniteSet(pool) /\ Cardinality(pool) \in Nat /\ Displays \in Nat
      /\ Cardinality(pool) <= Displays /\ pool \subseteq Display
  BY FS_CardinalityType, FrameAssumption DEF Served, TypeOK
<1>2. CASE t \in FreeDisplays
  <2>1. t \in pool /\ t \notin InUse /\ (latest # None => latest.target # t)
    BY <1>2 DEF FreeDisplays
  <2>2. pool \union {t} = pool
    BY <2>1
  <2>3. t \in Display /\ \A d \in Dest : copies[d] # None => copies[d].target # t
    BY <2>1, <1>1, FrameAssumption DEF Published
  <2> QED BY <1>1, <2>1, <2>2, <2>3, InUseFacts
<1>3. CASE t \notin FreeDisplays
  <2>1. t \in Display /\ t \notin pool /\ t \notin InUse /\ ~PoolFull
    BY <1>3 DEF NextDisplays
  <2>2. latest # None => latest.target # t
    BY <2>1 DEF TypeOK
  <2>3. \A d \in Dest : copies[d] # None => copies[d].target # t
    BY <2>1, FrameAssumption DEF Published
  <2>4. IsFiniteSet(pool \union {t}) /\ Cardinality(pool \union {t}) = Cardinality(pool) + 1
    BY <1>1, <2>1, FS_AddElement
  <2>5. Cardinality(pool) < Displays
    BY <1>1, <2>1 DEF PoolFull
  <2>6. Cardinality(pool \union {t}) <= Displays
    BY <1>1, <2>4, <2>5
  <2> QED BY <2>1, <2>2, <2>3, <2>4, <2>6, InUseFacts
<1> QED BY <1>2, <1>3

\* Once the blits are joined, only the frame's display copy holds a display target.
LEMMA JoinedPoolFree ==
    ASSUME TypeOK, Published, JobsOk, Served, ~Unfinished(Blits)
    PROVE  PoolFull => \E t \in pool : /\ latest # None => t # latest.target
                                       /\ \A k \in DOMAIN gpu : gpu[k].from # t /\ gpu[k].to # t
                                       /\ \A k \in DOMAIN batch : batch[k].from # t
<1>1. IsFiniteSet(pool) /\ Cardinality(pool) \in Nat /\ Displays \in Nat /\ Displays >= 2
      /\ pool \subseteq Display
  BY FS_CardinalityType, FrameAssumption DEF Served, TypeOK
<1>2. \A k \in DOMAIN gpu : gpu[k] \in DrawJobs(stamp, core)
  <2>1. \A k \in DOMAIN gpu : gpu[k].kind \notin Blits
    BY DEF Unfinished
  <2>2. \A k \in DOMAIN gpu : gpu[k] \in AllJobs(stamp, core)
    BY WorkFacts
  <2>3. \A k \in DOMAIN gpu : gpu[k].kind = "draw"
    BY <2>1, <2>2, WorkFacts, JobFacts DEF Blits
  <2> QED BY <2>2, <2>3, WorkFacts, JobFacts
<1>3. \A k \in DOMAIN gpu : gpu[k].from \in Texture \union {None} /\ gpu[k].to = Efb
  BY <1>2 DEF DrawJobs
<1>4. \A k \in DOMAIN batch : batch[k].from \in Texture \union {None}
  BY WorkFacts DEF DrawJobs
<1>5. ASSUME PoolFull
      PROVE  \E t \in pool : latest # None => t # latest.target
  <2>1. pool \ {latest.target} # {}
    <3>1. IsFiniteSet(pool \ {latest.target})
          /\ Cardinality(pool \ {latest.target}) >= Cardinality(pool) - 1
      BY <1>1, FS_RemoveElement
    <3>2. Cardinality(pool) >= 2
      BY <1>1, <1>5 DEF PoolFull
    <3>3. Cardinality(pool \ {latest.target}) # 0
      BY <1>1, <3>1, <3>2
    <3> QED BY <3>3, FS_EmptySet
  <2> QED BY <2>1
<1>6. \A t \in pool : t # Efb /\ t # None /\ t \notin Texture
  BY <1>1, FrameAssumption
<1> QED BY <1>3, <1>4, <1>5, <1>6

-----------------------------------------------------------------------------
(* Every action preserves the invariant.                                    *)

LEMMA InitKeeps ==
    ASSUME Init
    PROVE  IInv
<1>1. /\ fifo = <<>> /\ batch = <<>> /\ gpu = <<>> /\ DOMAIN <<>> = {} /\ 0 \in Image
      /\ latest = None /\ pool = {} /\ call = Idle /\ due = {}
  BY FrameAssumption DEF Init, Image
<1>2. TypeOK
  <2>1. /\ memory \in [Texture \union Display -> Image] /\ copies \in [Dest -> Held \union {None}]
        /\ efb \in Image /\ back \in Image /\ stamp \in Image /\ output \in Image
    BY <1>1 DEF Init
  <2>2. pool \subseteq Display /\ Cardinality(pool) <= Displays
    BY <1>1, FS_EmptySet, FrameAssumption
  <2>3. /\ due \subseteq Dest /\ lingering \subseteq Texture \union Display
        /\ core \in Nat /\ inFrame \in BOOLEAN /\ failed \in BOOLEAN /\ closed \in BOOLEAN
        /\ broken \subseteq {"draws", "blits"}
    BY DEF Init
  <2>4. call.dest \in Dest \union {None} /\ call.clear \in BOOLEAN
    BY <1>1 DEF Idle
  <2>5. /\ fifo \in Seq([stamp : Image, tex : Dest \union {None}])
        /\ batch \in Seq(Job) /\ gpu \in Seq(Job)
    BY <1>1, EmptySeq
  <2> QED BY <1>1, <2>1, <2>2, <2>3, <2>4, <2>5 DEF TypeOK
<1>3. CallOk
  BY <1>1 DEF Init, CallOk, Calls, Idle
<1>4. Published
  BY <1>1 DEF Init, Published
<1>5. JobsOk
  BY <1>1, EmptySeq DEF Init, JobsOk
<1>6. Joined
  BY <1>1 DEF Init, Joined, Unfinished, Idle
<1>7. Kept
  BY <1>1 DEF Init, Kept, WorkKept
<1>8. Presented
  BY <1>1 DEF Presented, Idle
<1>9. Served
  BY <1>1, FS_EmptySet DEF Served, Idle
<1> QED BY <1>2, <1>3, <1>4, <1>5, <1>6, <1>7, <1>8, <1>9 DEF IInv

\* Nothing is promised or broken while the GPU's side stands still.
LEMMA QuietKept ==
    ASSUME Kept, UNCHANGED <<gpu, efb, memory, copies, batch>>, latest' \in {latest, None}
    PROVE  Kept'
<1>1. /\ gpu' = gpu /\ efb' = efb /\ memory' = memory /\ copies' = copies /\ batch' = batch
      /\ (latest' = latest \/ latest' = None)
  OBVIOUS
<1>2. \A u, v : Keeps(u, v) => Keeps(u, v)'
  BY <1>1 DEF Keeps
<1>3. WorkKept(gpu, efb, memory)'
  BY <1>1 DEF Kept
<1>4. /\ \A d \in Dest : copies[d] # None => Keeps(copies[d].target, copies[d].image)
      /\ latest # None => Keeps(latest.target, latest.image)
      /\ \A i \in DOMAIN batch : batch[i].from # None => Keeps(batch[i].from, batch[i].image)
  BY DEF Kept
<1>5. \A d \in Dest : copies'[d] # None => Keeps(copies[d].target, copies[d].image)'
  BY <1>1, <1>4 DEF Keeps
<1>6. latest' # None => Keeps(latest.target, latest.image)'
  BY <1>1, <1>4 DEF Keeps
<1>7. \A i \in DOMAIN batch' : batch'[i].from # None => Keeps(batch[i].from, batch[i].image)'
  BY <1>1, <1>4 DEF Keeps
<1> QED BY <1>3, <1>5, <1>6, <1>7 DEF Kept

\* Outside the end of a frame no present is under way, unless one has failed.
LEMMA NoPresents ==
    ASSUME Presented, ~failed, call.op # "end" \/ call.at # "blits"
    PROVE  \A i \in DOMAIN gpu : gpu[i].kind # "present"
BY DEF Presented

LEMMA QuietPresented ==
    ASSUME Presented, gpu' = gpu, failed => failed', call.op # "end" \/ call.at # "blits" \/ failed',
           call'.op = "end" => call'.at \notin {"blits", "flip"}
    PROVE  Presented'
BY DEF Presented

LEMMA DrawKeeps ==
    ASSUME IInv, NEW tex \in Dest \union {None}, Draw(tex)
    PROVE  IInv'
<1>1. /\ TypeOK /\ CallOk /\ Published /\ JobsOk /\ Joined /\ Kept /\ Presented /\ Served
      /\ call = Idle /\ ~closed /\ stamp < MaxStamp /\ (tex # None => copies[tex] # None)
      /\ fifo' = Append(fifo, [stamp |-> stamp + 1, tex |-> tex])
      /\ stamp' = stamp + 1
      /\ UNCHANGED <<batch, gpu, memory, efb, back, copies, due, pool, latest, lingering, core,
                     inFrame, failed, closed, broken, call, output>>
  BY DEF IInv, Draw, Ready, gpuSide, copySide, display, status
<1>2. stamp \in Image /\ stamp \in Nat /\ core \in Nat /\ stamp + 1 \in Image /\ efb \in 0 .. stamp
  BY <1>1, WorkFacts, NewJobs
<1> DEFINE c == [stamp |-> stamp + 1, tex |-> tex]
           S == [stamp : Image, tex : Dest \union {None}]
<1>3. c \in S /\ fifo \in Seq(S) /\ c.stamp = stamp + 1 /\ c.tex = tex
  BY <1>1, <1>2 DEF TypeOK
<1>4. /\ fifo' \in Seq(S) /\ Len(fifo') = Len(fifo) + 1 /\ Len(fifo) \in Nat
      /\ DOMAIN fifo = 1 .. Len(fifo) /\ DOMAIN fifo' = 1 .. Len(fifo) + 1
      /\ \A i \in 1 .. Len(fifo) : fifo'[i] = fifo[i]
      /\ fifo'[Len(fifo) + 1] = c
  <2>0. fifo' = Append(fifo, c)
    BY <1>1
  <2> HIDE DEF c, S
  <2>1. /\ fifo' \in Seq(S) /\ Len(fifo') = Len(fifo) + 1
        /\ \A i \in 1 .. Len(fifo) : fifo'[i] = fifo[i]
        /\ fifo'[Len(fifo) + 1] = c
    BY <1>3, <2>0, AppendProperties
  <2>2. Len(fifo) \in Nat /\ DOMAIN fifo = 1 .. Len(fifo) /\ DOMAIN fifo' = 1 .. Len(fifo')
    BY <1>3, <2>1, LenProperties
  <2> QED BY <2>1, <2>2
<1>5. \A i \in DOMAIN fifo' : (i \in DOMAIN fifo /\ fifo'[i] = fifo[i]) \/ fifo'[i] = c
  BY <1>4
<1>6. TypeOK'
  BY <1>1, <1>2, <1>4 DEF TypeOK
<1>7. CallOk'
  BY <1>1 DEF CallOk, Idle
<1>8. Published'
  <2>1. \A i \in DOMAIN fifo' : fifo'[i].tex # None => copies[fifo'[i].tex] # None
    BY <1>1, <1>3, <1>5 DEF Published
  <2> QED BY <1>1, <2>1 DEF Published
<1>9. JobsOk'
  <2>1. stamp <= stamp + 1
    BY <1>2
  <2>2. batch \in Seq(DrawJobs(stamp + 1, core)) /\ gpu \in Seq(AllJobs(stamp + 1, core))
    BY <1>1, <1>2, <2>1, JobsGrow, SeqMonotonic DEF JobsOk
  <2>3. \A i \in DOMAIN fifo' : fifo'[i].stamp <= stamp + 1
    <3>1. \A i \in DOMAIN fifo : fifo[i].stamp \in Nat /\ fifo[i].stamp <= stamp
      <4>1. \A i \in DOMAIN fifo : fifo[i] \in S
        <5> HIDE DEF S
        <5> QED BY <1>3, <1>4, ElementOfSeq
      <4> QED BY <1>1, <4>1, FrameAssumption DEF JobsOk, Image
    <3> QED BY <1>2, <1>3, <1>5, <3>1
  <2>4. efb <= stamp + 1
    BY <1>2
  <2> QED BY <1>1, <2>2, <2>3, <2>4 DEF JobsOk
<1>10. Joined'
  BY <1>1 DEF Joined, Unfinished, Idle
<1>11. Kept'
  BY <1>1, QuietKept
<1>12. Presented'
  BY <1>1, QuietPresented DEF Idle
<1>13. Served'
  BY <1>1 DEF Served, Idle
<1> QED BY <1>6, <1>7, <1>8, <1>9, <1>10, <1>11, <1>12, <1>13 DEF IInv

LEMMA DrainKeeps ==
    ASSUME IInv, Drain
    PROVE  IInv'
<1>1. /\ TypeOK /\ CallOk /\ Published /\ JobsOk /\ Joined /\ Kept /\ Presented /\ Served
      /\ call = Idle /\ ~closed /\ inFrame
      /\ fifo' = <<>> /\ batch' = DrawsSoFar
      /\ UNCHANGED <<gpu, memory, efb, back, copies, due, pool, latest, lingering, core,
                     inFrame, failed, closed, broken, stamp, call, output>>
  BY DEF IInv, Drain, Drawing, Ready, gpuSide, copySide, display, status
<1>2. DrawsSoFar \in Seq(DrawJobs(stamp, core)) /\ DrawsSoFar \in Seq(Job) /\ DOMAIN <<>> = {}
  BY <1>1, WorkFacts
<1>3. TypeOK'
  BY <1>1, <1>2, EmptySeq DEF TypeOK
<1>4. CallOk'
  BY <1>1 DEF CallOk, Idle
<1>5. Published'
  BY <1>1, <1>2 DEF Published
<1>6. JobsOk'
  BY <1>1, <1>2 DEF JobsOk
<1>7. Joined'
  BY <1>1 DEF Joined, Unfinished, Idle, CallOk
<1>8. Kept'
  <2>1. \A u, v : Keeps(u, v) => Keeps(u, v)'
    BY <1>1 DEF Keeps
  <2>2. WorkKept(gpu, efb, memory)'
    BY <1>1 DEF Kept
  <2>3. \A d \in Dest : copies'[d] # None => Keeps(copies[d].target, copies[d].image)'
    BY <1>1 DEF Keeps, Kept
  <2>4. latest' # None => Keeps(latest.target, latest.image)'
    BY <1>1 DEF Keeps, Kept
  <2>5. \A i \in DOMAIN batch' : batch'[i].from # None => Keeps(batch[i].from, batch[i].image)'
    BY <1>1, DrawsPromised DEF Keeps
  <2> QED BY <2>2, <2>3, <2>4, <2>5 DEF Kept
<1>9. Presented'
  BY <1>1, QuietPresented DEF Idle
<1>10. Served'
  BY <1>1 DEF Served, Idle
<1> QED BY <1>3, <1>4, <1>5, <1>6, <1>7, <1>8, <1>9, <1>10 DEF IInv

\* Submitting the open batch, with the FIFO's draws or without, changes nothing that
\* is promised.
LEMMA Submits ==
    ASSUME TypeOK, Published, JobsOk, Kept, Presented, NEW d, d \in {batch, DrawsSoFar},
           gpu' = gpu \o d, batch' = <<>>, fifo' \in {fifo, <<>>},
           UNCHANGED <<stamp, core, efb, memory, copies, latest, due>>
    PROVE  /\ gpu' \in Seq(Job) /\ batch' \in Seq(Job)
           /\ fifo' \in Seq([stamp : Image, tex : Dest \union {None}])
           /\ \A k \in DOMAIN gpu' : (k \in DOMAIN gpu /\ gpu'[k] = gpu[k]) \/ gpu'[k].kind = "draw"
           /\ Published' /\ JobsOk' /\ Kept'
<1>1. /\ d \in Seq(DrawJobs(stamp, core)) /\ d \in Seq(Job) /\ gpu \in Seq(Job)
      /\ stamp \in Image /\ core \in Nat
  BY WorkFacts DEF JobsOk
<1>2. gpu' \in Seq(Job)
  BY <1>1, ConcatProperties
<1>3. batch' \in Seq(Job) /\ fifo' \in Seq([stamp : Image, tex : Dest \union {None}]) /\ DOMAIN <<>> = {}
  <2> DEFINE S == [stamp : Image, tex : Dest \union {None}]
  <2>1. <<>> \in Seq(Job) /\ <<>> \in Seq(S) /\ DOMAIN <<>> = {}
    <3> HIDE DEF S
    <3> QED BY EmptySeq
  <2> QED BY <2>1 DEF TypeOK
<1>4. ASSUME NEW k \in DOMAIN gpu'
      PROVE  (k \in DOMAIN gpu /\ gpu'[k] = gpu[k]) \/ gpu'[k].kind = "draw"
  <2>1. \A i \in DOMAIN d : d[i].kind = "draw"
    <3>1. \A i \in DOMAIN d : d[i] \in DrawJobs(stamp, core)
      BY <1>1, LenProperties, ElementOfSeq
    <3> QED BY <3>1 DEF DrawJobs
  <2> QED BY <1>1, <2>1, ConcatElements
<1>5. Published'
  BY <1>3 DEF Published
<1>6. JobsOk'
  <2>1. d \in Seq(AllJobs(stamp, core))
    BY <1>1, JobFacts, SeqMonotonic
  <2>2. gpu' \in Seq(AllJobs(stamp, core))
    BY <2>1, ConcatProperties DEF JobsOk
  <2>3. batch' \in Seq(DrawJobs(stamp, core))
    BY EmptySeq
  <2>4. stamp' = stamp /\ core' = core /\ efb' = efb
    OBVIOUS
  <2>5. \A i \in DOMAIN fifo' : fifo'[i].stamp <= stamp
    BY <1>3 DEF JobsOk
  <2> QED BY <2>2, <2>3, <2>4, <2>5 DEF JobsOk
<1>7. Kept'
  <2>1. WorkKept(gpu \o d, efb, memory) /\ \A u, v : Keeps(u, v) => Promised(gpu \o d, efb, memory, u, v)
    BY SoFarKept
  <2>2. \A u, v : Keeps(u, v) => Keeps(u, v)'
    BY <2>1 DEF Keeps
  <2>3. WorkKept(gpu, efb, memory)'
    BY <2>1
  <2>4. \A e \in Dest : copies'[e] # None => Keeps(copies[e].target, copies[e].image)'
    BY <2>1 DEF Keeps, Kept
  <2>5. latest' # None => Keeps(latest.target, latest.image)'
    BY <2>1 DEF Keeps, Kept
  <2>6. \A i \in DOMAIN batch' : batch'[i].from # None => Keeps(batch[i].from, batch[i].image)'
    BY <1>3
  <2> QED BY <2>3, <2>4, <2>5, <2>6 DEF Kept
<1> QED BY <1>2, <1>3, <1>4, <1>5, <1>6, <1>7

LEMMA SubmitBatchKeeps ==
    ASSUME IInv, SubmitBatch
    PROVE  IInv'
<1>1. /\ TypeOK /\ CallOk /\ Published /\ JobsOk /\ Joined /\ Kept /\ Presented /\ Served
      /\ call = Idle /\ ~closed /\ inFrame
      /\ gpu' = gpu \o batch /\ batch' = <<>>
      /\ UNCHANGED <<fifo, memory, efb, back, copies, due, pool, latest, lingering, core,
                     inFrame, failed, closed, broken, stamp, call, output>>
  BY DEF IInv, SubmitBatch, Drawing, Ready, gpuSide, copySide, display, status
<1>2. /\ gpu' \in Seq(Job) /\ batch' \in Seq(Job)
      /\ \A k \in DOMAIN gpu' : (k \in DOMAIN gpu /\ gpu'[k] = gpu[k]) \/ gpu'[k].kind = "draw"
      /\ Published' /\ JobsOk' /\ Kept'
  BY <1>1, Submits
<1>3. TypeOK'
  BY <1>1, <1>2 DEF TypeOK
<1>4. CallOk'
  BY <1>1 DEF CallOk, Idle
<1>5. Joined'
  BY <1>1 DEF Joined, CallOk, Idle
<1>6. Presented'
  <2>1. \A k \in DOMAIN gpu : gpu[k].kind # "present"
    BY <1>1, NoPresents DEF CallOk, Idle
  <2> QED BY <1>1, <1>2, <2>1 DEF Presented, Idle
<1>7. Served'
  BY <1>1 DEF Served, Idle
<1> QED BY <1>2, <1>3, <1>4, <1>5, <1>6, <1>7 DEF IInv

LEMMA CopyDisplayKeeps ==
    ASSUME IInv, NEW clear \in BOOLEAN, CopyDisplay(clear)
    PROVE  IInv'
<1>1. /\ TypeOK /\ CallOk /\ Published /\ JobsOk /\ Joined /\ Kept /\ Presented /\ Served
      /\ call = Idle /\ ~closed /\ inFrame /\ stamp < MaxStamp
      /\ gpu' = gpu \o DrawsSoFar /\ batch' = <<>> /\ fifo' = <<>>
      /\ call' = [op |-> "display", at |-> "draws", dest |-> None, clear |-> clear]
      /\ UNCHANGED <<memory, efb, back, copies, due, pool, latest, lingering, core,
                     inFrame, failed, closed, broken, stamp, output>>
  BY DEF IInv, CopyDisplay, Working, Drawing, Ready, gpuSide, copySide, display, status
<1>2. /\ gpu' \in Seq(Job) /\ batch' \in Seq(Job)
      /\ fifo' \in Seq([stamp : Image, tex : Dest \union {None}])
      /\ \A k \in DOMAIN gpu' : (k \in DOMAIN gpu /\ gpu'[k] = gpu[k]) \/ gpu'[k].kind = "draw"
      /\ Published' /\ JobsOk' /\ Kept'
  BY <1>1, Submits
<1>3. TypeOK'
  BY <1>1, <1>2 DEF TypeOK
<1>4. CallOk'
  BY <1>1 DEF CallOk, Calls, Drained
<1>5. Joined'
  BY <1>1 DEF Joined, CallOk
<1>6. Presented'
  <2>1. \A k \in DOMAIN gpu : gpu[k].kind # "present"
    BY <1>1, NoPresents DEF CallOk, Idle
  <2> QED BY <1>1, <1>2, <2>1 DEF Presented
<1>7. Served'
  BY <1>1 DEF Served
<1> QED BY <1>2, <1>3, <1>4, <1>5, <1>6, <1>7 DEF IInv

LEMMA EndKeeps ==
    ASSUME IInv, End
    PROVE  IInv'
<1>1. /\ TypeOK /\ CallOk /\ Published /\ JobsOk /\ Joined /\ Kept /\ Presented /\ Served
      /\ call = Idle /\ ~closed /\ inFrame
      /\ call' = [Idle EXCEPT !.op = "end", !.at = "draws"]
      /\ UNCHANGED <<memory, efb, back, copies, due, pool, latest, lingering, core,
                     inFrame, failed, closed, broken, stamp, output>>
      /\ \/ gpu' = gpu \o DrawsSoFar /\ fifo' = <<>> /\ batch' = <<>>
         \/ "draws" \in broken /\ UNCHANGED <<fifo, batch, gpu>>
  BY DEF IInv, End, Drawing, Ready, gpuSide, copySide, display, status
<1>2. /\ gpu' \in Seq(Job) /\ batch' \in Seq(Job)
      /\ fifo' \in Seq([stamp : Image, tex : Dest \union {None}])
      /\ \A k \in DOMAIN gpu' : (k \in DOMAIN gpu /\ gpu'[k] = gpu[k]) \/ gpu'[k].kind = "draw"
      /\ Published' /\ JobsOk' /\ Kept'
  <2>1. CASE gpu' = gpu \o DrawsSoFar /\ fifo' = <<>> /\ batch' = <<>>
    BY <1>1, <2>1, Submits
  <2>2. CASE UNCHANGED <<fifo, batch, gpu>>
    <3>1. Kept'
      BY <1>1, <2>2, QuietKept
    <3>2. Published' /\ JobsOk'
      BY <1>1, <2>2 DEF Published, JobsOk
    <3> QED BY <1>1, <2>2, <3>1, <3>2 DEF TypeOK
  <2> QED BY <1>1, <2>1, <2>2
<1>3. TypeOK'
  BY <1>1, <1>2 DEF TypeOK, Idle
<1>4. CallOk'
  BY <1>1 DEF CallOk, Calls, Drained, Idle
<1>5. Joined'
  BY <1>1 DEF Joined, CallOk, Idle
<1>6. Presented'
  <2>1. \A k \in DOMAIN gpu : gpu[k].kind # "present"
    BY <1>1, NoPresents DEF CallOk, Idle
  <2> QED BY <1>1, <1>2, <2>1 DEF Presented, Idle
<1>7. Served'
  BY <1>1 DEF Served, Idle
<1> QED BY <1>2, <1>3, <1>4, <1>5, <1>6, <1>7 DEF IInv

LEMMA FinishDrawsKeeps ==
    ASSUME IInv, FinishDraws
    PROVE  IInv'
<1>1. /\ TypeOK /\ CallOk /\ Published /\ JobsOk /\ Joined /\ Kept /\ Presented /\ Served
      /\ call.at = "joining" /\ call \in Calls
      /\ call' = [call EXCEPT !.at = "draws"]
      /\ UNCHANGED <<fifo, memory, efb, back, copies, due, pool, latest, lingering, core,
                     inFrame, failed, closed, broken, stamp, output>>
      /\ \/ "draws" \notin broken /\ gpu' = gpu \o batch /\ batch' = <<>>
         \/ "draws" \in broken /\ UNCHANGED <<batch, gpu>>
  BY DEF IInv, CallOk, FinishDraws, gpuSide, copySide, display, status
<1>2. /\ gpu' \in Seq(Job) /\ batch' \in Seq(Job)
      /\ \A k \in DOMAIN gpu' : (k \in DOMAIN gpu /\ gpu'[k] = gpu[k]) \/ gpu'[k].kind = "draw"
      /\ Published' /\ JobsOk' /\ Kept'
  <2>1. CASE gpu' = gpu \o batch /\ batch' = <<>>
    BY <1>1, <2>1, Submits
  <2>2. CASE UNCHANGED <<batch, gpu>>
    <3>1. Kept'
      BY <1>1, <2>2, QuietKept
    <3>2. Published' /\ JobsOk'
      BY <1>1, <2>2 DEF Published, JobsOk
    <3> QED BY <1>1, <2>2, <3>1, <3>2 DEF TypeOK
  <2> QED BY <1>1, <2>1, <2>2
<1>3. /\ call.op \in {"begin", "close"} /\ call'.op = call.op /\ call'.at = "draws" /\ call' \in Calls
      /\ call'.dest = call.dest /\ call'.clear = call.clear /\ call # Idle
  BY <1>1 DEF CallOk, Calls, Idle
<1>4. TypeOK'
  BY <1>1, <1>2, <1>3 DEF TypeOK
<1>5. CallOk'
  BY <1>1, <1>3 DEF CallOk
<1>6. Joined'
  <2>1. core = 0 => gpu' = gpu /\ batch' = batch
    <3>1. core = 0 => gpu \o batch = gpu
      BY <1>1, ConcatEmptySeq DEF Joined, TypeOK
    <3> QED BY <1>1, <3>1 DEF Joined
  <2>2. call.op = "close" => ~Unfinished(Blits)'
    BY <1>1, <1>2 DEF Joined, Unfinished, Blits
  <2>3. (core = 0 => batch = <<>> /\ ~Unfinished(Draws))'
    BY <1>1, <2>1 DEF Joined, Unfinished
  <2>4. "draws" \notin broken => batch' = <<>>
    BY <1>1
  <2> QED BY <1>1, <1>3, <2>2, <2>3, <2>4 DEF Joined
<1>7. Presented'
  <2>1. \A k \in DOMAIN gpu : gpu[k].kind # "present" \/ failed
    BY <1>1, <1>3 DEF Presented
  <2> QED BY <1>1, <1>2, <1>3, <2>1 DEF Presented
<1>8. Served'
  BY <1>1, <1>3 DEF Served
<1> QED BY <1>2, <1>4, <1>5, <1>6, <1>7, <1>8 DEF IInv

\* What the jobs are does not depend on the call.
LEMMA QuietJobs ==
    ASSUME Published, JobsOk, fifo' \in {fifo, <<>>}, due' \subseteq due,
           UNCHANGED <<batch, gpu, efb, copies, core, stamp>>
    PROVE  Published' /\ JobsOk'
<1>1. DOMAIN <<>> = {}
  OBVIOUS
<1> QED BY <1>1 DEF Published, JobsOk

LEMMA CheckPoolKeeps ==
    ASSUME IInv, CheckPool
    PROVE  IInv'
<1>1. /\ TypeOK /\ CallOk /\ Published /\ JobsOk /\ Joined /\ Kept /\ Presented /\ Served
      /\ call.at = "pool" /\ call \in Calls
      /\ call' = [call EXCEPT !.at = IF PoolReady THEN "take" ELSE "blits"]
      /\ UNCHANGED <<fifo, batch, gpu, memory, efb, back, copies, due, pool, latest, lingering, core,
                     inFrame, failed, closed, broken, stamp, output>>
  BY DEF IInv, CallOk, CheckPool, gpuSide, copySide, display, status
<1>2. /\ call.op = "display" /\ call'.op = "display" /\ call' \in Calls /\ call # Idle
      /\ call'.dest = call.dest /\ call'.clear = call.clear
      /\ call'.at \in {"take", "blits"} /\ (call'.at = "take" => PoolReady)
  BY <1>1 DEF CallOk, Calls, Idle
<1>3. TypeOK'
  BY <1>1, <1>2 DEF TypeOK
<1>4. CallOk'
  BY <1>1, <1>2 DEF CallOk, Drained
<1>5. Published' /\ JobsOk'
  BY <1>1, QuietJobs
<1>6. Joined'
  BY <1>1, <1>2 DEF Joined, Unfinished
<1>7. Kept'
  BY <1>1, QuietKept
<1>8. Presented'
  BY <1>1, <1>2, QuietPresented
<1>9. Served'
  BY <1>1, <1>2 DEF Served, PoolReady, PoolFull, FreeDisplays, InUse
<1> QED BY <1>3, <1>4, <1>5, <1>6, <1>7, <1>8, <1>9 DEF IInv

LEMMA ReadCopyKeeps ==
    ASSUME IInv, NEW d \in Dest, ReadCopy(d)
    PROVE  IInv'
<1>1. /\ TypeOK /\ CallOk /\ Published /\ JobsOk /\ Joined /\ Kept /\ Presented /\ Served
      /\ call = Idle /\ ~closed /\ d \in due
      /\ call' = [op |-> "read", at |-> "blits", dest |-> d, clear |-> FALSE]
      /\ UNCHANGED <<fifo, batch, gpu, memory, efb, back, copies, due, pool, latest, lingering, core,
                     inFrame, failed, closed, broken, stamp, output>>
  BY DEF IInv, ReadCopy, Ready, gpuSide, copySide, display, status
<1>3. TypeOK'
  BY <1>1 DEF TypeOK
<1>4. CallOk'
  BY <1>1 DEF CallOk, Calls
<1>5. Published' /\ JobsOk'
  BY <1>1, QuietJobs
<1>6. Joined'
  BY <1>1 DEF Joined, Unfinished
<1>7. Kept'
  BY <1>1, QuietKept
<1>8. Presented'
  BY <1>1, QuietPresented DEF Idle
<1>9. Served'
  BY <1>1 DEF Served
<1> QED BY <1>3, <1>4, <1>5, <1>6, <1>7, <1>8, <1>9 DEF IInv

LEMMA EncodeKeeps ==
    ASSUME IInv, Encode
    PROVE  IInv'
<1>1. /\ TypeOK /\ CallOk /\ Published /\ JobsOk /\ Joined /\ Kept /\ Presented /\ Served
      /\ call.at = "encode" /\ call' = Idle
      /\ output' = memory[copies[call.dest].target] /\ due' = due \ {call.dest}
      /\ UNCHANGED <<fifo, batch, gpu, memory, efb, back, copies, pool, latest, lingering, core,
                     inFrame, failed, closed, broken, stamp>>
  BY DEF IInv, Encode, Return, gpuSide, display, status
<1>2. call.op = "read" /\ call.dest \in due
  BY <1>1 DEF CallOk, Calls, Idle
<1>3. TypeOK'
  <2>1. call.dest \in Dest /\ copies[call.dest] # None
    BY <1>1, <1>2 DEF TypeOK, Published
  <2>2. copies[call.dest].target \in Texture
    BY <1>1, <2>1 DEF Published
  <2>3. output' \in Image
    BY <1>1, <2>2 DEF TypeOK
  <2> QED BY <1>1, <2>3 DEF TypeOK, Idle
<1>4. CallOk'
  BY <1>1, <1>2 DEF CallOk, Calls, Idle
<1>5. Published' /\ JobsOk'
  BY <1>1, QuietJobs
<1>6. Joined'
  BY <1>1 DEF Joined, Unfinished, Idle
<1>7. Kept'
  BY <1>1, QuietKept
<1>8. Presented'
  BY <1>1, <1>2, QuietPresented DEF Idle
<1>9. Served'
  BY <1>1 DEF Served, Idle
<1> QED BY <1>3, <1>4, <1>5, <1>6, <1>7, <1>8, <1>9 DEF IInv

LEMMA BeginKeeps ==
    ASSUME IInv, NEW fresh \in BOOLEAN, Begin(fresh)
    PROVE  IInv'
<1>0. (core = 0 => fresh)
  BY DEF Begin
<1>1. /\ TypeOK /\ CallOk /\ Published /\ JobsOk /\ Joined /\ Kept /\ Presented /\ Served
      /\ call = Idle /\ ~closed /\ ~inFrame /\ ~failed /\ stamp < MaxStamp
      /\ call' = [Idle EXCEPT !.op = "begin",
                              !.at = IF ~fresh THEN "fill" ELSE IF core = 0 THEN "core" ELSE "joining"]
      /\ UNCHANGED <<fifo, batch, gpu, memory, efb, back, copies, due, pool, latest, lingering, core,
                     inFrame, failed, closed, broken, stamp, output>>
  BY DEF IInv, Begin, Ready, gpuSide, copySide, display, status
<1>2. /\ call'.op = "begin" /\ call'.at \in {"fill", "core", "joining"} /\ call' \in Calls
      /\ call'.dest = None /\ call'.clear = FALSE /\ (call'.at = "core" => core = 0)
      /\ (call'.at = "fill" => core > 0)
  <2> DEFINE a == IF ~fresh THEN "fill" ELSE IF core = 0 THEN "core" ELSE "joining"
  <2>1. /\ a \in {"fill", "core", "joining"} /\ call' = [Idle EXCEPT !.op = "begin", !.at = a]
        /\ (a = "core" => core = 0) /\ (a = "fill" => core # 0) /\ core \in Nat
    BY <1>1, <1>0 DEF TypeOK
  <2> HIDE DEF a
  <2>2. /\ call'.op = "begin" /\ call'.at = a /\ call' \in Calls
        /\ call'.dest = None /\ call'.clear = FALSE
    BY <2>1 DEF Calls, Idle
  <2> QED BY <2>1, <2>2
<1>3. TypeOK'
  BY <1>1, <1>2 DEF TypeOK
<1>4. CallOk'
  BY <1>1, <1>2 DEF CallOk
<1>5. Published' /\ JobsOk'
  BY <1>1, QuietJobs
<1>6. Joined'
  BY <1>1, <1>2 DEF Joined, Unfinished
<1>7. Kept'
  BY <1>1, QuietKept
<1>8. Presented'
  BY <1>1, <1>2, QuietPresented DEF Idle
<1>9. Served'
  BY <1>1, <1>2 DEF Served
<1> QED BY <1>3, <1>4, <1>5, <1>6, <1>7, <1>8, <1>9 DEF IInv

LEMMA NewCoreKeeps ==
    ASSUME IInv, NewCore
    PROVE  IInv'
<1>1. /\ TypeOK /\ CallOk /\ Published /\ JobsOk /\ Joined /\ Kept /\ Presented /\ Served
      /\ call.at = "core" /\ call \in Calls
      /\ core' = core + 1 /\ pool' = {} /\ latest' = None
      /\ call' = [call EXCEPT !.at = "fill"]
      /\ UNCHANGED <<fifo, batch, gpu, memory, efb, back, copies, due, lingering,
                     inFrame, failed, closed, broken, stamp, output>>
  BY DEF IInv, CallOk, NewCore, gpuSide, copySide
<1>2. /\ call.op = "begin" /\ call'.op = "begin" /\ call'.at = "fill" /\ call' \in Calls
      /\ call'.dest = call.dest /\ call'.clear = call.clear /\ call # Idle
  BY <1>1 DEF CallOk, Calls, Idle
<1>3. TypeOK'
  BY <1>1, <1>2, FS_EmptySet, FrameAssumption DEF TypeOK
<1>4. CallOk'
  <2>1. core \in Nat /\ core + 1 > 0
    BY <1>1 DEF TypeOK
  <2> QED BY <1>1, <1>2, <2>1 DEF CallOk
<1>5. Published'
  BY <1>1 DEF Published
<1>6. batch = <<>> /\ ~Unfinished(Draws) /\ core \in Nat /\ stamp \in Image
  BY <1>1, WorkFacts DEF Joined
<1>7. JobsOk'
  <2>1. batch' \in Seq(DrawJobs(stamp, core + 1))
    BY <1>1, <1>6, EmptySeq
  <2>2. ASSUME NEW i \in DOMAIN gpu
        PROVE  gpu[i] \in AllJobs(stamp, core + 1)
    <3>1. gpu[i] \in AllJobs(stamp, core) /\ gpu[i].kind # "draw"
      BY <1>1, <1>6, WorkFacts DEF Unfinished, Draws
    <3>2. \A j \in DrawJobs(stamp, core) : j.kind = "draw"
      BY DEF DrawJobs
    <3> HIDE DEF DrawJobs, CopyJobs, ClearJobs, PresentJobs
    <3> QED BY <3>1, <3>2 DEF AllJobs
  <2>3. gpu' \in Seq(AllJobs(stamp, core + 1))
    <3>1. Len(gpu) \in Nat /\ gpu \in Seq(Job) /\ DOMAIN gpu = 1 .. Len(gpu)
      BY <1>1, WorkFacts
    <3> DEFINE S == AllJobs(stamp, core + 1)
    <3>2. \A i \in 1 .. Len(gpu) : gpu[i] \in S
      BY <2>2, <3>1
    <3>3. gpu \in Seq(S)
      <4> HIDE DEF S
      <4> QED BY <3>1, <3>2
    <3> QED BY <3>3, <1>1
  <2> QED BY <1>1, <2>1, <2>3 DEF JobsOk
<1>8. Joined'
  BY <1>1, <1>2, <1>6 DEF Joined, Unfinished
<1>9. Kept'
  BY <1>1, QuietKept
<1>10. Presented'
  BY <1>1, <1>2, QuietPresented
<1>11. Served'
  BY <1>1, <1>2, FS_EmptySet DEF Served
<1> QED BY <1>3, <1>4, <1>5, <1>7, <1>8, <1>9, <1>10, <1>11 DEF IInv

LEMMA FlipKeeps ==
    ASSUME IInv, Flip
    PROVE  IInv'
<1>1. /\ TypeOK /\ CallOk /\ Published /\ JobsOk /\ Joined /\ Kept /\ Presented /\ Served
      /\ call.at = "flip" /\ call' = Idle
      /\ output' = back /\ back' = 0 /\ inFrame' = FALSE
      /\ UNCHANGED <<fifo, batch, gpu, memory, efb, copies, due, pool, latest, lingering, core,
                     failed, closed, broken, stamp>>
  BY DEF IInv, Flip, Return, copySide, display
<1>2. call.op = "end" /\ ~closed
  BY <1>1 DEF CallOk, Calls, Idle
<1>3. TypeOK'
  <2>1. output' \in Image /\ back' \in Image
    BY <1>1, FrameAssumption DEF TypeOK, Image
  <2>2. call'.dest \in Dest \union {None} /\ call'.clear \in BOOLEAN
    BY <1>1 DEF Idle
  <2> QED BY <1>1, <2>1, <2>2 DEF TypeOK
<1>4. CallOk'
  BY <1>1, <1>2 DEF CallOk, Calls, Idle
<1>5. Published' /\ JobsOk'
  BY <1>1, QuietJobs
<1>6. Joined'
  BY <1>1 DEF Joined, Unfinished, Idle
<1>7. Kept'
  BY <1>1, QuietKept
<1>8. Presented'
  BY <1>1, <1>2, QuietPresented DEF Idle
<1>9. Served'
  BY <1>1 DEF Served, Idle
<1> QED BY <1>3, <1>4, <1>5, <1>6, <1>7, <1>8, <1>9 DEF IInv

LEMMA CloseKeeps ==
    ASSUME IInv, Close
    PROVE  IInv'
<1>1. /\ TypeOK /\ CallOk /\ Published /\ JobsOk /\ Joined /\ Kept /\ Presented /\ Served
      /\ call = Idle /\ ~closed /\ inFrame' = FALSE /\ fifo' \in {fifo, <<>>}
      /\ (call' = call \/ call' = [Idle EXCEPT !.op = "close", !.at = "blits"])
      /\ UNCHANGED <<batch, gpu, memory, efb, back, copies, due, pool, latest, lingering, core,
                     failed, closed, broken, stamp, output>>
  BY DEF IInv, Close, Ready, gpuSide, copySide, display
<1>2. /\ call' = Idle \/ (call'.op = "close" /\ call'.at = "blits")
      /\ call' \in Calls /\ call'.dest = None /\ call'.clear = FALSE
  <2>1. CASE call' = Idle
    BY <2>1 DEF Calls, Idle
  <2>2. CASE call' = [Idle EXCEPT !.op = "close", !.at = "blits"]
    BY <2>2 DEF Calls, Idle
  <2> QED BY <1>1, <2>1, <2>2
<1>3. TypeOK'
  <2> DEFINE S == [stamp : Image, tex : Dest \union {None}]
  <2>0. <<>> \in Seq(S)
    <3> HIDE DEF S
    <3> QED BY EmptySeq
  <2>1. fifo' \in Seq([stamp : Image, tex : Dest \union {None}])
    BY <1>1, <2>0 DEF TypeOK
  <2> QED BY <1>1, <1>2, <2>1 DEF TypeOK
<1>4. CallOk'
  BY <1>1, <1>2 DEF CallOk, Idle
<1>5. Published' /\ JobsOk'
  BY <1>1, QuietJobs
<1>6. Joined'
  BY <1>1, <1>2 DEF Joined, Unfinished, Idle
<1>7. Kept'
  BY <1>1, QuietKept
<1>8. Presented'
  BY <1>1, <1>2, QuietPresented DEF Idle
<1>9. Served'
  BY <1>1, <1>2 DEF Served, Idle
<1> QED BY <1>3, <1>4, <1>5, <1>6, <1>7, <1>8, <1>9 DEF IInv

LEMMA ReleaseKeeps ==
    ASSUME IInv, Release
    PROVE  IInv'
<1>1. /\ TypeOK /\ CallOk /\ Published /\ JobsOk /\ Joined /\ Kept /\ Presented /\ Served
      /\ call.at = "release" /\ call' = Idle /\ closed' = TRUE
      /\ pool' = {} /\ latest' = None
      /\ UNCHANGED <<fifo, batch, gpu, memory, efb, back, copies, due, lingering, core,
                     inFrame, failed, broken, stamp, output>>
  BY DEF IInv, Release, Return, gpuSide, copySide
<1>2. call.op = "close" /\ ~inFrame /\ gpu = <<>>
  BY <1>1 DEF CallOk, Calls, Idle, Joined
<1>3. TypeOK'
  BY <1>1, FS_EmptySet, FrameAssumption DEF TypeOK, Idle
<1>4. CallOk'
  BY <1>1, <1>2 DEF CallOk, Calls, Idle
<1>5. Published' /\ JobsOk'
  BY <1>1, QuietJobs
<1>6. Joined'
  BY <1>1 DEF Joined, Unfinished, Idle
<1>7. Kept'
  BY <1>1, QuietKept
<1>8. Presented'
  BY <1>1, <1>2, QuietPresented DEF Idle
<1>9. Served'
  BY <1>1, FS_EmptySet DEF Served, Idle
<1> QED BY <1>3, <1>4, <1>5, <1>6, <1>7, <1>8, <1>9 DEF IInv

LEMMA JoinDrawsKeeps ==
    ASSUME IInv, JoinDraws
    PROVE  IInv'
<1>1. /\ TypeOK /\ CallOk /\ Published /\ JobsOk /\ Joined /\ Kept /\ Presented /\ Served
      /\ call.at = "draws" /\ "draws" \notin broken /\ ~Unfinished(Draws) /\ call \in Calls
      /\ call' = [call EXCEPT !.at = AfterDraws[call.op]]
      /\ UNCHANGED <<fifo, batch, gpu, memory, efb, back, copies, due, pool, latest, lingering, core,
                     inFrame, failed, closed, broken, stamp, output>>
  BY DEF IInv, CallOk, JoinDraws, gpuSide, copySide, display, status
<1>2. /\ call.op \in {"display", "begin", "end", "close"} /\ call # Idle
      /\ call'.op = call.op /\ call' \in Calls /\ call'.dest = call.dest /\ call'.clear = call.clear
      /\ call.op = "display" => call'.at = "pool"
      /\ call.op = "begin" => call'.at = "core"
      /\ call.op = "end" => call'.at = "present"
      /\ call.op = "close" => call'.at = "release"
  <2>1. call.op \in {"display", "begin", "end", "close"} /\ call # Idle
    BY <1>1 DEF CallOk, Calls, Idle
  <2> QED BY <1>1, <2>1 DEF AfterDraws, Calls
<1>3. TypeOK'
  BY <1>1, <1>2 DEF TypeOK
<1>4. CallOk'
  BY <1>1, <1>2 DEF CallOk, Drained
<1>5. Published' /\ JobsOk'
  BY <1>1, QuietJobs
<1>6. call.op = "close" => gpu = <<>>
  <2>1. \A k \in DOMAIN gpu : gpu[k].kind \in {"draw", "copy", "clear", "present"}
    BY <1>1, WorkFacts, JobFacts
  <2>2. call.op = "close" => DOMAIN gpu = {}
    BY <1>1, <2>1 DEF Joined, Unfinished, Draws, Blits
  <2>3. Len(gpu) \in Nat /\ gpu \in Seq(Job) /\ DOMAIN gpu = 1 .. Len(gpu)
    BY <1>1, WorkFacts
  <2>4. DOMAIN gpu = {} => gpu = <<>>
    BY <2>3, EmptySeq
  <2> QED BY <2>2, <2>4
<1>7. Joined'
  BY <1>1, <1>2, <1>6 DEF Joined, Unfinished
<1>8. Kept'
  BY <1>1, QuietKept
<1>9. Presented'
  BY <1>1, <1>2, QuietPresented
<1>10. Served'
  BY <1>1, <1>2 DEF Served
<1> QED BY <1>3, <1>4, <1>5, <1>7, <1>8, <1>9, <1>10 DEF IInv

LEMMA JoinBlitsKeeps ==
    ASSUME IInv, JoinBlits
    PROVE  IInv'
<1>1. /\ TypeOK /\ CallOk /\ Published /\ JobsOk /\ Joined /\ Kept /\ Presented /\ Served
      /\ call.at = "blits" /\ ~Unfinished(Blits) /\ call \in Calls
      /\ call' = [call EXCEPT !.at = AfterBlits[call.op]]
      /\ lingering' = {}
      /\ UNCHANGED <<fifo, batch, gpu, memory, efb, back, copies, due, pool, latest, core,
                     inFrame, failed, closed, broken, stamp, output>>
  BY DEF IInv, CallOk, JoinBlits, BlitsJoined, gpuSide, copySide, display, status
<1>2. /\ call.op \in {"display", "end", "read", "close"} /\ call # Idle
      /\ call'.op = call.op /\ call' \in Calls /\ call'.dest = call.dest /\ call'.clear = call.clear
      /\ call.op = "display" => call'.at = "take"
      /\ call.op = "end" => call'.at = "flip"
      /\ call.op = "read" => call'.at = "encode"
      /\ call.op = "close" => call'.at = "joining"
  <2>1. call.op \in {"display", "end", "read", "close"} /\ call # Idle
    BY <1>1 DEF CallOk, Calls, Idle
  <2> QED BY <1>1, <2>1 DEF AfterBlits, Calls
<1>3. TypeOK'
  BY <1>1, <1>2 DEF TypeOK
<1>4. CallOk'
  BY <1>1, <1>2 DEF CallOk, Drained
<1>5. Published' /\ JobsOk'
  BY <1>1, QuietJobs
<1>7. Joined'
  BY <1>1, <1>2 DEF Joined, Unfinished
<1>8. Kept'
  BY <1>1, QuietKept
<1>9. Presented'
  <2>1. ~Unfinished({"present"}) /\ \A i \in DOMAIN gpu : gpu[i].kind # "present"
    BY <1>1 DEF Unfinished, Blits
  <2>2. call.op = "end" => back = Shown
    BY <1>1, <2>1 DEF Presented
  <2>3. Shown' = Shown
    BY <1>1 DEF Shown, Due, DrawsSoFar, Decoded, DrawJob
  <2> QED BY <1>1, <1>2, <2>1, <2>2, <2>3 DEF Presented
<1>10. Served'
  <2>1. call.op = "display" => PoolReady'
    <3>1. PoolFull => \E t \in pool : /\ latest # None => t # latest.target
                                      /\ \A k \in DOMAIN gpu : gpu[k].from # t /\ gpu[k].to # t
                                      /\ \A k \in DOMAIN batch : batch[k].from # t
      BY <1>1, JoinedPoolFree
    <3>2. ASSUME NEW t \in pool, latest # None => t # latest.target,
                 \A k \in DOMAIN gpu : gpu[k].from # t /\ gpu[k].to # t,
                 \A k \in DOMAIN batch : batch[k].from # t
          PROVE  t \in FreeDisplays'
      <4> DEFINE W == UNION {{gpu[i].from, gpu[i].to} : i \in DOMAIN gpu}
                 B == {batch[i].from : i \in DOMAIN batch}
      <4>1. InUse' = (W \union B) \union lingering'
        BY <1>1 DEF InUse
      <4>2. t \notin W /\ t \notin B
        BY <3>2
      <4>3. t \notin InUse'
        <5> HIDE DEF W, B
        <5> QED BY <4>1, <4>2, <1>1
      <4> QED BY <4>3, <3>2, <1>1 DEF FreeDisplays
    <3>3. PoolFull' = PoolFull
      BY <1>1 DEF PoolFull
    <3>4. PoolFull => FreeDisplays' # {}
      BY <3>1, <3>2
    <3> QED BY <3>3, <3>4 DEF PoolReady
  <2>2. call.op # "display" => call'.at # "take"
    BY <1>2
  <2> QED BY <1>1, <2>1, <2>2 DEF Served
<1> QED BY <1>3, <1>4, <1>5, <1>7, <1>8, <1>9, <1>10 DEF IInv

LEMMA CallFailsKeeps ==
    ASSUME IInv, CallFails
    PROVE  IInv'
<1>1. /\ TypeOK /\ CallOk /\ Published /\ JobsOk /\ Joined /\ Kept /\ Presented /\ Served
      /\ call.at \in {"draws", "blits", "core", "fill", "take", "present", "flip", "encode"}
      /\ failed' = (failed \/ call.op \in {"begin", "end", "close"})
      /\ inFrame' = (inFrame /\ call.op # "end")
      /\ call' = Idle /\ broken' \subseteq {"draws", "blits"}
      /\ UNCHANGED <<fifo, batch, gpu, memory, efb, back, copies, due, pool, latest, lingering, core,
                     closed, stamp, output>>
  <2>1. broken' \subseteq {"draws", "blits"}
    BY DEF CallFails, Timeout, IInv, TypeOK
  <2> QED BY <2>1 DEF IInv, CallFails, Return, gpuSide, copySide, display
<1>2. TypeOK'
  BY <1>1 DEF TypeOK, Idle
<1>3. ~closed /\ call # Idle
  BY <1>1 DEF CallOk, Idle
<1>4. CallOk'
  <2>1. inFrame' => core > 0 /\ ~failed' /\ ~closed
    BY <1>1, <1>3 DEF CallOk
  <2> QED BY <1>1, <1>3, <2>1 DEF CallOk, Calls, Idle
<1>5. Published' /\ JobsOk'
  BY <1>1, QuietJobs
<1>6. Joined'
  BY <1>1 DEF Joined, Unfinished, Idle
<1>7. Kept'
  BY <1>1, QuietKept
<1>8. Presented'
  BY <1>1, QuietPresented DEF Idle
<1>9. Served'
  BY <1>1 DEF Served, Idle
<1> QED BY <1>2, <1>4, <1>5, <1>6, <1>7, <1>8, <1>9 DEF IInv

LEMMA FillKeeps ==
    ASSUME IInv, Fill
    PROVE  IInv'
<1> DEFINE j == ClearJob(stamp + 1)
<1>1. /\ TypeOK /\ CallOk /\ Published /\ JobsOk /\ Joined /\ Kept /\ Presented /\ Served
      /\ call.at = "fill" /\ gpu' = Append(gpu, j) /\ stamp' = stamp + 1
      /\ latest' = None /\ inFrame' = TRUE /\ lingering' = {} /\ call' = Idle
      /\ UNCHANGED <<fifo, batch, memory, efb, back, copies, due, pool, core, failed, closed, broken, output>>
  BY DEF IInv, Fill, Return, gpuSide, copySide
<1>2. call.op = "begin" /\ ~failed /\ ~closed /\ ~inFrame /\ stamp < MaxStamp /\ core > 0
  BY <1>1 DEF CallOk, Calls, Idle
<1>3. /\ stamp \in Image /\ stamp \in Nat /\ core \in Nat /\ stamp + 1 \in Image /\ stamp <= stamp + 1
      /\ j \in AllJobs(stamp + 1, core) /\ j \in Job /\ gpu \in Seq(Job) /\ efb \in 0 .. stamp
  BY <1>1, <1>2, WorkFacts, NewJobs
<1>4. j.kind = "clear" /\ <<j>>[1] = j /\ DOMAIN <<j>> = {1}
  BY DEF ClearJob
<1> HIDE DEF j
<1>5. gpu' = gpu \o <<j>> /\ <<j>> \in Seq(Job) /\ <<j>> \in Seq(AllJobs(stamp + 1, core))
  BY <1>1, <1>3, AppendIsConcat
<1>6. gpu \in Seq(AllJobs(stamp + 1, core)) /\ batch \in Seq(DrawJobs(stamp + 1, core))
  BY <1>1, <1>3, JobsGrow, SeqMonotonic DEF JobsOk
<1>7. gpu' \in Seq(AllJobs(stamp + 1, core)) /\ gpu' \in Seq(Job)
  BY <1>3, <1>5, <1>6, ConcatProperties
<1>8. \A k \in DOMAIN gpu' : (k \in DOMAIN gpu /\ gpu'[k] = gpu[k]) \/ gpu'[k].kind = "clear"
  BY <1>3, <1>4, <1>5, ConcatElements
<1>9. TypeOK'
  BY <1>1, <1>3, <1>7 DEF TypeOK, Idle
<1>10. CallOk'
  BY <1>1, <1>2 DEF CallOk, Calls, Idle
<1>11. Published'
  BY <1>1 DEF Published
<1>12. JobsOk'
  <2>1. \A i \in DOMAIN fifo : fifo[i].stamp <= stamp + 1
    <3>1. \A i \in DOMAIN fifo : fifo[i].stamp \in Nat
      <4> DEFINE S == [stamp : Image, tex : Dest \union {None}]
      <4>1. \A i \in DOMAIN fifo : fifo[i] \in S
        <5>1. fifo \in Seq(S)
          BY <1>1 DEF TypeOK
        <5> HIDE DEF S
        <5> QED BY <5>1, LenProperties, ElementOfSeq
      <4> QED BY <4>1, FrameAssumption DEF Image
    <3> QED BY <1>1, <1>3, <3>1 DEF JobsOk
  <2>2. efb <= stamp + 1
    BY <1>3
  <2> QED BY <1>1, <1>6, <1>7, <2>1, <2>2 DEF JobsOk
<1>13. Joined'
  BY <1>1, <1>2 DEF Joined, Idle
<1>14. Kept'
  <2>1. WorkKept(gpu, efb, memory)
    BY <1>1 DEF Kept
  <2>2. WorkKept(gpu \o <<j>>, efb, memory)
        /\ \A u, v : Keeps(u, v) => Promised(gpu \o <<j>>, efb, memory, u, v)
    BY <2>1, <1>3, <1>4, <1>5, KeptWithoutCopies DEF Keeps
  <2>3. \A u, v : Keeps(u, v) => Keeps(u, v)'
    BY <2>2, <1>1, <1>5 DEF Keeps
  <2>4. WorkKept(gpu, efb, memory)'
    BY <2>2, <1>1, <1>5
  <2>5. \A d \in Dest : copies'[d] # None => Keeps(copies[d].target, copies[d].image)'
    BY <1>1, <1>5, <2>2 DEF Keeps, Kept
  <2>6. \A i \in DOMAIN batch' : batch'[i].from # None => Keeps(batch[i].from, batch[i].image)'
    BY <1>1, <1>5, <2>2 DEF Keeps, Kept
  <2> QED BY <1>1, <2>4, <2>5, <2>6 DEF Kept
<1>15. Presented'
  <2>1. \A k \in DOMAIN gpu : gpu[k].kind # "present"
    BY <1>1, <1>2, NoPresents
  <2> QED BY <1>1, <1>8, <2>1 DEF Presented, Idle
<1>16. Served'
  BY <1>1 DEF Served, Idle
<1> QED BY <1>9, <1>10, <1>11, <1>12, <1>13, <1>14, <1>15, <1>16 DEF IInv

LEMMA PresentKeeps ==
    ASSUME IInv, Present
    PROVE  IInv'
<1> DEFINE j == PresentJob(Source)
<1>1. /\ TypeOK /\ CallOk /\ Published /\ JobsOk /\ Joined /\ Kept /\ Presented /\ Served
      /\ call.at = "present" /\ call \in Calls /\ gpu' = Append(gpu, j)
      /\ lingering' = {} /\ call' = [call EXCEPT !.at = "blits"]
      /\ UNCHANGED <<fifo, batch, memory, efb, back, copies, due, pool, latest, core, inFrame,
                     failed, closed, broken, stamp, output>>
  BY DEF IInv, CallOk, Present, Source, gpuSide, copySide, display, status
<1>2. /\ call.op = "end" /\ call'.op = "end" /\ call'.at = "blits" /\ call' \in Calls /\ call # Idle
      /\ call'.dest = call.dest /\ call'.clear = call.clear
      /\ inFrame /\ ~failed /\ ~closed /\ Drained /\ core > 0
  BY <1>1 DEF CallOk, Calls, Idle
<1>3. /\ stamp \in Image /\ core \in Nat /\ gpu \in Seq(Job)
      /\ j \in AllJobs(stamp, core) /\ j \in Job /\ j.kind = "present" /\ j.from = Source
  <2>1. stamp \in Image /\ core \in Nat /\ gpu \in Seq(Job) /\ 0 \in Image
    BY <1>1, WorkFacts, FrameAssumption DEF Image
  <2>2. Source \in Display \union {Efb}
    BY <1>1 DEF Source, TypeOK
  <2>3. j \in PresentJobs /\ j.kind = "present" /\ j.from = Source
    BY <2>1, <2>2 DEF PresentJob, PresentJobs
  <2>4. j \in AllJobs(stamp, core)
    <3> HIDE DEF j, DrawJobs, CopyJobs, ClearJobs, PresentJobs
    <3> QED BY <2>3 DEF AllJobs
  <2> HIDE DEF j
  <2> QED BY <2>1, <2>3, <2>4, JobFacts
<1> HIDE DEF j
<1>4. <<j>>[1] = j /\ DOMAIN <<j>> = {1}
  OBVIOUS
<1>5. gpu' = gpu \o <<j>> /\ <<j>> \in Seq(Job) /\ <<j>> \in Seq(AllJobs(stamp, core))
  BY <1>1, <1>3, AppendIsConcat
<1>6. gpu' \in Seq(AllJobs(stamp, core)) /\ gpu' \in Seq(Job)
  BY <1>1, <1>3, <1>5, ConcatProperties DEF JobsOk
<1>7. /\ Len(gpu) \in Nat /\ DOMAIN gpu = 1 .. Len(gpu) /\ Len(gpu') = Len(gpu) + 1
      /\ DOMAIN gpu' = 1 .. Len(gpu) + 1 /\ gpu'[Len(gpu) + 1] = j
      /\ \A k \in DOMAIN gpu : gpu'[k] = gpu[k]
  <2>1. Len(gpu) \in Nat /\ DOMAIN gpu = 1 .. Len(gpu)
    BY <1>1, WorkFacts
  <2>2. /\ Len(gpu') = Len(gpu) + 1 /\ gpu'[Len(gpu) + 1] = j
        /\ \A k \in 1 .. Len(gpu) : gpu'[k] = gpu[k]
    BY <1>1, <1>3, AppendProperties
  <2>3. DOMAIN gpu' = 1 .. Len(gpu')
    BY <1>6, LenProperties
  <2> QED BY <2>1, <2>2, <2>3
<1>8. TypeOK'
  BY <1>1, <1>2, <1>6 DEF TypeOK
<1>9. CallOk'
  BY <1>1, <1>2 DEF CallOk, Drained
<1>10. Published' /\ JobsOk'
  BY <1>1, <1>6 DEF Published, JobsOk
<1>11. Joined'
  BY <1>1, <1>2 DEF Joined
<1>12. Kept'
  <2>1. WorkKept(gpu, efb, memory)
    BY <1>1 DEF Kept
  <2>2. WorkKept(gpu \o <<j>>, efb, memory)
        /\ \A u, v : Keeps(u, v) => Promised(gpu \o <<j>>, efb, memory, u, v)
    BY <2>1, <1>3, <1>4, <1>5, KeptWithoutCopies DEF Keeps
  <2>4. WorkKept(gpu, efb, memory)'
    BY <2>2, <1>1, <1>5
  <2>5. \A d \in Dest : copies'[d] # None => Keeps(copies[d].target, copies[d].image)'
    BY <1>1, <1>5, <2>2 DEF Keeps, Kept
  <2>6. \A i \in DOMAIN batch' : batch'[i].from # None => Keeps(batch[i].from, batch[i].image)'
    BY <1>1, <1>5, <2>2 DEF Keeps, Kept
  <2>7. latest' # None => Keeps(latest.target, latest.image)'
    BY <1>1, <1>5, <2>2 DEF Keeps, Kept
  <2> QED BY <2>4, <2>5, <2>6, <2>7 DEF Kept
<1>13. Presented'
  <2>1. \A k \in DOMAIN gpu : gpu[k].kind # "present"
    BY <1>1, <1>2, NoPresents
  <2>2. Source' = Source
    BY <1>1 DEF Source
  <2>3. \A k \in DOMAIN gpu' : gpu'[k].kind = "present" => k = Len(gpu') /\ gpu'[k].from = Source'
    BY <1>3, <1>7, <2>1, <2>2
  <2>4. Unfinished({"present"})'
    <3>1. Len(gpu) + 1 \in DOMAIN gpu' /\ gpu'[Len(gpu) + 1].kind = "present"
      BY <1>3, <1>7
    <3> QED BY <3>1 DEF Unfinished
  <2> QED BY <1>2, <2>3, <2>4 DEF Presented
<1>14. Served'
  BY <1>1, <1>2 DEF Served
<1> QED BY <1>8, <1>9, <1>10, <1>11, <1>12, <1>13, <1>14 DEF IInv

\* The work so far has the type of the work on the GPU.
LEMMA SoFarTyped ==
    ASSUME TypeOK, Published, JobsOk
    PROVE  /\ gpu \o DrawsSoFar \in Seq(AllJobs(stamp, core)) /\ gpu \o DrawsSoFar \in Seq(Job)
           /\ \A k \in DOMAIN (gpu \o DrawsSoFar) :
                \/ k \in DOMAIN gpu /\ (gpu \o DrawsSoFar)[k] = gpu[k]
                \/ (gpu \o DrawsSoFar)[k].kind = "draw"
<1>1. /\ stamp \in Image /\ core \in Nat /\ gpu \in Seq(Job) /\ DrawsSoFar \in Seq(Job)
      /\ DrawsSoFar \in Seq(DrawJobs(stamp, core)) /\ gpu \in Seq(AllJobs(stamp, core))
  BY WorkFacts DEF JobsOk
<1>2. DrawsSoFar \in Seq(AllJobs(stamp, core))
  BY <1>1, JobFacts, SeqMonotonic
<1>3. \A i \in DOMAIN DrawsSoFar : DrawsSoFar[i].kind = "draw"
  <2>1. \A i \in DOMAIN DrawsSoFar : DrawsSoFar[i] \in DrawJobs(stamp, core)
    BY <1>1, LenProperties, ElementOfSeq
  <2> QED BY <2>1 DEF DrawJobs
<1>4. gpu \o DrawsSoFar \in Seq(AllJobs(stamp, core))
  BY <1>1, <1>2, ConcatProperties
<1> QED BY <1>1, <1>3, <1>4, ConcatElements

\* With the FIFO and the batch empty and the count one higher, the work w is well typed.
LEMMA JobsOkAfter ==
    ASSUME TypeOK, Published, JobsOk, stamp < MaxStamp,
           gpu' \in Seq(AllJobs(stamp + 1, core)), batch' = <<>>, fifo' = <<>>,
           stamp' = stamp + 1, core' = core, efb' = efb
    PROVE  JobsOk' /\ gpu' \in Seq(Job) /\ batch' \in Seq(Job)
           /\ fifo' \in Seq([stamp : Image, tex : Dest \union {None}])
<1>1. stamp + 1 \in Image /\ stamp \in Nat /\ core \in Nat /\ efb \in 0 .. stamp
  BY WorkFacts, NewJobs
<1>2. \A S : <<>> \in Seq(S)
  BY EmptySeq
<1>3. DOMAIN <<>> = {} /\ efb <= stamp + 1
  BY <1>1
<1>4. gpu' \in Seq(Job)
  BY <1>1, JobFacts, SeqMonotonic
<1>5. batch' \in Seq(DrawJobs(stamp + 1, core)) /\ batch' \in Seq(Job)
  BY <1>2
<1>6. fifo' \in Seq([stamp : Image, tex : Dest \union {None}])
  BY <1>2
<1> QED BY <1>1, <1>3, <1>4, <1>5, <1>6 DEF JobsOk

LEMMA CopyTextureKeeps ==
    ASSUME IInv, NEW d \in Dest, NEW clear \in BOOLEAN, CopyTexture(d, clear)
    PROVE  IInv'
<1>0. PICK t \in FreeTextures :
        /\ gpu' = gpu \o DrawsSoFar \o <<CopyJob(t)>> \o ClearBehind(clear)
        /\ copies' = [copies EXCEPT ![d] = [target |-> t, image |-> Due]]
  BY DEF CopyTexture
<1> DEFINE s == gpu \o DrawsSoFar
           w == CopyBehind(s, t, clear)
<1>1. /\ TypeOK /\ CallOk /\ Published /\ JobsOk /\ Joined /\ Kept /\ Presented /\ Served
      /\ call = Idle /\ ~closed /\ inFrame /\ stamp < MaxStamp
      /\ batch' = <<>> /\ fifo' = <<>> /\ due' = due \union {d} /\ stamp' = stamp + 1
      /\ lingering' = {} /\ gpu' = w
      /\ UNCHANGED <<memory, efb, back, pool, latest, core, inFrame, failed, closed, broken, call, output>>
  BY <1>0 DEF IInv, CopyTexture, Working, Drawing, Ready, gpuSide, display, status, CopyBehind
<1>2. s \in Seq(AllJobs(stamp, core)) /\ s \in Seq(Job)
      /\ \A k \in DOMAIN s : (k \in DOMAIN gpu /\ s[k] = gpu[k]) \/ s[k].kind = "draw"
  BY <1>1, SoFarTyped
<1>3. /\ t \in Texture /\ t \in Texture \union Display
      /\ \A k \in DOMAIN s : s[k].from # t /\ s[k].to # t
      /\ \A e \in Dest : copies[e] # None => copies[e].target # t
      /\ latest # None => latest.target # t
  BY <1>1, FreeTextureFacts
<1>4. WorkKept(s, efb, memory) /\ \A u, v : Keeps(u, v) => Promised(s, efb, memory, u, v)
  BY <1>1, SoFarKept
<1>5. After(s, efb) = Due /\ Due \in Image
  BY <1>1, DueBound DEF Due
<1> HIDE DEF s
<1>6. /\ w \in Seq(AllJobs(stamp + 1, core))
      /\ \A k \in DOMAIN w : (k \in DOMAIN s /\ w[k] = s[k]) \/ w[k].kind \in {"copy", "clear"}
      /\ WorkKept(w, efb, memory) /\ Promised(w, efb, memory, t, Due)
      /\ \A u, v : u # t /\ Promised(s, efb, memory, u, v) => Promised(w, efb, memory, u, v)
  BY <1>1, <1>2, <1>3, <1>4, <1>5, CopyBehindFacts
<1> HIDE DEF w
<1> DEFINE c == [target |-> t, image |-> Due]
<1>7. c \in Held /\ c.target = t /\ c.image = Due /\ c # None
      /\ copies \in [Dest -> Held \union {None}] /\ copies' = [copies EXCEPT ![d] = c]
  BY <1>0, <1>1, <1>3, <1>5, FrameAssumption DEF Held, TypeOK
<1> HIDE DEF c
<1>8. /\ copies' \in [Dest -> Held \union {None}]
      /\ copies'[d] = c /\ \A e \in Dest : e # d => copies'[e] = copies[e]
  BY <1>7
<1>9. /\ JobsOk' /\ gpu' \in Seq(Job) /\ batch' \in Seq(Job)
      /\ fifo' \in Seq([stamp : Image, tex : Dest \union {None}]) /\ stamp + 1 \in Image
  BY <1>1, <1>6, JobsOkAfter, NewJobs
<1>10. TypeOK'
  BY <1>1, <1>8, <1>9 DEF TypeOK
<1>11. CallOk'
  BY <1>1 DEF CallOk, Idle
<1>12. Published'
  <2>1. \A e \in Dest : copies'[e] # None => copies'[e].target \in Texture
    BY <1>1, <1>3, <1>7, <1>8 DEF Published
  <2>2. \A e \in due' : copies'[e] # None
    BY <1>1, <1>7, <1>8 DEF Published, TypeOK
  <2>3. DOMAIN fifo' = {}
    BY <1>1
  <2> QED BY <2>1, <2>2, <2>3 DEF Published
<1>13. Joined'
  BY <1>1 DEF Joined, CallOk, Idle
<1>14. Kept'
  <2>1. WorkKept(gpu, efb, memory)'
    BY <1>1, <1>6
  <2>2. \A u, v : u # t /\ Keeps(u, v) => Keeps(u, v)'
    BY <1>1, <1>4, <1>6 DEF Keeps
  <2>3. ASSUME NEW e \in Dest, copies'[e] # None
        PROVE  Keeps(copies[e].target, copies[e].image)'
    <3>1. CASE e = d
      BY <3>1, <1>1, <1>6, <1>7, <1>8 DEF Keeps
    <3>2. CASE e # d
      <4>1. copies'[e] = copies[e] /\ copies[e] # None /\ copies[e].target # t
        BY <3>2, <1>3, <1>8, <2>3
      <4>2. Promised(w, efb, memory, copies[e].target, copies[e].image)
        BY <4>1, <1>1, <1>4, <1>6 DEF Kept
      <4> QED BY <4>1, <4>2, <1>1 DEF Keeps
    <3> QED BY <3>1, <3>2
  <2>4. latest' # None => Keeps(latest.target, latest.image)'
    <3>1. latest # None => Promised(w, efb, memory, latest.target, latest.image)
      BY <1>1, <1>3, <1>4, <1>6 DEF Kept
    <3> QED BY <3>1, <1>1 DEF Keeps
  <2>5. DOMAIN batch' = {}
    BY <1>1
  <2> QED BY <2>1, <2>3, <2>4, <2>5 DEF Kept
<1>15. Presented'
  <2>1. \A k \in DOMAIN gpu : gpu[k].kind # "present"
    BY <1>1, NoPresents DEF CallOk, Idle
  <2>2. \A k \in DOMAIN gpu' : gpu'[k].kind # "present"
    BY <2>1, <1>1, <1>2, <1>6
  <2> QED BY <1>1, <2>2 DEF Presented, Idle
<1>16. Served'
  BY <1>1 DEF Served, Idle
<1> QED BY <1>9, <1>10, <1>11, <1>12, <1>13, <1>14, <1>15, <1>16 DEF IInv

LEMMA CopyTextureFailsKeeps ==
    ASSUME IInv, CopyTextureFails
    PROVE  IInv'
<1> DEFINE s == gpu \o DrawsSoFar
<1>1. /\ TypeOK /\ CallOk /\ Published /\ JobsOk /\ Joined /\ Kept /\ Presented /\ Served
      /\ call = Idle /\ ~closed /\ inFrame /\ stamp < MaxStamp
      /\ batch' = <<>> /\ fifo' = <<>> /\ stamp' = stamp + 1 /\ lingering' \in {lingering, {}}
      /\ UNCHANGED <<memory, efb, back, copies, due, pool, latest, core, inFrame, failed, closed, broken,
                     call, output>>
  BY DEF IInv, CopyTextureFails, Working, Drawing, Ready, gpuSide, copySide, display, status
<1>2. s \in Seq(AllJobs(stamp, core)) /\ s \in Seq(Job)
      /\ \A k \in DOMAIN s : (k \in DOMAIN gpu /\ s[k] = gpu[k]) \/ s[k].kind = "draw"
  BY <1>1, SoFarTyped
<1>4. WorkKept(s, efb, memory) /\ \A u, v : Keeps(u, v) => Promised(s, efb, memory, u, v)
  BY <1>1, SoFarKept
<1>5. stamp \in Image /\ stamp + 1 \in Image /\ stamp <= stamp + 1 /\ core \in Nat
  BY <1>1, WorkFacts, NewJobs
<1>6. /\ gpu' \in Seq(AllJobs(stamp + 1, core))
      /\ \A k \in DOMAIN gpu' : (k \in DOMAIN gpu /\ gpu'[k] = gpu[k]) \/ gpu'[k].kind \in {"draw", "copy", "clear"}
      /\ WorkKept(gpu, efb, memory)'
      /\ \A e \in Dest : copies[e] # None => Promised(gpu', efb, memory, copies[e].target, copies[e].image)
      /\ latest # None => Promised(gpu', efb, memory, latest.target, latest.image)
  <2>1. CASE gpu' = s
    <3>1. gpu' \in Seq(AllJobs(stamp + 1, core))
      BY <2>1, <1>2, <1>5, JobsGrow, SeqMonotonic
    <3> QED BY <3>1, <2>1, <1>1, <1>2, <1>4 DEF Kept
  <2>2. CASE \E t \in FreeTextures, clear \in BOOLEAN : gpu' = CopyBehind(s, t, clear)
    <3>1. PICK t \in FreeTextures, clear \in BOOLEAN : gpu' = CopyBehind(s, t, clear)
      BY <2>2
    <3> DEFINE w == CopyBehind(s, t, clear)
    <3>2. /\ t \in Texture \union Display
          /\ \A k \in DOMAIN s : s[k].from # t /\ s[k].to # t
          /\ \A e \in Dest : copies[e] # None => copies[e].target # t
          /\ latest # None => latest.target # t
      BY <1>1, FreeTextureFacts
    <3> HIDE DEF s
    <3>3. /\ w \in Seq(AllJobs(stamp + 1, core))
          /\ \A k \in DOMAIN w : (k \in DOMAIN s /\ w[k] = s[k]) \/ w[k].kind \in {"copy", "clear"}
          /\ WorkKept(w, efb, memory)
          /\ \A u, v : u # t /\ Promised(s, efb, memory, u, v) => Promised(w, efb, memory, u, v)
      BY <1>1, <1>2, <1>4, <3>2, CopyBehindFacts
    <3>4. gpu' = w
      BY <3>1
    <3> HIDE DEF w
    <3>5. \A k \in DOMAIN w : (k \in DOMAIN gpu /\ w[k] = gpu[k]) \/ w[k].kind \in {"draw", "copy", "clear"}
      BY <1>2, <3>3
    <3>6. /\ \A e \in Dest : copies[e] # None => Promised(w, efb, memory, copies[e].target, copies[e].image)
          /\ latest # None => Promised(w, efb, memory, latest.target, latest.image)
      BY <1>1, <1>4, <3>2, <3>3 DEF Kept
    <3> QED BY <1>1, <3>3, <3>4, <3>5, <3>6
  <2>3. gpu' = s \/ \E t \in FreeTextures, clear \in BOOLEAN : gpu' = CopyBehind(s, t, clear)
    BY DEF CopyTextureFails, CopyBehind
  <2> QED BY <2>1, <2>2, <2>3
<1>9. /\ JobsOk' /\ gpu' \in Seq(Job) /\ batch' \in Seq(Job)
      /\ fifo' \in Seq([stamp : Image, tex : Dest \union {None}])
  BY <1>1, <1>6, JobsOkAfter
<1>10. TypeOK'
  BY <1>1, <1>5, <1>9 DEF TypeOK
<1>11. CallOk'
  BY <1>1 DEF CallOk, Idle
<1>12. Published'
  <2>1. DOMAIN fifo' = {}
    BY <1>1
  <2> QED BY <1>1, <2>1 DEF Published
<1>13. Joined'
  BY <1>1 DEF Joined, CallOk, Idle
<1>14. Kept'
  <2>1. DOMAIN batch' = {}
    BY <1>1
  <2>2. \A e \in Dest : copies'[e] # None => Keeps(copies[e].target, copies[e].image)'
    BY <1>1, <1>6 DEF Keeps
  <2>3. latest' # None => Keeps(latest.target, latest.image)'
    BY <1>1, <1>6 DEF Keeps
  <2> QED BY <1>6, <2>1, <2>2, <2>3 DEF Kept
<1>15. Presented'
  <2>1. \A k \in DOMAIN gpu : gpu[k].kind # "present"
    BY <1>1, NoPresents DEF CallOk, Idle
  <2>2. \A k \in DOMAIN gpu' : gpu'[k].kind # "present"
    BY <2>1, <1>6
  <2> QED BY <1>1, <2>2 DEF Presented, Idle
<1>16. Served'
  BY <1>1 DEF Served, Idle
<1> QED BY <1>9, <1>10, <1>11, <1>12, <1>13, <1>14, <1>15, <1>16 DEF IInv

LEMMA TakeDisplayKeeps ==
    ASSUME IInv, TakeDisplay
    PROVE  IInv'
<1>0. PICK t \in NextDisplays :
        /\ pool' = pool \union {t}
        /\ latest' = [target |-> t, image |-> Due]
        /\ gpu' = gpu \o <<CopyJob(t)>> \o ClearBehind(call.clear)
  BY DEF TakeDisplay
<1> DEFINE w == CopyBehind(gpu, t, call.clear)
           c == [target |-> t, image |-> Due]
<1>1. /\ TypeOK /\ CallOk /\ Published /\ JobsOk /\ Joined /\ Kept /\ Presented /\ Served
      /\ call.at = "take" /\ call.clear \in BOOLEAN /\ stamp' = stamp + 1 /\ lingering' = {}
      /\ call' = Idle /\ gpu' = w /\ pool' = pool \union {t} /\ latest' = c
      /\ UNCHANGED <<fifo, batch, memory, efb, back, copies, due, core, inFrame, failed, closed,
                     broken, output>>
  BY <1>0 DEF IInv, TakeDisplay, Return, gpuSide, copySide, status, CopyBehind, TypeOK
<1>2. call.op = "display" /\ inFrame /\ stamp < MaxStamp /\ fifo = <<>> /\ batch = <<>>
      /\ ~failed /\ ~closed /\ core > 0
  BY <1>1 DEF CallOk, Calls, Idle, Drained
<1>3. /\ t \in Display /\ t \in Texture \union Display
      /\ \A k \in DOMAIN gpu : gpu[k].from # t /\ gpu[k].to # t
      /\ \A e \in Dest : copies[e] # None => copies[e].target # t
      /\ IsFiniteSet(pool \union {t}) /\ Cardinality(pool \union {t}) <= Displays
  BY <1>1, NextDisplayFacts
<1>4. WorkKept(gpu, efb, memory) /\ gpu \in Seq(AllJobs(stamp, core))
  BY <1>1 DEF Kept, JobsOk
<1>5. After(gpu, efb) = Due /\ Due \in Image
  BY <1>1, <1>2, DueSplit, DueBound
<1>6. /\ w \in Seq(AllJobs(stamp + 1, core))
      /\ \A k \in DOMAIN w : (k \in DOMAIN gpu /\ w[k] = gpu[k]) \/ w[k].kind \in {"copy", "clear"}
      /\ WorkKept(w, efb, memory) /\ Promised(w, efb, memory, t, Due)
      /\ \A u, v : u # t /\ Promised(gpu, efb, memory, u, v) => Promised(w, efb, memory, u, v)
  BY <1>1, <1>2, <1>3, <1>4, <1>5, CopyBehindFacts
<1> HIDE DEF w
<1>7. c \in Held /\ c.target = t /\ c.image = Due
  BY <1>3, <1>5 DEF Held
<1> HIDE DEF c
<1>8. /\ JobsOk' /\ gpu' \in Seq(Job) /\ batch' \in Seq(Job)
      /\ fifo' \in Seq([stamp : Image, tex : Dest \union {None}]) /\ stamp + 1 \in Image
  BY <1>1, <1>2, <1>6, JobsOkAfter, NewJobs
<1>9. TypeOK'
  <2>1. pool' \subseteq Display /\ Cardinality(pool') <= Displays
    BY <1>1, <1>3 DEF TypeOK
  <2>2. latest' \in Held /\ latest'.target \in pool'
    BY <1>1, <1>7
  <2> QED BY <1>1, <1>8, <2>1, <2>2 DEF TypeOK, Idle
<1>10. CallOk'
  BY <1>1, <1>2 DEF CallOk, Calls, Idle
<1>11. Published'
  BY <1>1 DEF Published
<1>12. Joined'
  BY <1>1, <1>2 DEF Joined, Idle
<1>13. Kept'
  <2>1. WorkKept(gpu, efb, memory)'
    BY <1>1, <1>6
  <2>2. ASSUME NEW e \in Dest, copies'[e] # None
        PROVE  Keeps(copies[e].target, copies[e].image)'
    <3>1. copies[e] # None /\ copies[e].target # t
      BY <1>1, <1>3, <2>2
    <3>2. Promised(w, efb, memory, copies[e].target, copies[e].image)
      BY <3>1, <1>1, <1>6 DEF Kept, Keeps
    <3> QED BY <3>2, <1>1 DEF Keeps
  <2>3. Keeps(latest.target, latest.image)'
    BY <1>1, <1>6, <1>7 DEF Keeps
  <2>4. DOMAIN batch' = {}
    BY <1>1, <1>2
  <2> QED BY <2>1, <2>2, <2>3, <2>4 DEF Kept
<1>14. Presented'
  <2>1. \A k \in DOMAIN gpu : gpu[k].kind # "present"
    BY <1>1, <1>2, NoPresents
  <2> QED BY <1>1, <1>6, <2>1 DEF Presented, Idle
<1>15. Served'
  BY <1>1, <1>3 DEF Served, Idle
<1> QED BY <1>8, <1>9, <1>10, <1>11, <1>12, <1>13, <1>14, <1>15 DEF IInv

LEMMA TakeDisplayFailsKeeps ==
    ASSUME IInv, TakeDisplayFails
    PROVE  IInv'
<1>0. PICK t \in NextDisplays :
        /\ pool' = pool \union {t}
        /\ gpu' = gpu \/ \E clear \in {FALSE, call.clear} : gpu' = CopyBehind(gpu, t, clear)
  BY DEF TakeDisplayFails, CopyBehind
<1>1. /\ TypeOK /\ CallOk /\ Published /\ JobsOk /\ Joined /\ Kept /\ Presented /\ Served
      /\ call.at = "take" /\ call.clear \in BOOLEAN /\ stamp' = stamp + 1 /\ lingering' \in {lingering, {}}
      /\ call' = Idle /\ pool' = pool \union {t}
      /\ UNCHANGED <<fifo, batch, memory, efb, back, copies, due, latest, core, inFrame, failed, closed,
                     broken, output>>
  BY <1>0 DEF IInv, TakeDisplayFails, Return, gpuSide, copySide, status, TypeOK
<1>2. call.op = "display" /\ inFrame /\ stamp < MaxStamp /\ fifo = <<>> /\ batch = <<>>
      /\ ~failed /\ ~closed /\ core > 0
  BY <1>1 DEF CallOk, Calls, Idle, Drained
<1>3. /\ t \in Display /\ t \in Texture \union Display
      /\ \A k \in DOMAIN gpu : gpu[k].from # t /\ gpu[k].to # t
      /\ \A e \in Dest : copies[e] # None => copies[e].target # t
      /\ latest # None => latest.target # t
      /\ IsFiniteSet(pool \union {t}) /\ Cardinality(pool \union {t}) <= Displays
  BY <1>1, NextDisplayFacts
<1>4. WorkKept(gpu, efb, memory) /\ gpu \in Seq(AllJobs(stamp, core))
  BY <1>1 DEF Kept, JobsOk
<1>5. stamp \in Image /\ stamp + 1 \in Image /\ stamp <= stamp + 1 /\ core \in Nat
  BY <1>1, <1>2, WorkFacts, NewJobs
<1>6. /\ gpu' \in Seq(AllJobs(stamp + 1, core))
      /\ \A k \in DOMAIN gpu' : (k \in DOMAIN gpu /\ gpu'[k] = gpu[k]) \/ gpu'[k].kind \in {"copy", "clear"}
      /\ WorkKept(gpu, efb, memory)'
      /\ \A e \in Dest : copies[e] # None => Promised(gpu', efb, memory, copies[e].target, copies[e].image)
      /\ latest # None => Promised(gpu', efb, memory, latest.target, latest.image)
  <2>1. CASE gpu' = gpu
    <3>1. gpu' \in Seq(AllJobs(stamp + 1, core))
      BY <2>1, <1>4, <1>5, JobsGrow, SeqMonotonic
    <3> QED BY <3>1, <2>1, <1>1, <1>4 DEF Kept, Keeps
  <2>2. CASE \E clear \in {FALSE, call.clear} : gpu' = CopyBehind(gpu, t, clear)
    <3>1. PICK clear \in BOOLEAN : gpu' = CopyBehind(gpu, t, clear)
      BY <1>1, <2>2
    <3> DEFINE w == CopyBehind(gpu, t, clear)
    <3>3. /\ w \in Seq(AllJobs(stamp + 1, core))
          /\ \A k \in DOMAIN w : (k \in DOMAIN gpu /\ w[k] = gpu[k]) \/ w[k].kind \in {"copy", "clear"}
          /\ WorkKept(w, efb, memory)
          /\ \A u, v : u # t /\ Promised(gpu, efb, memory, u, v) => Promised(w, efb, memory, u, v)
      BY <1>1, <1>2, <1>3, <1>4, CopyBehindFacts
    <3>4. gpu' = w
      BY <3>1
    <3> HIDE DEF w
    <3>6. /\ \A e \in Dest : copies[e] # None => Promised(w, efb, memory, copies[e].target, copies[e].image)
          /\ latest # None => Promised(w, efb, memory, latest.target, latest.image)
      BY <1>1, <1>3, <3>3 DEF Kept, Keeps
    <3> QED BY <1>1, <3>3, <3>4, <3>6
  <2> QED BY <1>0, <2>1, <2>2
<1>8. /\ JobsOk' /\ gpu' \in Seq(Job) /\ batch' \in Seq(Job)
      /\ fifo' \in Seq([stamp : Image, tex : Dest \union {None}])
  BY <1>1, <1>2, <1>6, JobsOkAfter
<1>9. TypeOK'
  <2>1. pool' \subseteq Display /\ Cardinality(pool') <= Displays
    BY <1>1, <1>3 DEF TypeOK
  <2>2. latest' \in Held \union {None} /\ (latest' # None => latest'.target \in pool')
    BY <1>1 DEF TypeOK
  <2> QED BY <1>1, <1>5, <1>8, <2>1, <2>2 DEF TypeOK, Idle
<1>10. CallOk'
  BY <1>1, <1>2 DEF CallOk, Calls, Idle
<1>11. Published'
  BY <1>1 DEF Published
<1>12. Joined'
  BY <1>1, <1>2 DEF Joined, Idle
<1>13. Kept'
  <2>1. DOMAIN batch' = {}
    BY <1>1, <1>2
  <2>2. \A e \in Dest : copies'[e] # None => Keeps(copies[e].target, copies[e].image)'
    BY <1>1, <1>6 DEF Keeps
  <2>3. latest' # None => Keeps(latest.target, latest.image)'
    BY <1>1, <1>6 DEF Keeps
  <2> QED BY <1>6, <2>1, <2>2, <2>3 DEF Kept
<1>14. Presented'
  <2>1. \A k \in DOMAIN gpu : gpu[k].kind # "present"
    BY <1>1, <1>2, NoPresents
  <2> QED BY <1>1, <1>6, <2>1 DEF Presented, Idle
<1>15. Served'
  BY <1>1, <1>3 DEF Served, Idle
<1> QED BY <1>8, <1>9, <1>10, <1>11, <1>12, <1>13, <1>14, <1>15 DEF IInv

\* The end of the oldest job changes nothing that the game can see: what the EFB
\* will show, and every promise, stand.
LEMMA GpuEndFacts ==
    ASSUME TypeOK, Published, JobsOk, Kept, GpuEnd
    PROVE  /\ gpu # <<>> /\ gpu[1] \in AllJobs(stamp, core) /\ gpu[1] \in Job
           /\ 1 \in DOMAIN gpu /\ Len(gpu) \in Nat /\ DOMAIN gpu = 1 .. Len(gpu)
           /\ gpu' = Tail(gpu) /\ Len(gpu') = Len(gpu) - 1 /\ DOMAIN gpu' = 1 .. Len(gpu) - 1
           /\ \A k \in DOMAIN gpu' : k + 1 \in DOMAIN gpu /\ gpu'[k] = gpu[k + 1]
           /\ gpu' \in Seq(Job) /\ gpu' \in Seq(AllJobs(stamp, core))
           /\ efb' = Efb2(gpu[1], efb) /\ memory' = Mem2(gpu[1], efb, memory)
           /\ back' = IF gpu[1].kind # "present" THEN back
                      ELSE IF gpu[1].from = Efb THEN efb ELSE memory[gpu[1].from]
           /\ lingering' = IF gpu[1].kind \in Blits
                           THEN lingering \union ({gpu[1].from, gpu[1].to} \intersect (Texture \union Display))
                           ELSE lingering
           /\ UNCHANGED <<fifo, batch, copies, due, pool, latest, core, inFrame, failed, closed,
                          broken, stamp, call, output>>
           /\ After(gpu', efb') = After(gpu, efb) /\ Due' = Due
           /\ WorkKept(gpu, efb, memory)'
           /\ \A u \in Texture \union Display : \A v : Keeps(u, v) => Promised(gpu', efb', memory', u, v)
<1>1. /\ gpu \in Seq(Job) /\ gpu # <<>> /\ gpu \in Seq(AllJobs(stamp, core))
      /\ Len(gpu) \in Nat /\ DOMAIN gpu = 1 .. Len(gpu)
      /\ \A k \in DOMAIN gpu : gpu[k] \in AllJobs(stamp, core) /\ gpu[k] \in Job
      /\ stamp \in Image /\ core \in Nat /\ DrawsSoFar \in Seq(Job)
  BY WorkFacts DEF GpuEnd, JobsOk
<1>2. 1 \in DOMAIN gpu /\ Head(gpu) = gpu[1]
  BY <1>1, EmptySeq
<1>3. /\ gpu' = Tail(gpu) /\ efb' = Efb2(gpu[1], efb) /\ memory' = Mem2(gpu[1], efb, memory)
      /\ back' = IF gpu[1].kind # "present" THEN back
                 ELSE IF gpu[1].from = Efb THEN efb ELSE memory[gpu[1].from]
      /\ lingering' = IF gpu[1].kind \in Blits
                      THEN lingering \union ({gpu[1].from, gpu[1].to} \intersect (Texture \union Display))
                      ELSE lingering
      /\ UNCHANGED <<fifo, batch, copies, due, pool, latest, core, inFrame, failed, closed,
                     broken, stamp, call, output>>
  BY <1>2 DEF GpuEnd, Efb2, Mem2, copySide, display, status
<1>4. /\ gpu' \in Seq(Job) /\ gpu' \in Seq(AllJobs(stamp, core)) /\ Len(gpu') = Len(gpu) - 1
      /\ \A k \in 1 .. Len(gpu') : gpu'[k] = gpu[k + 1]
  BY <1>1, <1>3, HeadTailProperties
<1>5. DOMAIN gpu' = 1 .. Len(gpu) - 1 /\ \A k \in DOMAIN gpu' : k + 1 \in DOMAIN gpu /\ gpu'[k] = gpu[k + 1]
  <2>1. DOMAIN gpu' = 1 .. Len(gpu')
    BY <1>4, LenProperties
  <2> QED BY <2>1, <1>1, <1>4
<1>6. WorkKept(gpu, efb, memory) /\ DOMAIN memory = Texture \union Display
  BY DEF Kept, TypeOK
<1>7. \A k \in DOMAIN gpu : gpu[k].kind = "draw" => gpu[k].from \in DOMAIN memory \union {None}
  <2>1. \A k \in DOMAIN gpu : gpu[k].kind = "draw" => gpu[k] \in DrawJobs(stamp, core)
    BY <1>1, JobFacts
  <2>2. \A j \in DrawJobs(stamp, core) : j.from \in Texture \union {None}
    BY DEF DrawJobs
  <2> QED BY <2>1, <2>2, <1>6
<1>8. /\ After(Tail(gpu), Efb2(gpu[1], efb)) = After(gpu, efb)
      /\ WorkKept(Tail(gpu), Efb2(gpu[1], efb), Mem2(gpu[1], efb, memory))
      /\ \A u \in DOMAIN memory : \A v :
           Promised(gpu, efb, memory, u, v)
             => Promised(Tail(gpu), Efb2(gpu[1], efb), Mem2(gpu[1], efb, memory), u, v)
  BY <1>1, <1>6, <1>7, KeptByTail
<1>9. After(gpu', efb') = After(gpu, efb)
  BY <1>3, <1>8
<1>10. WorkKept(gpu, efb, memory)'
  BY <1>3, <1>8
<1>11. \A u \in Texture \union Display : \A v : Keeps(u, v) => Promised(gpu', efb', memory', u, v)
  BY <1>3, <1>6, <1>8 DEF Keeps
<1>12. Due' = Due
  <2>1. DrawsSoFar' = DrawsSoFar
    BY <1>3 DEF DrawsSoFar, Decoded, DrawJob
  <2>2. Due' = After(gpu' \o DrawsSoFar, efb')
    BY <2>1 DEF Due
  <2>3. After(gpu' \o DrawsSoFar, efb') = After(DrawsSoFar, After(gpu', efb'))
    BY <1>1, <1>4, AfterConcat
  <2>4. Due = After(DrawsSoFar, After(gpu, efb))
    BY DueSplit
  <2> QED BY <2>2, <2>3, <2>4, <1>9
<1> QED BY <1>1, <1>2, <1>3, <1>4, <1>5, <1>9, <1>10, <1>11, <1>12

LEMMA GpuEndKeeps ==
    ASSUME IInv, GpuEnd
    PROVE  IInv'
<1> DEFINE j == gpu[1]
<1>0. TypeOK /\ CallOk /\ Published /\ JobsOk /\ Joined /\ Kept /\ Presented /\ Served
  BY DEF IInv
<1>1. /\ gpu # <<>> /\ j \in AllJobs(stamp, core) /\ j \in Job
      /\ 1 \in DOMAIN gpu /\ Len(gpu) \in Nat /\ DOMAIN gpu = 1 .. Len(gpu)
      /\ Len(gpu') = Len(gpu) - 1 /\ DOMAIN gpu' = 1 .. Len(gpu) - 1
      /\ \A k \in DOMAIN gpu' : k + 1 \in DOMAIN gpu /\ gpu'[k] = gpu[k + 1]
      /\ gpu' \in Seq(Job) /\ gpu' \in Seq(AllJobs(stamp, core))
      /\ efb' = Efb2(j, efb) /\ memory' = Mem2(j, efb, memory)
      /\ back' = IF j.kind # "present" THEN back ELSE IF j.from = Efb THEN efb ELSE memory[j.from]
      /\ lingering' = IF j.kind \in Blits
                      THEN lingering \union ({j.from, j.to} \intersect (Texture \union Display))
                      ELSE lingering
      /\ UNCHANGED <<fifo, batch, copies, due, pool, latest, core, inFrame, failed, closed,
                     broken, stamp, call, output>>
      /\ After(gpu', efb') = After(gpu, efb) /\ Due' = Due
      /\ WorkKept(gpu, efb, memory)'
      /\ \A u \in Texture \union Display : \A v : Keeps(u, v) => Promised(gpu', efb', memory', u, v)
  BY <1>0, GpuEndFacts
<1> HIDE DEF j
<1>2. /\ j.kind = "copy" => j.to \in Texture \union Display
      /\ j.kind = "present" => j.from \in Display \union {Efb} /\ j.to = None
      /\ j.stamp \in 0 .. stamp /\ stamp \in Image /\ efb \in 0 .. stamp /\ 0 .. stamp \subseteq Image
  <2>1. stamp \in Image /\ core \in Nat /\ efb \in 0 .. stamp /\ 0 .. stamp \subseteq Image
    BY <1>0, WorkFacts, FrameAssumption DEF Image
  <2>2. /\ j.kind = "copy" => j \in CopyJobs
        /\ j.kind = "present" => j \in PresentJobs
        /\ j.stamp \in 0 .. stamp
    BY <1>1, <2>1, JobFacts
  <2> QED BY <2>1, <2>2 DEF CopyJobs, PresentJobs
<1>3. TypeOK'
  <2>1. efb' \in Image
    BY <1>1, <1>2 DEF Efb2
  <2>2. memory' \in [Texture \union Display -> Image]
    BY <1>0, <1>1, <1>2 DEF Mem2, TypeOK
  <2>3. back' \in Image
    <3>1. j.kind = "present" /\ j.from # Efb => memory[j.from] \in Image
      BY <1>0, <1>2 DEF TypeOK
    <3> QED BY <3>1, <1>0, <1>1 DEF TypeOK
  <2>4. lingering' \subseteq Texture \union Display
    BY <1>0, <1>1 DEF TypeOK
  <2> QED BY <1>0, <1>1, <2>1, <2>2, <2>3, <2>4 DEF TypeOK
<1>4. CallOk'
  BY <1>0, <1>1 DEF CallOk, Drained
<1>5. Published'
  BY <1>0, <1>1 DEF Published
<1>6. JobsOk'
  <2>1. efb' <= stamp
    BY <1>1, <1>2 DEF Efb2
  <2> QED BY <1>0, <1>1, <2>1 DEF JobsOk
<1>7. \A kinds : Unfinished(kinds)' => Unfinished(kinds)
  BY <1>1 DEF Unfinished
<1>8. Joined'
  <2>1. ~Unfinished(Draws) => ~Unfinished(Draws)'
    BY <1>7
  <2>2. ~Unfinished(Blits) => ~Unfinished(Blits)'
    BY <1>7
  <2> QED BY <1>0, <1>1, <2>1, <2>2 DEF Joined
<1>9. Kept'
  <2>1. ASSUME NEW d \in Dest, copies'[d] # None
        PROVE  Keeps(copies[d].target, copies[d].image)'
    <3>1. copies[d] # None /\ copies[d].target \in Texture
      BY <1>0, <1>1, <2>1 DEF Published
    <3>2. Promised(gpu', efb', memory', copies[d].target, copies[d].image)
      BY <3>1, <1>0, <1>1 DEF Kept
    <3> QED BY <3>2, <1>1 DEF Keeps
  <2>2. ASSUME latest' # None
        PROVE  Keeps(latest.target, latest.image)'
    <3>1. latest # None /\ latest.target \in Display
      BY <1>0, <1>1, <2>2 DEF TypeOK
    <3>2. Promised(gpu', efb', memory', latest.target, latest.image)
      BY <3>1, <1>0, <1>1 DEF Kept
    <3> QED BY <3>2, <1>1 DEF Keeps
  <2>3. ASSUME NEW i \in DOMAIN batch', batch'[i].from # None
        PROVE  Keeps(batch[i].from, batch[i].image)'
    <3>1. i \in DOMAIN batch /\ batch[i].from # None
      BY <1>1, <2>3
    <3>2. batch[i].from \in Texture
      BY <3>1, <1>0, WorkFacts DEF DrawJobs
    <3>3. Promised(gpu', efb', memory', batch[i].from, batch[i].image)
      BY <3>1, <3>2, <1>0, <1>1 DEF Kept
    <3> QED BY <3>3, <1>1 DEF Keeps
  <2> QED BY <1>1, <2>1, <2>2, <2>3 DEF Kept
<1>10. Source' = Source /\ Shown' = Shown
  BY <1>1 DEF Source, Shown
<1>11. Presented'
  <2>1. ASSUME NEW i \in DOMAIN gpu', gpu'[i].kind = "present"
        PROVE  failed \/ (call.op = "end" /\ call.at = "blits" /\ i = Len(gpu') /\ gpu'[i].from = Source)
    <3>1. i + 1 \in DOMAIN gpu /\ gpu'[i] = gpu[i + 1]
      BY <1>1, <2>1
    <3>2. failed \/ (call.op = "end" /\ call.at = "blits" /\ i + 1 = Len(gpu) /\ gpu[i + 1].from = Source)
      BY <3>1, <2>1, <1>0 DEF Presented
    <3>3. i \in Nat /\ (i + 1 = Len(gpu) => i = Len(gpu'))
      BY <1>1, <2>1
    <3> QED BY <3>1, <3>2, <3>3
  <2>2. ASSUME call.op = "end", call.at \in {"blits", "flip"}, ~Unfinished({"present"})'
        PROVE  back' = Shown
    <3>1. Drained /\ ~failed
      BY <1>0, <2>2 DEF CallOk
    <3>2. CASE Unfinished({"present"})
      <4>1. PICK k \in DOMAIN gpu : gpu[k].kind = "present"
        BY <3>2 DEF Unfinished
      <4>2. k = 1
        <5>1. ASSUME k # 1
              PROVE  FALSE
          <6>1. k - 1 \in DOMAIN gpu' /\ gpu'[k - 1] = gpu[(k - 1) + 1] /\ (k - 1) + 1 = k
            BY <1>1, <4>1, <5>1
          <6> QED BY <6>1, <4>1, <2>2 DEF Unfinished
        <5> QED BY <5>1
      <4>3. j.kind = "present" /\ 1 = Len(gpu) /\ j.from = Source /\ j.to = None
        BY <4>1, <4>2, <3>1, <1>0, <1>2 DEF Presented, j
      <4>4. \A i \in DOMAIN gpu : i = 1 /\ gpu[i] = j
        BY <4>3, <1>1 DEF j
      <4>5. CASE latest = None
        <5>1. back' = efb
          BY <1>1, <4>3, <4>5 DEF Source
        <5>2. \A i \in DOMAIN gpu : gpu[i].to # Efb
          BY <4>3, <4>4, FrameAssumption
        <5>3. After(gpu, efb) = efb
          BY <5>2, AfterNone
        <5>4. Due = After(gpu, efb)
          BY <3>1, <1>0, DueSplit DEF Drained
        <5> QED BY <5>1, <5>3, <5>4, <4>5 DEF Shown
      <4>6. CASE latest # None
        <5>1. latest.target \in Display /\ latest.target # Efb
          BY <4>6, <1>0, FrameAssumption DEF TypeOK
        <5>2. back' = memory[latest.target]
          BY <5>1, <4>3, <4>6, <1>1 DEF Source
        <5>3. CopiesTo(gpu, latest.target) = {}
          BY <4>3, <4>4 DEF CopiesTo
        <5>4. memory[latest.target] = latest.image
          BY <5>3, <4>6, <1>0 DEF Kept, Keeps, Promised
        <5> QED BY <5>2, <5>4, <4>6 DEF Shown
      <4> QED BY <4>5, <4>6
    <3>3. CASE ~Unfinished({"present"})
      <4>1. j.kind # "present"
        BY <3>3, <1>1 DEF Unfinished, j
      <4>2. back = Shown
        BY <3>3, <2>2, <1>0 DEF Presented
      <4> QED BY <4>1, <4>2, <1>1
    <3> QED BY <3>2, <3>3
  <2> QED BY <1>1, <1>10, <2>1, <2>2 DEF Presented
<1>12. Served'
  <2>1. ASSUME NEW t, t \notin InUse
        PROVE  t \notin InUse'
    <3>1. /\ \A k \in DOMAIN gpu : gpu[k].from # t /\ gpu[k].to # t
          /\ \A k \in DOMAIN batch : batch[k].from # t
          /\ t \notin lingering
      BY <2>1, InUseFacts
    <3>2. \A k \in DOMAIN gpu' : gpu'[k].from # t /\ gpu'[k].to # t
      BY <3>1, <1>1
    <3>3. t \notin lingering'
      BY <3>1, <1>1 DEF j
    <3>4. t \notin UNION {{gpu'[i].from, gpu'[i].to} : i \in DOMAIN gpu'}
      BY <3>2
    <3>5. t \notin {batch'[i].from : i \in DOMAIN batch'}
      BY <3>1, <1>1
    <3> QED BY <3>3, <3>4, <3>5 DEF InUse
  <2>2. PoolFull' = PoolFull /\ pool' = pool /\ latest' = latest /\ call' = call
    BY <1>1 DEF PoolFull
  <2>3. FreeDisplays \subseteq FreeDisplays'
    <3>1. ASSUME NEW t \in FreeDisplays
          PROVE  t \in FreeDisplays'
      <4>1. t \in pool /\ t \notin InUse /\ (latest # None => t # latest.target)
        BY <3>1 DEF FreeDisplays
      <4>2. t \notin InUse'
        BY <4>1, <2>1
      <4> QED BY <4>1, <4>2, <2>2 DEF FreeDisplays
    <3> QED BY <3>1
  <2>4. PoolReady => PoolReady'
    BY <2>2, <2>3 DEF PoolReady
  <2> QED BY <2>2, <2>4, <1>0 DEF Served
<1> QED BY <1>3, <1>4, <1>5, <1>6, <1>8, <1>9, <1>11, <1>12 DEF IInv

LEMMA NextKeepsIInv ==
    ASSUME IInv, [Next]_vars
    PROVE  IInv'
<1>1. ASSUME NEW tex \in Dest \union {None}, Draw(tex)
      PROVE  IInv'
  BY <1>1, DrawKeeps
<1>2. ASSUME NEW d \in Dest, NEW clear \in BOOLEAN, CopyTexture(d, clear)
      PROVE  IInv'
  BY <1>2, CopyTextureKeeps
<1>3. ASSUME NEW clear \in BOOLEAN, CopyDisplay(clear)
      PROVE  IInv'
  BY <1>3, CopyDisplayKeeps
<1>4. ASSUME NEW d \in Dest, ReadCopy(d)
      PROVE  IInv'
  BY <1>4, ReadCopyKeeps
<1>5. ASSUME NEW fresh \in BOOLEAN, Begin(fresh)
      PROVE  IInv'
  BY <1>5, BeginKeeps
<1>6. CASE Drain \/ SubmitBatch \/ CopyTextureFails \/ CheckPool \/ TakeDisplay \/ TakeDisplayFails \/ Encode
  BY <1>6, DrainKeeps, SubmitBatchKeeps, CopyTextureFailsKeeps, CheckPoolKeeps, TakeDisplayKeeps,
     TakeDisplayFailsKeeps, EncodeKeeps
<1>7. CASE NewCore \/ Fill \/ End \/ Present \/ Flip \/ Close \/ FinishDraws \/ Release
  BY <1>7, NewCoreKeeps, FillKeeps, EndKeeps, PresentKeeps, FlipKeeps, CloseKeeps, FinishDrawsKeeps,
     ReleaseKeeps
<1>8. CASE JoinDraws \/ JoinBlits \/ CallFails \/ GpuEnd
  BY <1>8, JoinDrawsKeeps, JoinBlitsKeeps, CallFailsKeeps, GpuEndKeeps
<1>9. CASE UNCHANGED vars
  <2> USE <1>9 DEF vars, gpuSide, copySide, display, status
  <2>1. TypeOK'
    BY DEF IInv, TypeOK
  <2>2. CallOk'
    BY DEF IInv, CallOk, Drained
  <2>3. Published' /\ JobsOk'
    BY QuietJobs DEF IInv
  <2>4. Joined'
    BY DEF IInv, Joined, Unfinished
  <2>5. Kept'
    BY QuietKept DEF IInv
  <2>6. Presented'
    <3>1. Shown' = Shown /\ Source' = Source
      BY DEF Shown, Source, Due, DrawsSoFar, Decoded, DrawJob
    <3> QED BY <3>1 DEF IInv, Presented, Unfinished
  <2>7. Served'
    BY DEF IInv, Served, PoolReady, PoolFull, FreeDisplays, InUse
  <2> QED BY <2>1, <2>2, <2>3, <2>4, <2>5, <2>6, <2>7 DEF IInv
<1> QED BY <1>1, <1>2, <1>3, <1>4, <1>5, <1>6, <1>7, <1>8, <1>9 DEF Next

\* The invariant holds throughout: the steps of gx_frame_renderer.cpp,
\* gx_texture_copy.cpp and gx_display_copy.cpp keep every promise they made.
THEOREM Invariance == Spec => []IInv
<1>1. IInv /\ [Next]_vars => IInv'
  BY NextKeepsIInv
<1> QED BY <1>1, InitKeeps, PTL DEF Spec

\* GxDisplayCopyBackend always has a target to copy to: a full pool has one that
\* nobody reads, or the blits are joined first and free one.
THEOREM DisplaySafe == Spec => []DisplayServed
<1>1. IInv => DisplayServed
  BY DEF IInv, DisplayServed, Served, PoolReady
<1> QED BY <1>1, Invariance, PTL

\* What unfinished draws need is there: GxFrameRenderer releases no renderer under
\* them, and no later copy has been given the target that they sample.
THEOREM WorkSafe == Spec => []WorkSupported
<1>1. IInv => ReleasedIdle
  <2>1. ASSUME IInv, NEW i \in DOMAIN gpu, gpu[i].kind = "draw"
        PROVE  gpu[i].core = core
    <3>1. gpu[i] \in AllJobs(stamp, core) /\ stamp \in Image /\ core \in Nat
      BY <2>1, WorkFacts DEF IInv
    <3>2. gpu[i] \in DrawJobs(stamp, core)
      BY <2>1, <3>1, JobFacts
    <3> QED BY <3>2 DEF DrawJobs
  <2> QED BY <2>1 DEF IInv, CallOk, ReleasedIdle
<1>2. IInv => SamplesKept
  <2>1. ASSUME IInv, gpu # <<>>, Head(gpu).kind = "draw", Head(gpu).from # None
        PROVE  memory[Head(gpu).from] = Head(gpu).image
    <3>1. 1 \in DOMAIN gpu /\ Head(gpu) = gpu[1] /\ DOMAIN gpu = 1 .. Len(gpu) /\ Len(gpu) \in Nat
      BY <2>1, WorkFacts, EmptySeq DEF IInv
    <3>2. Promised(gpu, efb, memory, gpu[1].from, gpu[1].image)
      BY <2>1, <3>1 DEF IInv, Kept, WorkKept
    <3>3. CopiesTo(gpu, gpu[1].from) = {}
      <4>1. ASSUME NEW i \in CopiesTo(gpu, gpu[1].from)
            PROVE  FALSE
        <5>1. i \in DOMAIN gpu /\ gpu[i].kind = "copy" /\ gpu[1].from = gpu[i].to
          BY <4>1 DEF CopiesTo
        <5>2. i < 1
          BY <5>1, <2>1, <3>1 DEF IInv, Kept, WorkKept
        <5> QED BY <5>1, <5>2, <3>1
      <4> QED BY <4>1
    <3> QED BY <3>1, <3>2, <3>3 DEF Promised
  <2> QED BY <2>1 DEF SamplesKept
<1>3. IInv => WorkSupported
  BY <1>1, <1>2 DEF WorkSupported
<1> QED BY <1>3, Invariance, PTL

-----------------------------------------------------------------------------
(* The refinement: every step is a command of GxImmediate, or it cannot be  *)
(* seen.                                                                    *)

\* What GxImmediate sees of the FIFO, the batch, the copies and the display copy.
Ahead == ~inFrame /\ fifo # <<>>
Left  == ~inFrame /\ batch # <<>>
Tex   == [d \in Dest |-> IF copies[d] = None THEN 0 ELSE copies[d].image]
Latest  == IF inFrame /\ latest # None THEN latest.image ELSE None

\* DueSplit and DueBound as one formula, which also holds in the next state.
DueLaw ==
    TypeOK /\ Published /\ JobsOk =>
      /\ Due \in 0 .. stamp
      /\ Due = IF fifo # <<>> THEN fifo[Len(fifo)].stamp
               ELSE IF batch # <<>> THEN batch[Len(batch)].stamp
               ELSE After(gpu, efb)
      /\ fifo = <<>> => Due = After(gpu \o batch, efb)

LEMMA DueLawHolds == DueLaw
<1>1. ASSUME TypeOK, Published, JobsOk, fifo = <<>>
      PROVE  Due = After(gpu \o batch, efb)
  <2>1. gpu \in Seq(Job) /\ batch \in Seq(Job)
    BY <1>1, WorkFacts
  <2>2. After(gpu \o batch, efb) = After(batch, After(gpu, efb))
    BY <2>1, AfterConcat
  <2> QED BY <1>1, <2>2, BatchAfter, DueSplit
<1> QED BY <1>1, DueSplit, DueBound DEF DueLaw

LEMMA DueLawNext == DueLaw'
BY DueLawHolds, PTL

\* What the EFB is to show, before a step and after it.
LEMMA DueFacts ==
    ASSUME IInv, IInv'
    PROVE  /\ Due \in 0 .. stamp /\ Due' \in 0 .. stamp'
           /\ Due = IF fifo # <<>> THEN fifo[Len(fifo)].stamp
                    ELSE IF batch # <<>> THEN batch[Len(batch)].stamp
                    ELSE After(gpu, efb)
           /\ Due' = IF fifo' # <<>> THEN fifo'[Len(fifo')].stamp
                     ELSE IF batch' # <<>> THEN batch'[Len(batch')].stamp
                     ELSE After(gpu', efb')
           /\ fifo = <<>> => Due = After(gpu \o batch, efb)
BY DueLawHolds, DueLawNext DEF DueLaw, IInv

\* A step that changes none of this is not seen.
LEMMA Stutters ==
    ASSUME UNCHANGED <<stamp, inFrame, copies, output>>, Due' = Due,
           inFrame \/ (fifo' = fifo /\ (batch' = <<>> <=> batch = <<>>)),
           inFrame => latest' = latest
    PROVE  UNCHANGED Immediate!vars
<1>1. (~inFrame /\ fifo # <<>>)' = (~inFrame /\ fifo # <<>>)
  OBVIOUS
<1>2. (~inFrame /\ batch # <<>>)' = (~inFrame /\ batch # <<>>)
  OBVIOUS
<1>3. Tex' = Tex /\ Latest' = Latest
  BY DEF Tex, Latest
<1> QED BY <1>1, <1>2, <1>3 DEF Immediate!vars, Immediate!frame, Tex, Latest

LEMMA DrawMaps ==
    ASSUME IInv, IInv', NEW tex \in Dest \union {None}, Draw(tex)
    PROVE  Immediate!Draw
<1> DEFINE c == [stamp |-> stamp + 1, tex |-> tex]
           S == [stamp : Image, tex : Dest \union {None}]
<1>1. /\ fifo \in Seq(S) /\ stamp < MaxStamp /\ TypeOK /\ Published /\ JobsOk
      /\ fifo' = Append(fifo, c) /\ stamp' = stamp + 1
      /\ UNCHANGED <<batch, copies, latest, inFrame, output>>
  BY DEF IInv, TypeOK, Draw, copySide, display, status
<1>2. c \in S /\ c.stamp = stamp + 1
  <2>1. stamp + 1 \in Image
    BY <1>1, NewJobs
  <2> QED BY <2>1
<1> HIDE DEF c, S
<1>3. fifo' # <<>> /\ fifo'[Len(fifo')] = c
  <2>1. Len(fifo') = Len(fifo) + 1 /\ fifo'[Len(fifo) + 1] = c /\ Len(fifo) \in Nat
    BY <1>1, <1>2, AppendProperties, LenProperties
  <2>2. fifo' # <<>>
    BY <2>1, EmptySeq
  <2> QED BY <2>1, <2>2
<1>4. Due' = stamp + 1
  BY <1>2, <1>3, DueFacts
<1>5. (~inFrame /\ fifo # <<>>)' = ~inFrame
  BY <1>1, <1>3
<1>6. (~inFrame /\ batch # <<>>)' = (~inFrame /\ batch # <<>>)
  BY <1>1
<1> QED BY <1>1, <1>4, <1>5, <1>6 DEF Immediate!Draw, Immediate!Issue, Immediate!Paint

\* Submitting draws is not seen.
LEMMA SubmitsUnseen ==
    ASSUME IInv, IInv', NEW d, d \in {batch, DrawsSoFar}, gpu' = gpu \o d, batch' = <<>>,
           fifo' = IF d = batch THEN fifo ELSE <<>>, efb' = efb
    PROVE  Due' = Due
<1>1. gpu \in Seq(Job) /\ batch \in Seq(Job) /\ Decoded \in Seq(Job) /\ DrawsSoFar \in Seq(Job)
  BY WorkFacts DEF IInv
<1>2. CASE fifo' = <<>>
  <2>1. Due' = After(gpu \o d, efb)
    BY <1>2, DueFacts
  <2>2. CASE d = DrawsSoFar
    BY <2>1, <2>2 DEF Due
  <2>3. CASE d = batch /\ fifo = <<>>
    BY <2>1, <2>3, DueFacts
  <2> QED BY <1>2, <2>2, <2>3
<1>3. CASE fifo' # <<>>
  BY <1>3, DueFacts
<1> QED BY <1>2, <1>3

LEMMA DrainMaps ==
    ASSUME IInv, IInv', Drain
    PROVE  UNCHANGED Immediate!vars
<1>1. /\ inFrame /\ fifo' = <<>> /\ batch' = DrawsSoFar
      /\ UNCHANGED <<gpu, efb, copies, latest, inFrame, stamp, output>>
  BY DEF Drain, Drawing, gpuSide, copySide, display, status
<1>2. Due' = Due
  <2>1. (fifo = <<>> => Due = After(gpu \o batch, efb))'
    BY DueLawNext DEF DueLaw, IInv
  <2> QED BY <1>1, <2>1 DEF Due
<1> QED BY <1>1, <1>2, Stutters

LEMMA SubmitBatchMaps ==
    ASSUME IInv, IInv', SubmitBatch
    PROVE  UNCHANGED Immediate!vars
<1>1. /\ inFrame /\ gpu' = gpu \o batch /\ batch' = <<>> /\ fifo' = fifo
      /\ UNCHANGED <<efb, copies, latest, inFrame, stamp, output>>
  BY DEF SubmitBatch, Drawing, gpuSide, copySide, display, status
<1>2. Due' = Due
  BY <1>1, SubmitsUnseen
<1> QED BY <1>1, <1>2, Stutters

LEMMA CopyDisplayMaps ==
    ASSUME IInv, IInv', NEW clear \in BOOLEAN, CopyDisplay(clear)
    PROVE  UNCHANGED Immediate!vars
<1>1. /\ inFrame /\ gpu' = gpu \o DrawsSoFar /\ batch' = <<>> /\ fifo' = <<>>
      /\ UNCHANGED <<efb, copies, latest, inFrame, stamp, output>>
  BY DEF CopyDisplay, Working, Drawing, gpuSide, copySide, display, status
<1>2. Due' = Due
  BY <1>1, DueFacts DEF Due
<1> QED BY <1>1, <1>2, Stutters

LEMMA EndMaps ==
    ASSUME IInv, IInv', End
    PROVE  UNCHANGED Immediate!vars
<1>1. /\ inFrame /\ UNCHANGED <<efb, copies, core, latest, inFrame, stamp, output>>
      /\ \/ gpu' = gpu \o DrawsSoFar /\ fifo' = <<>> /\ batch' = <<>>
         \/ UNCHANGED <<fifo, batch, gpu>>
  BY DEF End, gpuSide, copySide, display, status
<1>2. Due' = Due
  BY <1>1, DueFacts DEF Due
<1> QED BY <1>1, <1>2, Stutters

LEMMA CallStepMaps ==
    ASSUME IInv, IInv', CheckPool \/ (\E d \in Dest : ReadCopy(d)) \/ (\E fresh \in BOOLEAN : Begin(fresh))
                          \/ JoinDraws \/ JoinBlits
    PROVE  UNCHANGED Immediate!vars
<1>1. UNCHANGED <<fifo, batch, gpu, efb, copies, latest, core, inFrame, stamp, output>>
  BY DEF CheckPool, ReadCopy, Begin, JoinDraws, JoinBlits, gpuSide, copySide, display, status
<1>2. Due' = Due
  BY <1>1, DueFacts
<1> QED BY <1>1, <1>2, Stutters

LEMMA NewCoreMaps ==
    ASSUME IInv, IInv', NewCore
    PROVE  UNCHANGED Immediate!vars
<1>1. /\ UNCHANGED <<fifo, batch, gpu, efb, copies, inFrame, stamp, output>>
      /\ call.at = "core" /\ CallOk
  BY DEF NewCore, IInv, gpuSide, copySide
<1>2. ~inFrame
  BY <1>1 DEF CallOk, Calls, Idle
<1>3. Due' = Due
  BY <1>1, DueFacts
<1> QED BY <1>1, <1>2, <1>3, Stutters

LEMMA ReleaseMaps ==
    ASSUME IInv, IInv', Release
    PROVE  UNCHANGED Immediate!vars
<1>1. /\ UNCHANGED <<fifo, batch, gpu, efb, copies, inFrame, stamp, output>>
      /\ call.at = "release" /\ CallOk
  BY DEF Release, IInv, gpuSide, copySide
<1>2. ~inFrame
  BY <1>1 DEF CallOk, Calls, Idle
<1>3. Due' = Due
  BY <1>1, DueFacts
<1> QED BY <1>1, <1>2, <1>3, Stutters

LEMMA PresentMaps ==
    ASSUME IInv, IInv', Present
    PROVE  UNCHANGED Immediate!vars
<1> DEFINE j == PresentJob(Source)
<1>1. /\ gpu' = Append(gpu, j) /\ call.at = "present"
      /\ UNCHANGED <<fifo, batch, efb, copies, latest, inFrame, stamp, output>>
      /\ TypeOK /\ CallOk /\ Published /\ JobsOk
  BY DEF IInv, Present, Source, gpuSide, copySide, display, status
<1>2. inFrame /\ fifo = <<>> /\ batch = <<>>
  BY <1>1 DEF CallOk, Calls, Idle, Drained
<1>3. j \in Job /\ j.to # Efb
  <2>1. core \in Nat /\ 0 \in Image /\ Source \in Display \union {Efb}
    BY <1>1, FrameAssumption DEF TypeOK, Source, Image
  <2> QED BY <2>1, FrameAssumption DEF PresentJob, Job
<1> HIDE DEF j
<1>4. gpu' = gpu \o <<j>> /\ <<j>> \in Seq(Job) /\ gpu \in Seq(Job)
  BY <1>1, <1>3, AppendIsConcat DEF TypeOK
<1>5. After(gpu', efb) = After(gpu, efb)
  <2>1. After(gpu \o <<j>>, efb) = After(<<j>>, After(gpu, efb))
    BY <1>4, AfterConcat
  <2>2. After(<<j>>, After(gpu, efb)) = After(gpu, efb)
    BY <1>3, AfterOne
  <2> QED BY <1>4, <2>1, <2>2
<1>6. Due' = Due
  BY <1>1, <1>2, <1>5, DueFacts
<1> QED BY <1>1, <1>2, <1>6, Stutters

LEMMA GpuEndMaps ==
    ASSUME IInv, IInv', GpuEnd
    PROVE  UNCHANGED Immediate!vars
<1>1. UNCHANGED <<fifo, batch, copies, latest, inFrame, stamp, output>> /\ Due' = Due
  BY GpuEndFacts DEF IInv
<1> QED BY <1>1, Stutters

LEMMA FinishDrawsMaps ==
    ASSUME IInv, IInv', FinishDraws
    PROVE  Immediate!Settle \/ UNCHANGED Immediate!vars
<1>1. /\ UNCHANGED <<fifo, efb, copies, latest, core, inFrame, stamp, output>>
      /\ call.at = "joining" /\ CallOk
      /\ \/ gpu' = gpu \o batch /\ batch' = <<>>
         \/ UNCHANGED <<batch, gpu>>
  BY DEF FinishDraws, IInv, gpuSide, copySide, display, status
<1>2. ~inFrame
  BY <1>1 DEF CallOk, Calls, Idle
<1>3. Due' = Due
  <2>1. CASE gpu' = gpu \o batch /\ batch' = <<>>
    BY <1>1, <2>1, SubmitsUnseen
  <2>2. CASE UNCHANGED <<batch, gpu>>
    BY <1>1, <2>2, DueFacts
  <2> QED BY <1>1, <2>1, <2>2
<1>4. CASE batch' = <<>> /\ batch # <<>>
  <2>1. (~inFrame /\ fifo # <<>>)' = (~inFrame /\ fifo # <<>>)
    BY <1>1
  <2> QED BY <1>1, <1>2, <1>3, <1>4, <2>1 DEF Immediate!Settle
<1>5. CASE batch' = <<>> <=> batch = <<>>
  BY <1>1, <1>2, <1>3, <1>5, Stutters
<1> QED BY <1>1, <1>4, <1>5

LEMMA CopyTextureMaps ==
    ASSUME IInv, IInv', NEW d \in Dest, NEW clear \in BOOLEAN, CopyTexture(d, clear)
    PROVE  Immediate!CopyTexture(d)
<1>0. PICK t \in FreeTextures :
        /\ gpu' = gpu \o DrawsSoFar \o <<CopyJob(t)>> \o ClearBehind(clear)
        /\ copies' = [copies EXCEPT ![d] = [target |-> t, image |-> Due]]
  BY DEF CopyTexture
<1> DEFINE s == gpu \o DrawsSoFar
           c == [target |-> t, image |-> Due]
<1>1. /\ TypeOK /\ Published /\ JobsOk /\ inFrame /\ stamp < MaxStamp
      /\ batch' = <<>> /\ fifo' = <<>> /\ stamp' = stamp + 1
      /\ gpu' = CopyBehind(s, t, clear) /\ copies' = [copies EXCEPT ![d] = c]
      /\ UNCHANGED <<efb, latest, inFrame, output>>
  BY <1>0 DEF IInv, CopyTexture, Working, Drawing, gpuSide, display, status, CopyBehind
<1>2. s \in Seq(AllJobs(stamp, core)) /\ t \in Texture \union Display /\ After(s, efb) = Due
  BY <1>1, SoFarTyped, FreeTextureFacts DEF Due
<1> HIDE DEF s
<1>3. After(gpu', efb) = IF clear THEN stamp + 1 ELSE Due
  BY <1>1, <1>2, CopyBehindFacts
<1>4. Due' = IF clear THEN stamp + 1 ELSE Due
  BY <1>1, <1>3, DueFacts
<1>5. Tex' = [Tex EXCEPT ![d] = Due]
  <2>1. c # None /\ c.image = Due
    <3>1. c \in Held
      BY <1>1, DueBound, FreeTextureFacts DEF Held
    <3> QED BY <3>1, FrameAssumption
  <2>2. copies \in [Dest -> Held \union {None}]
    BY <1>1 DEF TypeOK
  <2> HIDE DEF c
  <2>3. copies'[d] = c /\ \A e \in Dest : e # d => copies'[e] = copies[e]
    BY <1>1, <2>2
  <2> QED BY <2>1, <2>3 DEF Tex
<1>6. /\ (~inFrame /\ fifo # <<>>)' = (~inFrame /\ fifo # <<>>)
      /\ (~inFrame /\ batch # <<>>)' = (~inFrame /\ batch # <<>>)
  BY <1>1
<1>7. Latest' = Latest
  BY <1>1 DEF Latest
<1> QED BY <1>1, <1>4, <1>5, <1>6, <1>7
        DEF Immediate!CopyTexture, Immediate!Issue, Immediate!Paint, Immediate!frame, Tex, Latest

\* A copy that throws takes a number, and leaves the EFB as it is or cleared.
LEMMA FailsMaps ==
    ASSUME inFrame, stamp' = stamp + 1, Due' \in {Due, stamp + 1},
           UNCHANGED <<inFrame, copies, latest, output>>
    PROVE  Immediate!CopyFails
<1>1. /\ (~inFrame /\ fifo # <<>>)' = (~inFrame /\ fifo # <<>>)
      /\ (~inFrame /\ batch # <<>>)' = (~inFrame /\ batch # <<>>)
  OBVIOUS
<1>2. Tex' = Tex /\ Latest' = Latest
  BY DEF Tex, Latest
<1> QED BY <1>1, <1>2
        DEF Immediate!CopyFails, Immediate!Issue, Immediate!Paint, Immediate!frame, Tex, Latest

LEMMA CopyTextureFailsMaps ==
    ASSUME IInv, IInv', CopyTextureFails
    PROVE  Immediate!CopyFails
<1> DEFINE s == gpu \o DrawsSoFar
<1>1. /\ TypeOK /\ Published /\ JobsOk /\ inFrame /\ stamp < MaxStamp
      /\ batch' = <<>> /\ fifo' = <<>> /\ stamp' = stamp + 1
      /\ UNCHANGED <<efb, copies, latest, inFrame, output>>
  BY DEF IInv, CopyTextureFails, Working, Drawing, gpuSide, copySide, display, status
<1>2. s \in Seq(AllJobs(stamp, core)) /\ After(s, efb) = Due
  BY <1>1, SoFarTyped DEF Due
<1>3. gpu' = s \/ \E t \in FreeTextures, clear \in BOOLEAN : gpu' = CopyBehind(s, t, clear)
  BY DEF CopyTextureFails, CopyBehind
<1> HIDE DEF s
<1>4. After(gpu', efb) \in {Due, stamp + 1}
  <2>1. ASSUME NEW t \in FreeTextures, NEW clear \in BOOLEAN, gpu' = CopyBehind(s, t, clear)
        PROVE  After(gpu', efb) \in {Due, stamp + 1}
    <3>1. t \in Texture \union Display
      BY <1>1, FreeTextureFacts
    <3>2. After(gpu', efb) = IF clear THEN stamp + 1 ELSE Due
      BY <1>1, <1>2, <2>1, <3>1, CopyBehindFacts
    <3> QED BY <3>2
  <2> QED BY <1>2, <1>3, <2>1
<1>5. Due' \in {Due, stamp + 1}
  BY <1>1, <1>4, DueFacts
<1> QED BY <1>1, <1>5, FailsMaps

LEMMA TakeDisplayMaps ==
    ASSUME IInv, IInv', TakeDisplay
    PROVE  Immediate!CopyDisplay
<1>0. PICK t \in NextDisplays :
        /\ latest' = [target |-> t, image |-> Due]
        /\ gpu' = CopyBehind(gpu, t, call.clear)
  BY DEF TakeDisplay, CopyBehind
<1>1. /\ TypeOK /\ CallOk /\ Published /\ JobsOk /\ Served /\ call.at = "take" /\ call.clear \in BOOLEAN
      /\ stamp' = stamp + 1 /\ UNCHANGED <<fifo, batch, efb, copies, inFrame, output>>
  BY DEF IInv, TakeDisplay, gpuSide, copySide, status, TypeOK
<1>2. inFrame /\ stamp < MaxStamp /\ fifo = <<>> /\ batch = <<>>
  BY <1>1 DEF CallOk, Calls, Idle, Drained
<1>3. t \in Texture \union Display /\ gpu \in Seq(AllJobs(stamp, core))
  BY <1>1, NextDisplayFacts DEF JobsOk
<1>4. After(gpu', efb) = IF call.clear THEN stamp + 1 ELSE After(gpu, efb)
  BY <1>0, <1>1, <1>2, <1>3, CopyBehindFacts
<1>5. Due = After(gpu, efb) /\ Due' = After(gpu', efb)
  BY <1>1, <1>2, DueFacts
<1>6. Latest' = Due
  <2>1. latest' # None /\ latest'.image = Due
    <3>1. latest' \in Held
      BY <1>0, <1>1, <1>3, DueBound DEF Held
    <3> QED BY <1>0, <3>1, FrameAssumption
  <2> QED BY <2>1, <1>1, <1>2 DEF Latest
<1>7. /\ (~inFrame /\ fifo # <<>>)' = (~inFrame /\ fifo # <<>>)
      /\ (~inFrame /\ batch # <<>>)' = (~inFrame /\ batch # <<>>)
  BY <1>1
<1>8. Tex' = Tex
  BY <1>1 DEF Tex
<1> QED BY <1>1, <1>2, <1>4, <1>5, <1>6, <1>7, <1>8
        DEF Immediate!CopyDisplay, Immediate!Issue, Immediate!Paint, Immediate!frame, Tex, Latest

LEMMA TakeDisplayFailsMaps ==
    ASSUME IInv, IInv', TakeDisplayFails
    PROVE  Immediate!CopyFails
<1>1. /\ TypeOK /\ CallOk /\ Published /\ JobsOk /\ Served /\ call.at = "take" /\ call.clear \in BOOLEAN
      /\ stamp' = stamp + 1 /\ UNCHANGED <<fifo, batch, efb, copies, latest, inFrame, output>>
      /\ gpu' = gpu \/ \E t \in NextDisplays, clear \in BOOLEAN : gpu' = CopyBehind(gpu, t, clear)
  BY DEF IInv, TakeDisplayFails, gpuSide, copySide, status, TypeOK, CopyBehind
<1>2. inFrame /\ stamp < MaxStamp /\ fifo = <<>> /\ batch = <<>> /\ gpu \in Seq(AllJobs(stamp, core))
  BY <1>1 DEF CallOk, Calls, Idle, Drained, JobsOk
<1>3. After(gpu', efb) \in {After(gpu, efb), stamp + 1}
  <2>1. ASSUME NEW t \in NextDisplays, NEW clear \in BOOLEAN, gpu' = CopyBehind(gpu, t, clear)
        PROVE  After(gpu', efb) \in {After(gpu, efb), stamp + 1}
    <3>1. t \in Texture \union Display
      BY <1>1, NextDisplayFacts
    <3>2. After(gpu', efb) = IF clear THEN stamp + 1 ELSE After(gpu, efb)
      BY <1>1, <1>2, <2>1, <3>1, CopyBehindFacts
    <3> QED BY <3>2
  <2> QED BY <1>1, <2>1
<1>4. Due = After(gpu, efb) /\ Due' = After(gpu', efb)
  BY <1>1, <1>2, DueFacts
<1> QED BY <1>1, <1>2, <1>3, <1>4, FailsMaps

LEMMA EncodeMaps ==
    ASSUME IInv, IInv', Encode
    PROVE  \E d \in Dest : Immediate!Read(d)
<1> DEFINE d == call.dest
<1>1. /\ CallOk /\ TypeOK /\ Published /\ Joined /\ Kept
      /\ call.at = "encode" /\ output' = memory[copies[d].target]
      /\ UNCHANGED <<fifo, batch, gpu, efb, copies, latest, inFrame, stamp, core>>
  BY DEF IInv, Encode, gpuSide, display, status
<1>2. d \in Dest /\ copies[d] # None
  <2>1. call.dest \in due
    BY <1>1 DEF CallOk, Calls, Idle
  <2> QED BY <2>1, <1>1 DEF TypeOK, Published
<1>3. memory[copies[d].target] = copies[d].image
  <2>1. CopiesTo(gpu, copies[d].target) = {}
    BY <1>1 DEF Joined, Unfinished, Blits, CopiesTo
  <2> QED BY <2>1, <1>1, <1>2 DEF Kept, Keeps, Promised
<1> HIDE DEF d
<1>4. Tex[d] = copies[d].image
  BY <1>2 DEF Tex
<1>5. Due' = Due
  BY <1>1, DueFacts
<1>6. /\ (~inFrame /\ fifo # <<>>)' = (~inFrame /\ fifo # <<>>)
      /\ (~inFrame /\ batch # <<>>)' = (~inFrame /\ batch # <<>>)
  BY <1>1
<1>7. Tex' = Tex /\ Latest' = Latest
  BY <1>1 DEF Tex, Latest
<1>8. Immediate!Read(d)
  BY <1>1, <1>3, <1>4, <1>5, <1>6, <1>7 DEF Immediate!Read, Immediate!frame, Tex, Latest
<1> QED BY <1>2, <1>8

LEMMA FillMaps ==
    ASSUME IInv, IInv', Fill
    PROVE  Immediate!BeginFrame
<1> DEFINE j == ClearJob(stamp + 1)
<1>1. /\ CallOk /\ TypeOK /\ Published /\ JobsOk /\ call.at = "fill"
      /\ gpu' = Append(gpu, j) /\ stamp' = stamp + 1 /\ inFrame' = TRUE /\ latest' = None
      /\ UNCHANGED <<fifo, batch, efb, copies, output>>
  BY DEF IInv, Fill, gpuSide, copySide
<1>2. ~inFrame /\ stamp < MaxStamp
  BY <1>1 DEF CallOk, Calls, Idle
<1>3. j \in Job /\ gpu \in Seq(Job)
  BY <1>1, <1>2, NewJobs, WorkFacts
<1>4. j.to = Efb /\ j.stamp = stamp + 1
  BY DEF ClearJob
<1> HIDE DEF j
<1>5. After(gpu', efb) = stamp + 1
  <2>1. gpu' = gpu \o <<j>> /\ <<j>> \in Seq(Job)
    BY <1>1, <1>3, AppendIsConcat
  <2>2. After(gpu \o <<j>>, efb) = After(<<j>>, After(gpu, efb))
    BY <1>3, <2>1, AfterConcat
  <2> QED BY <1>3, <1>4, <2>1, <2>2, AfterOne
<1>6. Due' = IF fifo # <<>> \/ batch # <<>> THEN Due ELSE stamp + 1
  BY <1>1, <1>5, DueFacts
<1>7. /\ (~inFrame /\ fifo # <<>>) = (fifo # <<>>) /\ (~inFrame /\ fifo # <<>>)' = FALSE
      /\ (~inFrame /\ batch # <<>>) = (batch # <<>>) /\ (~inFrame /\ batch # <<>>)' = FALSE
  BY <1>1, <1>2
<1>8. Tex' = Tex /\ Latest' = Latest
  BY <1>1, <1>2 DEF Tex, Latest
<1> QED BY <1>1, <1>2, <1>6, <1>7, <1>8
        DEF Immediate!BeginFrame, Immediate!Issue, Immediate!Paint, Tex, Latest

LEMMA FlipMaps ==
    ASSUME IInv, IInv', Flip
    PROVE  Immediate!EndFrame
<1>1. /\ CallOk /\ TypeOK /\ Presented /\ call.at = "flip"
      /\ output' = back /\ inFrame' = FALSE
      /\ UNCHANGED <<fifo, batch, gpu, efb, copies, latest, core, stamp>>
  BY DEF IInv, Flip, copySide, display
<1>2. call.op = "end" /\ inFrame /\ ~failed /\ fifo = <<>> /\ batch = <<>>
  BY <1>1 DEF CallOk, Calls, Idle, Drained
<1>3. back = Shown
  <2>1. ~Unfinished({"present"})
    BY <1>1, <1>2 DEF Presented, Unfinished
  <2> QED BY <1>1, <1>2, <2>1 DEF Presented
<1>4. output' = IF Latest = None THEN Due ELSE Latest
  <2>1. latest # None => latest.image # None
    <3>1. latest # None => latest.image \in Nat
      BY <1>1, FrameAssumption DEF TypeOK, Held, Image
    <3> QED BY <3>1, FrameAssumption
  <2> QED BY <2>1, <1>1, <1>2, <1>3 DEF Shown, Latest
<1>5. Due' = Due
  BY <1>1, DueFacts
<1>6. /\ (~inFrame /\ fifo # <<>>)' = (~inFrame /\ fifo # <<>>)
      /\ (~inFrame /\ batch # <<>>)' = (~inFrame /\ batch # <<>>)
  BY <1>1, <1>2
<1>7. Tex' = Tex /\ Latest' = None
  BY <1>1 DEF Tex, Latest
<1> QED BY <1>1, <1>2, <1>4, <1>5, <1>6, <1>7 DEF Immediate!EndFrame, Tex, Latest

\* A frame that is given up.
LEMMA AbandonMaps ==
    ASSUME IInv, IInv', inFrame, inFrame' = FALSE, UNCHANGED <<copies, stamp, output>>
    PROVE  Immediate!Abandon
<1>1. Due' \in 0 .. stamp
  BY DueFacts
<1>2. Tex' = Tex /\ Latest' = None
  BY DEF Tex, Latest
<1>3. (~inFrame /\ fifo # <<>>)' \in BOOLEAN /\ (~inFrame /\ batch # <<>>)' \in BOOLEAN
  OBVIOUS
<1> QED BY <1>1, <1>2, <1>3 DEF Immediate!Abandon, Tex, Latest

LEMMA CloseMaps ==
    ASSUME IInv, IInv', Close
    PROVE  Immediate!Abandon \/ UNCHANGED Immediate!vars
<1>1. /\ UNCHANGED <<batch, gpu, efb, copies, latest, core, stamp, output>> /\ inFrame' = FALSE
      /\ fifo' = IF inFrame THEN <<>> ELSE fifo
  BY DEF Close, gpuSide, copySide, display
<1>2. CASE inFrame
  BY <1>1, <1>2, AbandonMaps
<1>3. CASE ~inFrame
  <2>1. inFrame' = inFrame
    BY <1>1, <1>3 DEF IInv, TypeOK
  <2>2. Due' = Due
    BY <1>1, <1>3, DueFacts
  <2> QED BY <1>1, <1>3, <2>1, <2>2, Stutters
<1> QED BY <1>2, <1>3

LEMMA CallFailsMaps ==
    ASSUME IInv, IInv', CallFails
    PROVE  Immediate!Abandon \/ UNCHANGED Immediate!vars
<1>1. /\ UNCHANGED <<fifo, batch, gpu, efb, copies, latest, core, stamp, output>>
      /\ inFrame' = (inFrame /\ call.op # "end") /\ inFrame \in BOOLEAN /\ CallOk
  BY DEF CallFails, IInv, TypeOK, gpuSide, copySide, display
<1>2. CASE call.op = "end"
  <2>1. inFrame /\ inFrame' = FALSE
    BY <1>1, <1>2 DEF CallOk
  <2> QED BY <1>1, <2>1, AbandonMaps
<1>3. CASE call.op # "end"
  <2>1. inFrame' = inFrame
    BY <1>1, <1>3
  <2>2. Due' = Due
    BY <1>1, DueFacts
  <2> QED BY <1>1, <2>1, <2>2, Stutters
<1> QED BY <1>2, <1>3

LEMMA NextMaps ==
    ASSUME IInv, [Next]_vars
    PROVE  [Immediate!Next]_(Immediate!vars)
<1>0. IInv'
  BY NextKeepsIInv
<1>1. ASSUME NEW tex \in Dest \union {None}, Draw(tex)
      PROVE  Immediate!Next
  BY <1>0, <1>1, DrawMaps DEF Immediate!Next
<1>2. ASSUME NEW d \in Dest, NEW clear \in BOOLEAN, CopyTexture(d, clear)
      PROVE  Immediate!Next
  BY <1>0, <1>2, CopyTextureMaps DEF Immediate!Next
<1>3. CASE \/ CopyTextureFails \/ TakeDisplay \/ TakeDisplayFails \/ Encode \/ Fill \/ Flip
  BY <1>0, <1>3, CopyTextureFailsMaps, TakeDisplayMaps, TakeDisplayFailsMaps, EncodeMaps, FillMaps,
     FlipMaps DEF Immediate!Next
<1>4. CASE Close \/ CallFails \/ FinishDraws
  BY <1>0, <1>4, CloseMaps, CallFailsMaps, FinishDrawsMaps DEF Immediate!Next
<1>5. CASE \/ Drain \/ SubmitBatch \/ End \/ Present \/ NewCore \/ Release \/ GpuEnd
           \/ \E clear \in BOOLEAN : CopyDisplay(clear)
  BY <1>0, <1>5, DrainMaps, SubmitBatchMaps, EndMaps, PresentMaps, NewCoreMaps, ReleaseMaps, GpuEndMaps,
     CopyDisplayMaps
<1>6. CASE \/ CheckPool \/ JoinDraws \/ JoinBlits
           \/ (\E d \in Dest : ReadCopy(d)) \/ (\E fresh \in BOOLEAN : Begin(fresh))
  BY <1>0, <1>6, CallStepMaps
<1>7. CASE UNCHANGED vars
  <2>1. UNCHANGED <<fifo, batch, gpu, efb, copies, latest, core, inFrame, stamp, output>>
    BY <1>7 DEF vars, gpuSide, copySide, display, status
  <2>2. Due' = Due
    BY <1>0, <2>1, DueFacts
  <2> QED BY <2>1, <2>2, Stutters
<1> QED BY <1>1, <1>2, <1>3, <1>4, <1>5, <1>6, <1>7 DEF Next

\* FIFO, batches, asynchronous copies, pools and the presenter act, on everything the
\* game and the player see, as if each command had run when it was issued.
THEOREM ImmediateImplemented == Spec => ImplementsImmediate
<1>1. Init => Immediate!Init
  <2>1. ASSUME Init
        PROVE  Immediate!Init
    <3>1. IInv /\ fifo = <<>> /\ batch = <<>> /\ gpu = <<>> /\ efb = 0 /\ inFrame = FALSE
      BY <2>1, InitKeeps DEF Init
    <3>2. Due = 0
      <4>1. After(gpu, efb) = efb
        BY <3>1, AfterNone
      <4> QED BY <3>1, <4>1, DueSplit DEF IInv
    <3>3. Tex = [d \in Dest |-> 0]
      BY <2>1 DEF Init, Tex
    <3> QED BY <2>1, <3>1, <3>2, <3>3 DEF Init, Immediate!Init, Tex
  <2> QED BY <2>1
<1>2. IInv /\ [Next]_vars => [Immediate!Next]_(Immediate!vars)
  BY NextMaps
<1> QED BY <1>1, <1>2, Invariance, PTL DEF Spec, ImplementsImmediate, Immediate!Spec
=============================================================================
