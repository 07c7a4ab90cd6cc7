------------------------- MODULE GxCopyStore_proofs -------------------------
(***************************************************************************)
(* Deferred EFB copies are invisible, for any RAM and any number of copies *)
(* and stores.                                                             *)
(*                                                                         *)
(* StoreAgrees is not inductive: which registrations publish() may cancel  *)
(* depends on what its resolution loop has left, on the tokens being       *)
(* unique, and on every view having the tracked range that retires it.     *)
(* IInv adds this, and the refinement of GuestRam rests on it.             *)
(*                                                                         *)
(* That every access asks the registry is the business of DeferredPages:   *)
(* no fast path is open where a byte is pending, for any sizes of pages,   *)
(* windows and ranges.  PagesInv says that the tables are exactly what the *)
(* pending ranges say.                                                     *)
(***************************************************************************)
EXTENDS GxCopyStore, DeferredPages, FiniteSetTheorems, TLAPS

\* Tokens are handed out once; what is tracked is the source of every view.
Tokens ==
    /\ views \subseteq ranges
    /\ \A x \in ranges : x.token <= stamp
    /\ \A x, y \in ranges : x.token = y.token => x = y

\* What the callback in progress materializes is still registered.
Marked == call.at = "materialize" => \E r \in reads : r.token = executing

\* The operation in progress, what it has to resolve, and the write it may make.
CallOk ==
    IF call.at = "idle" THEN call = Idle
    ELSE /\ call.op # "none" /\ call.cells \in Ranges
         /\ call.todo = IF call.op = "publish"
                        THEN UNION {x.cells : x \in PartlyCovered(call.cells)}
                        ELSE call.cells
         /\ call.op # "read" => Room(1)
         /\ call.at = "resolved" => Overlaps(reads, call.todo) = {}

\* A tracked range that has been materialized is in RAM, but for stores since.
Written ==
    \A x \in ranges \ reads : \A c \in x.cells : c \in dirty \/ ram[c] = x.token

IInv == TypeOK /\ PendingDisjoint /\ Tokens /\ Marked /\ CallOk /\ Written

-----------------------------------------------------------------------------
(* The operators of the model.                                              *)

\* A range has a cell, and each cell is a range.
LEMMA RangeFacts ==
    /\ \A cells \in Ranges : cells # {} /\ cells \subseteq Cell
    /\ \A c \in Cell : {c} \in Ranges
<1>1. ASSUME NEW c \in Cell PROVE {c} \in Ranges
  <2>1. c .. c = {c} /\ {c} # {}
    BY StoreAssumption DEF Cell
  <2>2. \E a, b \in Cell : {c} = a .. b
    BY <2>1
  <2> QED
    BY <2>1, <2>2 DEF Ranges
<1>2. ASSUME NEW cells \in Ranges PROVE cells # {} /\ cells \subseteq Cell
  BY StoreAssumption DEF Ranges, Cell
<1> QED
  BY <1>1, <1>2

\* RAM with the copies of rs written to it.
Due(rs, m) == [c \in Cell |-> IF \E r \in rs : c \in r.cells
                              THEN (CHOOSE r \in rs : c \in r.cells).token ELSE m[c]]

\* With disjoint copies there is one that decides a cell, or none.
LEMMA DueFacts ==
    ASSUME NEW rs, NEW m, NEW c \in Cell,
           \A x, y \in rs : x # y => x.cells \intersect y.cells = {}
    PROVE  /\ \A r \in rs : c \in r.cells => Due(rs, m)[c] = r.token
           /\ (\A r \in rs : c \notin r.cells) => Due(rs, m)[c] = m[c]
<1>1. ASSUME NEW r \in rs, c \in r.cells PROVE Due(rs, m)[c] = r.token
  <2> DEFINE q == CHOOSE x \in rs : c \in x.cells
  <2>1. q \in rs /\ c \in q.cells
    BY <1>1
  <2>2. q = r
    BY <1>1, <2>1
  <2>3. Due(rs, m)[c] = q.token
    BY <1>1 DEF Due
  <2> QED
    BY <2>2, <2>3
<1>2. ASSUME \A r \in rs : c \notin r.cells PROVE Due(rs, m)[c] = m[c]
  BY <1>2 DEF Due
<1> QED
  BY <1>1, <1>2

\* What the guest sees is decided cell by cell.
LEMMA SameDue ==
    ASSUME NEW rs, NEW m, NEW f, f = [c \in Cell |-> f[c]],
           \A x, y \in rs : x # y => x.cells \intersect y.cells = {},
           \A c \in Cell : \/ \E r \in rs : c \in r.cells /\ f[c] = r.token
                           \/ (\A r \in rs : c \notin r.cells) /\ f[c] = m[c]
    PROVE  Due(rs, m) = f
<1>1. ASSUME NEW c \in Cell PROVE Due(rs, m)[c] = f[c]
  BY <1>1, DueFacts
<1>2. Due(rs, m) = [c \in Cell |-> Due(rs, m)[c]]
  BY DEF Due
<1> QED
  BY <1>1, <1>2

\* Before and after a step, Contents is RAM with the registered copies.
LEMMA ContentsDue == Contents = Due(reads, ram) /\ Contents' = Due(reads', ram')
BY DEF Contents, Due

\* A registration is tracked, so registrations are as disjoint as ranges.
LEMMA ReadsDisjoint ==
    ASSUME PendingDisjoint
    PROVE  \A x, y \in reads : x # y => x.cells \intersect y.cells = {}
BY DEF PendingDisjoint

\* Once an operation has resolved what it overlaps, a registration in its way is
\* one that publish() replaces as a whole, and it is cancelled.
LEMMA ResolvedFacts ==
    ASSUME IInv, call.at = "resolved"
    PROVE  /\ executing = 0
           /\ call.op # "none" /\ call.cells \in Ranges
           /\ call.op # "publish" => Overlaps(reads, call.cells) = {}
           /\ Cancelled(call.cells) = Overlaps(reads, call.cells)
           /\ \A r \in Cancelled(call.cells) : r.cells \subseteq call.cells
<1>1. executing = 0 /\ call.op # "none" /\ call.cells \in Ranges
  BY DEF IInv, TypeOK, CallOk
<1>2. call.op # "publish" => Overlaps(reads, call.cells) = {}
  BY DEF IInv, CallOk
<1>3. Cancelled(call.cells) = Overlaps(reads, call.cells)
  <2>1. ASSUME NEW r \in reads PROVE r \in ranges /\ r.token # executing /\ r \in Copy
    BY <1>1, <2>1 DEF IInv, TypeOK, PendingDisjoint, Copy
  <2>2. Cancelled(call.cells) \subseteq Overlaps(reads, call.cells)
    BY <2>1 DEF Cancelled, Overlaps, IInv, Tokens
  <2>3. Overlaps(reads, call.cells) \subseteq Cancelled(call.cells)
    BY <2>1 DEF Cancelled, Overlaps
  <2> QED
    BY <2>2, <2>3
<1>4. ASSUME NEW r \in Cancelled(call.cells) PROVE r.cells \subseteq call.cells
  <2>1. r \in reads /\ r \in ranges /\ r.cells \intersect call.cells # {}
    BY <1>3, <1>4 DEF Overlaps, IInv, PendingDisjoint
  <2>2. CASE call.op = "publish"
    <3>1. ASSUME ~(r.cells \subseteq call.cells) PROVE FALSE
      <4>1. r \in PartlyCovered(call.cells)
        BY <2>1, <3>1 DEF PartlyCovered, Overlaps
      <4>2. r.cells \subseteq call.todo
        BY <2>2, <4>1 DEF IInv, CallOk
      <4>3. r \in Overlaps(reads, call.todo)
        BY <2>1, <4>2 DEF Overlaps
      <4> QED
        BY <4>3 DEF IInv, CallOk
    <3> QED
      BY <3>1
  <2>3. CASE call.op # "publish"
    BY <1>2, <1>3, <1>4, <2>3
  <2> QED
    BY <2>2, <2>3
<1> QED
  BY <1>1, <1>2, <1>3, <1>4

\* Writing a registered copy to RAM and forgetting it changes nothing that is
\* due, and nothing the guest sees.
LEMMA SettleKeeps ==
    ASSUME IInv, NEW r \in reads, ram' = Settled(r), reads' = reads \ {r},
           UNCHANGED <<store, stamp, dirty>>
    PROVE  /\ ram' \in [Cell -> 0 .. MaxStamp]
           /\ PendingDisjoint' /\ Tokens' /\ Written' /\ Contents' = Contents
<1> USE DEF IInv, store
<1>1. r \in ranges /\ r \in Copy /\ r.token \in 1 .. MaxStamp
  BY DEF TypeOK, PendingDisjoint, Copy
<1>2. ram' \in [Cell -> 0 .. MaxStamp]
  BY <1>1, StoreAssumption DEF TypeOK, Settled
<1>3. PendingDisjoint' /\ Tokens'
  BY DEF PendingDisjoint, Tokens
<1>4. ASSUME NEW x \in ranges, x \notin reads', NEW c \in x.cells
      PROVE  c \in dirty' \/ ram'[c] = x.token
  <2>0. c \in Cell
    BY <1>4, RangeFacts DEF TypeOK, Copy
  <2>1. CASE x = r
    BY <1>4, <2>0, <2>1 DEF Settled
  <2>2. CASE x # r
    <3>1. x \notin reads /\ c \notin r.cells
      BY <1>1, <1>4, <2>2 DEF PendingDisjoint
    <3> QED
      BY <1>4, <2>0, <3>1 DEF Settled, Written
  <2> QED
    BY <2>1, <2>2
<1>5. Written'
  BY <1>4 DEF Written
<1>6. Due(reads', ram') = Contents
  <2>1. \A x, y \in reads' : x # y => x.cells \intersect y.cells = {}
    BY ReadsDisjoint
  <2>2. ASSUME NEW c \in Cell
        PROVE  \/ \E x \in reads' : c \in x.cells /\ Contents[c] = x.token
               \/ (\A x \in reads' : c \notin x.cells) /\ Contents[c] = ram'[c]
    <3>1. CASE c \in r.cells
      BY <3>1, ReadsDisjoint, DueFacts, ContentsDue DEF Settled
    <3>2. CASE c \notin r.cells
      BY <3>2, ReadsDisjoint, DueFacts, ContentsDue DEF Settled
    <3> QED
      BY <3>1, <3>2
  <2>3. Contents = [c \in Cell |-> Contents[c]]
    BY DEF Contents
  <2> QED
    BY <2>1, <2>2, <2>3, SameDue
<1> QED
  BY <1>2, <1>3, <1>5, <1>6, ContentsDue

\* A store that meets no registration is seen at once, and as it was made.
LEMMA StoreSeen ==
    ASSUME PendingDisjoint, NEW cells \in SUBSET Cell, Overlaps(reads, cells) = {},
           Store(cells), UNCHANGED reads
    PROVE  Contents' = [c \in Cell |-> IF c \in cells THEN stamp + 1 ELSE Contents[c]]
<1> DEFINE f == [c \in Cell |-> IF c \in cells THEN stamp + 1 ELSE Contents[c]]
<1>1. ASSUME NEW c \in Cell
      PROVE  \/ \E x \in reads' : c \in x.cells /\ f[c] = x.token
             \/ (\A x \in reads' : c \notin x.cells) /\ f[c] = ram'[c]
  <2>1. CASE c \in cells
    BY <2>1 DEF Overlaps, Store
  <2>2. CASE c \notin cells
    BY <2>2, ReadsDisjoint, DueFacts, ContentsDue DEF Store
  <2> QED
    BY <2>1, <2>2
<1>2. Due(reads', ram') = f
  <2> HIDE DEF f
  <2>1. f = [c \in Cell |-> f[c]]
    BY DEF f
  <2> QED
    BY <1>1, <2>1, ReadsDisjoint, SameDue
<1> QED
  BY <1>2, ContentsDue

-----------------------------------------------------------------------------
(* The invariant.                                                           *)

LEMMA InitIInv == Init => IInv
<1> SUFFICES ASSUME Init PROVE IInv
  OBVIOUS
<1>1. TypeOK
  BY StoreAssumption DEF Init, TypeOK, Idle
<1>2. PendingDisjoint /\ Tokens /\ Marked /\ CallOk /\ Written
  BY DEF Init, PendingDisjoint, Tokens, Marked, CallOk, Written, Idle
<1> QED
  BY <1>1, <1>2 DEF IInv

\* A call begins, with what it will have to resolve.
LEMMA CallsKeepIInv ==
    ASSUME IInv,
           \/ \E c \in Cell : CallAccess("read", {c}) \/ CallAccess("write", {c})
           \/ \E cells \in Ranges : CallAccess("bulk", cells) \/ CallPublish(cells)
    PROVE  IInv'
<1> USE RangeFacts DEF IInv, memory, store
<1>1. PendingDisjoint' /\ Tokens' /\ Written'
  BY DEF CallAccess, CallPublish, PendingDisjoint, Tokens, Written
<1>2. ASSUME NEW op \in {"read", "write", "bulk"}, NEW cells \in Ranges, CallAccess(op, cells)
      PROVE  TypeOK' /\ Marked' /\ CallOk'
  <2>1. TypeOK'
    BY <1>2 DEF CallAccess, TypeOK, Idle
  <2>2. Marked' /\ CallOk'
    BY <1>2 DEF CallAccess, Marked, CallOk, Idle, Room
  <2> QED
    BY <2>1, <2>2
<1>3. ASSUME NEW cells \in Ranges, CallPublish(cells)
      PROVE  TypeOK' /\ Marked' /\ CallOk'
  <2>1. UNION {x.cells : x \in PartlyCovered(cells)} \subseteq Cell
    BY DEF PartlyCovered, Overlaps, TypeOK, Copy
  <2>2. TypeOK'
    BY <1>3, <2>1 DEF CallPublish, TypeOK, Idle
  <2>3. Marked' /\ CallOk'
    BY <1>3 DEF CallPublish, Marked, CallOk, Idle, Room, PartlyCovered, Overlaps
  <2> QED
    BY <2>2, <2>3
<1> QED
  BY <1>1, <1>2, <1>3

\* The resolution loop takes a registration, or finds none left.
LEMMA ResolveKeepsIInv ==
    ASSUME IInv, ResolveNext \/ ResolveDone
    PROVE  IInv'
<1> USE DEF IInv, memory, store
<1>1. PendingDisjoint' /\ Tokens' /\ Written'
  BY DEF ResolveNext, ResolveDone, PendingDisjoint, Tokens, Written
<1>2. CASE ResolveNext
  <2>1. \A r \in reads : r.token \in 0 .. MaxStamp
    BY StoreAssumption DEF TypeOK, Copy
  <2>2. TypeOK'
    BY <1>2, <2>1 DEF ResolveNext, TypeOK, Overlaps
  <2>3. Marked' /\ CallOk'
    BY <1>2 DEF ResolveNext, Marked, CallOk, Idle, Room, PartlyCovered, Overlaps, TypeOK
  <2> QED
    BY <1>1, <2>2, <2>3
<1>3. CASE ResolveDone
  <2>1. TypeOK'
    BY <1>3 DEF ResolveDone, TypeOK
  <2>2. Marked' /\ CallOk'
    BY <1>3 DEF ResolveDone, Marked, CallOk, Idle, Room, PartlyCovered, Overlaps, TypeOK
  <2> QED
    BY <1>1, <2>1, <2>2
<1> QED
  BY <1>2, <1>3

\* A materialization settles one registration; one in the callback another.
LEMMA MaterializeKeepsIInv ==
    ASSUME IInv, Materialize \/ \E c \in Cell : CallbackResolves(c)
    PROVE  IInv' /\ Contents' = Contents
<1> USE DEF IInv, memory, store
<1>1. CASE Materialize
  <2>1. PICK r \in reads : r.token = executing /\ ram' = Settled(r) /\ reads' = reads \ {r}
    BY <1>1 DEF Materialize
  <2>2. /\ ram' \in [Cell -> 0 .. MaxStamp]
        /\ PendingDisjoint' /\ Tokens' /\ Written' /\ Contents' = Contents
    BY <1>1, <2>1, SettleKeeps DEF Materialize
  <2>3. TypeOK'
    BY <1>1, <2>1, <2>2, StoreAssumption DEF Materialize, TypeOK
  <2>4. Marked' /\ CallOk'
    BY <1>1 DEF Materialize, Marked, CallOk, Idle, Room, PartlyCovered, Overlaps, TypeOK
  <2> QED
    BY <2>2, <2>3, <2>4
<1>2. CASE \E c \in Cell : CallbackResolves(c)
  <2>1. PICK r \in reads : r.token # executing /\ ram' = Settled(r) /\ reads' = reads \ {r}
    BY <1>2 DEF CallbackResolves, Overlaps
  <2>2. /\ ram' \in [Cell -> 0 .. MaxStamp]
        /\ PendingDisjoint' /\ Tokens' /\ Written' /\ Contents' = Contents
    BY <1>2, <2>1, SettleKeeps DEF CallbackResolves
  <2>3. TypeOK'
    BY <1>2, <2>1, <2>2 DEF CallbackResolves, TypeOK
  <2>4. Marked'
    BY <1>2, <2>1 DEF CallbackResolves, Marked
  <2>5. CallOk'
    BY <1>2, <2>1 DEF CallbackResolves, InCallback, CallOk, Idle, Room, PartlyCovered, Overlaps
  <2> QED
    BY <2>2, <2>3, <2>4, <2>5
<1> QED
  BY <1>1, <1>2

\* An operation that ends with an exception changes nothing that is due.
LEMMA FailureKeepsIInv ==
    ASSUME IInv, MaterializeFails \/ PublishFails \/ \E c \in Cell : CallbackRefused(c)
    PROVE  IInv'
<1> USE DEF IInv, memory, store
<1>1. /\ call' = Idle /\ executing' = 0
      /\ UNCHANGED <<ram, reads, ranges, views, stamp, returned, dirty>>
  BY ResolvedFacts DEF MaterializeFails, PublishFails, CallbackRefused, Return
<1>2. PendingDisjoint' /\ Tokens' /\ Written'
  BY <1>1 DEF PendingDisjoint, Tokens, Written
<1>3. TypeOK'
  BY <1>1, StoreAssumption DEF TypeOK, Idle
<1>4. Marked' /\ CallOk'
  BY <1>1 DEF Marked, CallOk, Idle
<1> QED
  BY <1>2, <1>3, <1>4

\* A store by the guest's CPU leaves its cells dirty.
LEMMA ScalarKeepsIInv ==
    ASSUME IInv, Read \/ Write \/ \E c \in Cell : CallbackAccess(c)
    PROVE  IInv'
<1> USE DEF IInv, memory, store
<1>1. PendingDisjoint'
  BY DEF Read, Write, CallbackAccess, PendingDisjoint
<1>2. CASE Read
  <2>1. \A c \in call.cells : ram[c] \in 0 .. MaxStamp
    BY <1>2, ResolvedFacts, RangeFacts DEF Read, TypeOK
  <2>2. TypeOK'
    BY <1>2, <2>1 DEF Read, Load, Return, TypeOK, Idle
  <2>3. Tokens' /\ Marked' /\ CallOk' /\ Written'
    BY <1>2 DEF Read, Return, Tokens, Marked, CallOk, Written, Idle
  <2> QED
    BY <1>1, <2>2, <2>3
<1>3. CASE Write
  <2>1. call.cells \subseteq Cell /\ stamp + 1 \in 0 .. MaxStamp
    BY <1>3, ResolvedFacts, RangeFacts, StoreAssumption DEF Write, TypeOK, CallOk, Room
  <2>2. TypeOK'
    BY <1>3, <2>1 DEF Write, Store, Return, TypeOK, Idle
  <2>3. Tokens'
    BY <1>3 DEF Write, Store, Tokens, TypeOK, Copy
  <2>4. Marked' /\ CallOk'
    BY <1>3 DEF Write, Return, Marked, CallOk, Idle
  <2>5. Written'
    BY <1>3, RangeFacts DEF Write, Store, Written, TypeOK, Copy
  <2> QED
    BY <1>1, <2>2, <2>3, <2>4, <2>5
<1>4. ASSUME NEW c \in Cell, CallbackAccess(c)
      PROVE  IInv'
  <2>1. CASE Load(c) /\ UNCHANGED <<ram, stamp, dirty>>
    <3>1. TypeOK'
      BY <1>4, <2>1 DEF CallbackAccess, Load, TypeOK
    <3>2. Tokens' /\ Marked' /\ CallOk' /\ Written'
      BY <1>4, <2>1 DEF CallbackAccess, Tokens, Marked, CallOk, Written, Room, PartlyCovered, Overlaps
    <3> QED
      BY <1>1, <1>4, <3>1, <3>2
  <2>2. CASE Room(2) /\ Store({c}) /\ dirty' = dirty \union {c} /\ UNCHANGED returned
    <3>1. stamp + 1 \in 0 .. MaxStamp
      BY <2>2, StoreAssumption DEF TypeOK, Room
    <3>2. TypeOK'
      BY <1>4, <2>2, <3>1 DEF CallbackAccess, Store, TypeOK
    <3>3. Tokens' /\ Marked'
      BY <1>4, <2>2 DEF CallbackAccess, Store, Tokens, Marked, TypeOK, Copy
    <3>4. CallOk'
      BY <1>4, <2>2, StoreAssumption
      DEF CallbackAccess, InCallback, Store, CallOk, Room, PartlyCovered, Overlaps, TypeOK
    <3>5. Written'
      BY <1>4, <2>2, RangeFacts DEF CallbackAccess, Store, Written, TypeOK, Copy
    <3> QED
      BY <1>1, <1>4, <3>2, <3>3, <3>4, <3>5
  <2> QED
    BY <1>4, <2>1, <2>2 DEF CallbackAccess
<1> QED
  BY <1>2, <1>3, <1>4

\* A bulk write retires the ranges it overlaps, and with them their views.
LEMMA BulkKeepsIInv == ASSUME IInv, BulkWrite PROVE IInv'
<1> USE DEF IInv, memory, store
<1>1. /\ call.cells \subseteq Cell /\ stamp + 1 \in 0 .. MaxStamp
      /\ Overlaps(reads, call.cells) = {}
  BY ResolvedFacts, RangeFacts, StoreAssumption DEF BulkWrite, TypeOK, CallOk, Room
<1>2. ranges' \subseteq ranges /\ reads' = reads /\ executing' = executing
  BY DEF BulkWrite
<1>3. PendingDisjoint'
  BY <1>1, <1>2 DEF BulkWrite, PendingDisjoint, Overlaps
<1>4. TypeOK'
  BY <1>1, <1>2 DEF BulkWrite, Store, Return, TypeOK, Idle
<1>5. Tokens'
  <2>1. \A v \in views' : v \in ranges /\ v \notin Overlaps(ranges, call.cells)
    BY DEF BulkWrite, Stale, Tokens
  <2>2. views' \subseteq ranges'
    BY <2>1 DEF BulkWrite
  <2> QED
    BY <1>2, <2>2 DEF BulkWrite, Store, Tokens, TypeOK, Copy
<1>6. Marked' /\ CallOk'
  BY DEF BulkWrite, Return, Marked, CallOk, Idle
<1>7. Written'
  BY <1>2, RangeFacts DEF BulkWrite, Store, Overlaps, Written, TypeOK, Copy
<1> QED
  BY <1>3, <1>4, <1>5, <1>6, <1>7

\* A publication cancels what it replaces; its own copy is the only tracked one
\* with its token, and the only one that meets its cells.
LEMMA PublishKeepsIInv == ASSUME IInv, Publish PROVE IInv'
<1> USE DEF IInv, memory, store
<1> DEFINE copy == [cells |-> call.cells, token |-> stamp + 1]
<1>1. /\ call.cells \in Ranges /\ call.cells \subseteq Cell /\ call.cells # {}
      /\ stamp + 1 \in 1 .. MaxStamp
      /\ Cancelled(call.cells) = Overlaps(reads, call.cells)
  BY ResolvedFacts, RangeFacts, StoreAssumption DEF Publish, TypeOK, CallOk, Room
<1>2. copy \in Copy
  BY <1>1 DEF Copy
<1>3. /\ reads' = (reads \ Overlaps(reads, call.cells)) \union {copy}
      /\ ranges' = (ranges \ Overlaps(ranges, call.cells)) \union {copy}
  BY <1>1 DEF Publish
<1>4. views' \subseteq ranges'
  BY <1>3 DEF Publish, Stale, Tokens
<1> HIDE DEF copy
<1>5. copy.cells = call.cells /\ copy.token = stamp + 1
  BY DEF copy
<1>6. PendingDisjoint'
  BY <1>3, <1>5 DEF PendingDisjoint, Overlaps
<1>7. TypeOK'
  BY <1>1, <1>2, <1>3, <1>4, StoreAssumption DEF Publish, Return, TypeOK, Idle
<1>8. Tokens'
  <2>1. \A x \in ranges : x.token \in Nat /\ x.token <= stamp /\ stamp \in Nat
    BY DEF TypeOK, Tokens, Copy
  <2>2. \A x \in ranges' : x.token <= stamp + 1
    BY <1>1, <1>3, <1>5, <2>1
  <2>3. \A x, y \in ranges' : x.token = y.token => x = y
    BY <1>3, <1>5, <2>1 DEF Tokens
  <2> QED
    BY <1>4, <2>2, <2>3 DEF Tokens, Publish
<1>9. Marked' /\ CallOk'
  BY DEF Publish, Return, Marked, CallOk, Idle
<1>10. Written'
  <2>1. \A x \in ranges' \ reads' : x \in ranges \ reads /\ x.cells \intersect call.cells = {}
    BY <1>3 DEF Overlaps
  <2> QED
    BY <2>1 DEF Publish, Written
<1> QED
  BY <1>6, <1>7, <1>8, <1>9, <1>10

LEMMA NextKeepsIInv == IInv /\ [Next]_vars => IInv'
<1> SUFFICES ASSUME IInv, [Next]_vars PROVE IInv'
  OBVIOUS
<1>1. CASE EvictView
  <2>1. views' \subseteq views /\ UNCHANGED <<memory, ranges, stamp, call, returned, dirty>>
    BY <1>1 DEF EvictView
  <2> QED
    BY <2>1 DEF IInv, memory, TypeOK, PendingDisjoint, Tokens, Marked, CallOk, Written,
                Room, PartlyCovered, Overlaps
<1>2. CASE UNCHANGED vars
  BY <1>2 DEF vars, memory, store, IInv, TypeOK, PendingDisjoint, Tokens, Marked, CallOk, Written,
              Room, PartlyCovered, Overlaps
<1> QED
  BY <1>1, <1>2, CallsKeepIInv, ResolveKeepsIInv, MaterializeKeepsIInv, FailureKeepsIInv,
     ScalarKeepsIInv, BulkKeepsIInv, PublishKeepsIInv DEF Next

\* The inductive invariant holds in every reachable state.
THEOREM Invariance == Spec => []IInv
  BY InitIInv, NextKeepsIInv, PTL DEF Spec

-----------------------------------------------------------------------------
\* What the store, Memory's registry and the cache of sampled copies believe of
\* each other is so: pending copies are disjoint and tracked, and a view shows the
\* bytes of its range but where the CPU stored (gx_copy_store.cpp,
\* ResolveDeferredReads()).
THEOREM StoreSafe == Spec => []StoreAgrees
<1>1. ASSUME IInv PROVE ViewsCurrent
  <2>1. ASSUME NEW v \in views, NEW c \in v.cells PROVE c \in dirty \/ Contents[c] = v.token
    <3>1. v \in ranges /\ c \in Cell
      BY <1>1, <2>1, RangeFacts DEF IInv, TypeOK, Tokens, Copy
    <3>2. CASE v \in reads
      BY <1>1, <2>1, <3>1, <3>2, ReadsDisjoint, DueFacts, ContentsDue DEF IInv
    <3>3. CASE v \notin reads
      <4>1. \A r \in reads : c \notin r.cells
        BY <1>1, <2>1, <3>1, <3>3 DEF IInv, PendingDisjoint
      <4>2. Contents[c] = ram[c]
        BY <1>1, <3>1, <4>1, ReadsDisjoint, DueFacts, ContentsDue DEF IInv
      <4> QED
        BY <1>1, <2>1, <3>1, <3>3, <4>2 DEF IInv, Written
    <3> QED
      BY <3>2, <3>3
  <2> QED
    BY <2>1 DEF ViewsCurrent
<1>2. IInv => StoreAgrees
  BY <1>1 DEF IInv, StoreAgrees
<1> QED
  BY <1>2, Invariance, PTL

-----------------------------------------------------------------------------
(* Deferral implements RAM.                                                 *)

\* The steps that write memory in the guest's eyes, each at once and whole.
LEMMA WritesRefine ==
    ASSUME IInv, Write \/ BulkWrite \/ Publish
    PROVE  Ram!Write(call.cells) /\ call.cells \in (SUBSET Cell) \ {{}}
<1>1. call.cells \in (SUBSET Cell) \ {{}} /\ UNCHANGED returned
  BY ResolvedFacts, RangeFacts DEF Write, BulkWrite, Publish
<1>2. CASE Write \/ BulkWrite
  <2>1. Overlaps(reads, call.cells) = {} /\ Store(call.cells) /\ UNCHANGED reads
    BY <1>2, ResolvedFacts DEF Write, BulkWrite
  <2> QED
    BY <1>1, <2>1, StoreSeen DEF IInv, Store, Ram!Write
<1>3. CASE Publish
  <2> DEFINE copy == [cells |-> call.cells, token |-> stamp + 1]
             f == [c \in Cell |-> IF c \in call.cells THEN stamp + 1 ELSE Contents[c]]
  <2>1. /\ reads' = (reads \ Overlaps(reads, call.cells)) \union {copy} /\ UNCHANGED ram
        /\ \A r \in Overlaps(reads, call.cells) : r.cells \subseteq call.cells
    BY <1>3, ResolvedFacts DEF Publish, memory
  <2>2. \A x, y \in reads' : x # y => x.cells \intersect y.cells = {}
    BY <1>3, NextKeepsIInv, ReadsDisjoint, PublishKeepsIInv DEF IInv, PendingDisjoint
  <2>3. ASSUME NEW c \in Cell
        PROVE  \/ \E x \in reads' : c \in x.cells /\ f[c] = x.token
               \/ (\A x \in reads' : c \notin x.cells) /\ f[c] = ram'[c]
    <3>1. CASE c \in call.cells
      <4>1. copy \in reads' /\ c \in copy.cells /\ f[c] = copy.token
        BY <2>1, <3>1
      <4> QED
        BY <4>1
    <3>2. CASE c \notin call.cells
      <4>1. \A r \in reads : c \in r.cells => r \in reads'
        BY <2>1, <3>2
      <4>2. \A r \in reads' : c \in r.cells => r \in reads
        BY <2>1, <3>2
      <4>3. f[c] = Contents[c]
        BY <3>2
      <4> QED
        BY <2>1, <4>1, <4>2, <4>3, ReadsDisjoint, DueFacts, ContentsDue DEF IInv
    <3> QED
      BY <3>1, <3>2
  <2>4. Due(reads', ram') = f
    <3> HIDE DEF f
    <3>1. f = [c \in Cell |-> f[c]]
      BY DEF f
    <3> QED
      BY <2>2, <2>3, <3>1, SameDue
  <2> QED
    BY <1>1, <1>3, <2>4, ContentsDue DEF Publish, Ram!Write
<1> QED
  BY <1>1, <1>2, <1>3

\* A load returns what is due at its cell: no registration is in its way.
LEMMA LoadsRefine ==
    ASSUME IInv, NEW c \in Cell, Overlaps(reads, {c}) = {}, Load(c), UNCHANGED <<memory, stamp>>
    PROVE  Ram!Read(c)
<1>1. \A r \in reads : c \notin r.cells
  BY DEF Overlaps
<1>2. Contents[c] = ram[c]
  BY <1>1, ReadsDisjoint, DueFacts, ContentsDue DEF IInv
<1>3. Contents' = Contents
  BY DEF Contents, memory
<1> QED
  BY <1>2, <1>3 DEF Load, Ram!Read

\* Every step is a step of RAM or changes nothing the guest sees.
LEMMA NextRefines == IInv /\ [Next]_vars => [Ram!Next]_(Ram!vars)
<1> SUFFICES ASSUME IInv, [Next]_vars PROVE [Ram!Next]_(Ram!vars)
  OBVIOUS
<1>1. ASSUME UNCHANGED <<ram, reads, stamp, returned>> PROVE UNCHANGED Ram!vars
  BY <1>1 DEF Contents, Ram!vars
<1>2. CASE \/ \E c \in Cell : CallAccess("read", {c}) \/ CallAccess("write", {c})
           \/ \E cells \in Ranges : CallAccess("bulk", cells) \/ CallPublish(cells)
           \/ ResolveNext \/ ResolveDone \/ MaterializeFails \/ PublishFails \/ EvictView
           \/ \E c \in Cell : CallbackRefused(c)
           \/ UNCHANGED vars
  BY <1>1, <1>2 DEF CallAccess, CallPublish, ResolveNext, ResolveDone, MaterializeFails,
                    PublishFails, EvictView, CallbackRefused, memory, store, vars
<1>3. CASE Materialize \/ \E c \in Cell : CallbackResolves(c)
  BY <1>3, MaterializeKeepsIInv DEF Materialize, CallbackResolves, Ram!vars
<1>4. CASE Read
  <2>1. PICK c \in call.cells : Load(c)
    BY <1>4 DEF Read
  <2>2. c \in Cell /\ Overlaps(reads, {c}) = {}
    BY <1>4, <2>1, ResolvedFacts, RangeFacts DEF Read, Overlaps
  <2> QED
    BY <1>4, <2>1, <2>2, LoadsRefine DEF Read, Ram!Next
<1>5. CASE Write \/ BulkWrite \/ Publish
  BY <1>5, WritesRefine DEF Ram!Next
<1>6. ASSUME NEW c \in Cell, CallbackAccess(c)
      PROVE  [Ram!Next]_(Ram!vars)
  <2>1. CASE Load(c) /\ UNCHANGED <<ram, stamp, dirty>>
    BY <1>6, <2>1, LoadsRefine DEF CallbackAccess, memory, Ram!Next
  <2>2. CASE Store({c}) /\ UNCHANGED returned
    <3>1. Ram!Write({c})
      BY <1>6, <2>2, StoreSeen DEF CallbackAccess, IInv, Store, Ram!Write
    <3> QED
      BY <3>1 DEF Ram!Next
  <2> QED
    BY <1>6, <2>1, <2>2 DEF CallbackAccess
<1> QED
  BY <1>2, <1>3, <1>4, <1>5, <1>6 DEF Next

\* Whatever is deferred, fails or is touched by the timing callback, the guest
\* sees RAM in which every copy was written when it was made.
THEOREM RamImplemented == Spec => ImplementsRam
<1>1. Init => Ram!Init
  BY DEF Init, Contents, Ram!Init
<1> QED
  BY <1>1, NextRefines, Invariance, PTL DEF Spec, ImplementsRam, Ram!Spec

-----------------------------------------------------------------------------
(* Pages of addresses.                                                      *)

LEMMA PageOf ==
  ASSUME NEW a \in Nat, NEW s \in Nat \ {0}
  PROVE  a \div s \in Nat /\ (a \div s) * s <= a /\ a < (a \div s + 1) * s
  OBVIOUS

LEMMA PageLeast ==
  ASSUME NEW a \in Nat, NEW s \in Nat \ {0}, NEW q \in Nat, q * s <= a
  PROVE  q <= a \div s
<1> DEFINE d == a \div s
<1>1. d \in Nat /\ a < (d + 1) * s
  BY PageOf
<1> HIDE DEF d
<1>2. SUFFICES ASSUME d < q PROVE FALSE
  BY <1>1 DEF d
<1>3. d + 1 <= q
  BY <1>1, <1>2
<1>4. PICK k \in Nat : q = d + 1 + k
  <2>1. q - (d + 1) \in Nat /\ q = d + 1 + (q - (d + 1))
    BY <1>1, <1>3
  <2> QED
    BY <2>1
<1>5. q * s = (d + 1) * s + k * s /\ k * s >= 0
  BY <1>1, <1>4
<1> QED
  BY <1>1, <1>5

LEMMA PageMost ==
  ASSUME NEW a \in Nat, NEW s \in Nat \ {0}, NEW q \in Nat, a < (q + 1) * s
  PROVE  a \div s <= q
<1> DEFINE d == a \div s
<1>1. d \in Nat /\ d * s <= a
  BY PageOf
<1> HIDE DEF d
<1>2. SUFFICES ASSUME q < d PROVE FALSE
  BY <1>1 DEF d
<1>3. PICK k \in Nat : d = q + 1 + k
  <2>1. d - (q + 1) \in Nat /\ d = q + 1 + (d - (q + 1))
    BY <1>1, <1>2
  <2> QED
    BY <2>1
<1>4. d * s = (q + 1) * s + k * s /\ k * s >= 0
  BY <1>1, <1>3
<1> QED
  BY <1>1, <1>4

LEMMA PagesRise ==
  ASSUME NEW s \in Nat \ {0}, NEW a \in Nat, NEW b \in Nat, a <= b
  PROVE  a \div s <= b \div s
<1>1. a \div s \in Nat /\ (a \div s) * s <= a
  BY PageOf
<1> DEFINE d == a \div s
<1> HIDE DEF d
<1>2. d \in Nat /\ d * s <= b
  <2>1. d \in Nat /\ d * s <= a
    BY <1>1 DEF d
  <2> QED
    BY <2>1
<1>3. d <= b \div s
  BY <1>2, PageLeast
<1> QED
  BY <1>3 DEF d
-----------------------------------------------------------------------------
(* The invariant: the tables are what the pending ranges say.               *)

\* A range of addresses, as registered.
RangeTrue(g) == g.start \in Nat /\ g.length \in Nat \ {0} /\ g.start + g.length <= Space

PendingTrue == IsFiniteSet(pending) /\ \A x \in pending : RangeTrue(x.range)

\* A block counts the ranges that mark it, and has not wrapped.
MarksCount ==
    /\ DOMAIN marks = Block
    /\ \A b \in Block : marks[b] = Cardinality(Marking(pending, b)) /\ marks[b] < MarkLimit

Judged(R, page) == \E x \in R : Touches(x.range, page)

CoveredTrue == covered = {page \in Coarse : Judged(pending, page)} /\ fast = Plain \ covered

PagesInv == PendingTrue /\ MarksCount /\ CoveredTrue

LEMMA Sizes == /\ Space \in Nat \ {0} /\ BlockSize \in Nat \ {0} /\ CoarseSize \in Nat \ {0}
               /\ Scalar \in Nat \ {0} /\ MarkLimit \in Nat \ {0} /\ Plain \subseteq Coarse
  BY PagesAssumption

LEMMA Extent ==
  ASSUME NEW g, RangeTrue(g)
  PROVE  /\ From(g) \in Nat /\ Upto(g) \in Nat /\ Upto(g) <= Space - 1
         /\ From(g) <= g.start /\ g.start <= Upto(g) /\ g.start \in Nat
         /\ \A a \in Nat : g.start <= a + (Scalar - 1) => From(g) <= a
  BY Sizes DEF RangeTrue, From, Upto

LEMMA AddressPages ==
  ASSUME NEW a \in Nat, a <= Space - 1
  PROVE  a \div BlockSize \in Block /\ a \div CoarseSize \in Coarse
<1>1. Space - 1 \in Nat
  BY Sizes
<1>2. /\ a \div BlockSize \in Nat /\ a \div BlockSize <= (Space - 1) \div BlockSize
      /\ a \div CoarseSize \in Nat /\ a \div CoarseSize <= (Space - 1) \div CoarseSize
      /\ (Space - 1) \div BlockSize \in Nat /\ (Space - 1) \div CoarseSize \in Nat
  BY <1>1, Sizes, PageOf, PagesRise
<1> QED
  BY <1>2 DEF Block, Coarse

\* An address in the extent of a range is on a page and a block it marks.
LEMMA Inside ==
  ASSUME NEW g, RangeTrue(g), NEW a \in Nat, From(g) <= a, a <= Upto(g)
  PROVE  a \div BlockSize \in Blocks(g) /\ Touches(g, a \div CoarseSize)
<1>1. From(g) \in Nat /\ Upto(g) \in Nat
  BY Extent
<1>2. /\ From(g) \div BlockSize <= a \div BlockSize /\ a \div BlockSize <= Upto(g) \div BlockSize
      /\ From(g) \div BlockSize \in Nat /\ Upto(g) \div BlockSize \in Nat /\ a \div BlockSize \in Nat
  BY <1>1, Sizes, PagesRise, PageOf
<1>3. a \div BlockSize \in Blocks(g)
  BY <1>2 DEF Blocks
<1> DEFINE d == a \div CoarseSize
<1>4. d \in Nat /\ d * CoarseSize <= a /\ a < (d + 1) * CoarseSize
  BY Sizes, PageOf
<1> HIDE DEF d
<1>5. d * CoarseSize \in Nat /\ (d + 1) * CoarseSize \in Nat
  BY <1>4, Sizes
<1>6. Touches(g, d)
  BY <1>1, <1>4, <1>5 DEF Touches
<1> QED
  BY <1>3, <1>6 DEF d

\* A page that an extent overlaps is one of those refreshed with it.
LEMMA TouchedPages ==
  ASSUME NEW g, RangeTrue(g), NEW page \in Nat, Touches(g, page)
  PROVE  page \in Pages(g)
<1>1. From(g) \in Nat /\ Upto(g) \in Nat
  BY Extent
<1>2. page * CoarseSize <= Upto(g) /\ From(g) < (page + 1) * CoarseSize
  BY DEF Touches
<1>3. From(g) \div CoarseSize <= page /\ page <= Upto(g) \div CoarseSize
  BY <1>1, <1>2, Sizes, PageLeast, PageMost
<1>4. From(g) \div CoarseSize \in Nat /\ Upto(g) \div CoarseSize \in Nat
  BY <1>1, Sizes, PageOf
<1> QED
  BY <1>3, <1>4 DEF Pages

\* A block near a pending range is marked.
LEMMA MarkedNear ==
  ASSUME PagesInv, NEW x \in pending, NEW b \in Block, b \in Blocks(x.range)
  PROVE  marks[b] # 0
<1>1. IsFiniteSet(pending) /\ marks[b] = Cardinality(Marking(pending, b))
  BY DEF PagesInv, PendingTrue, MarksCount
<1>2. Marking(pending, b) \subseteq pending /\ x \in Marking(pending, b)
  BY DEF Marking
<1>3. IsFiniteSet(Marking(pending, b))
  BY <1>1, <1>2, FS_Subset
<1> QED
  BY <1>1, <1>2, <1>3, FS_EmptySet

\* The tables at an address in the extent of a pending range.
LEMMA Slow ==
  ASSUME PagesInv, NEW x \in pending, NEW a \in Nat, a <= Space - 1, From(x.range) <= a, a <= Upto(x.range)
  PROVE  marks[a \div BlockSize] # 0 /\ a \div CoarseSize \in covered \ fast
<1>1. RangeTrue(x.range)
  BY DEF PagesInv, PendingTrue
<1>2. a \div BlockSize \in Block /\ a \div CoarseSize \in Coarse
  BY AddressPages
<1>3. a \div BlockSize \in Blocks(x.range) /\ Touches(x.range, a \div CoarseSize)
  BY <1>1, Inside
<1>4. marks[a \div BlockSize] # 0
  BY <1>2, <1>3, MarkedNear
<1>5. a \div CoarseSize \in covered /\ fast = Plain \ covered
  BY <1>2, <1>3 DEF PagesInv, CoveredTrue, Judged
<1> QED
  BY <1>4, <1>5

\* What it takes for an access to reach a range.
LEMMA Reached ==
  ASSUME NEW g, RangeTrue(g), NEW n \in Nat \ {0}, NEW a \in Reaching(g, n)
  PROVE  a \in Nat /\ a + n <= Space /\ g.start < a + n /\ a <= Upto(g)
<1>1. g.start \in Nat /\ Upto(g) \in Nat /\ Space \in Nat
  BY Extent, Sizes
<1> QED
  BY <1>1 DEF Reaching

LEMMA ScalarsSlow == ASSUME PagesInv PROVE ScalarsResolve
<1> SUFFICES ASSUME NEW x \in pending, NEW n \in 1..Scalar, NEW a \in Reaching(x.range, n)
             PROVE  ~LoadsFast(a) /\ ~StoresFast(a, n)
  BY DEF ScalarsResolve
<1>3. RangeTrue(x.range)
  BY DEF PagesInv, PendingTrue
<1>1. x.range.start < a + n /\ a <= Upto(x.range)
  BY <1>3, Extent, Reached, Sizes
<1>2. a \in Nat /\ a <= Space - 1 /\ n \in Nat \ {0} /\ n <= Scalar
  BY <1>3, Reached, Sizes
<1>4. From(x.range) <= a
  <2>1. x.range.start \in Nat /\ (x.range.start <= a + (Scalar - 1) => From(x.range) <= a)
    BY <1>2, <1>3, Extent
  <2> QED
    BY <1>1, <1>2, <2>1, Sizes
<1>5. marks[a \div BlockSize] # 0 /\ a \div CoarseSize \in covered \ fast
  BY <1>1, <1>2, <1>4, Slow
<1> QED
  BY <1>5 DEF LoadsFast, StoresFast

LEMMA RangesSlow == ASSUME PagesInv PROVE RangesResolve
<1> SUFFICES ASSUME NEW x \in pending, NEW n \in 1..CoarseSize, NEW a \in Reaching(x.range, n), RangeFast(a, n)
             PROVE  FALSE
  BY DEF RangesResolve
<1>3. RangeTrue(x.range)
  BY DEF PagesInv, PendingTrue
<1>1. x.range.start < a + n /\ a <= Upto(x.range)
  BY <1>3, Reached, Sizes
<1>2. a \in Nat /\ n \in Nat \ {0} /\ Space \in Nat /\ a + n <= Space
  BY <1>3, Reached, Sizes
<1>4. PICK c \in Nat : a <= c /\ c <= a + n - 1 /\ x.range.start <= c /\ c <= Upto(x.range)
  <2>1. x.range.start \in Nat /\ x.range.start <= Upto(x.range) /\ Upto(x.range) \in Nat
    BY <1>3, Extent
  <2>2. CASE x.range.start <= a
    BY <1>1, <1>2, <2>1, <2>2
  <2>3. CASE ~(x.range.start <= a)
    BY <1>1, <1>2, <2>1, <2>3
  <2> QED
    BY <2>2, <2>3
<1>5. c <= Space - 1 /\ From(x.range) <= c /\ a + n - 1 \in Nat
  <2>1. From(x.range) \in Nat /\ From(x.range) <= x.range.start /\ x.range.start \in Nat
    BY <1>3, Extent
  <2> QED
    BY <1>2, <1>4, <2>1
<1>6. marks[c \div BlockSize] # 0 /\ c \div CoarseSize \in covered
  BY <1>4, <1>5, Slow
<1>7. /\ a \div BlockSize <= c \div BlockSize /\ c \div BlockSize <= (a + n - 1) \div BlockSize
      /\ a \div BlockSize \in Nat /\ c \div BlockSize \in Nat /\ (a + n - 1) \div BlockSize \in Nat
  BY <1>2, <1>4, <1>5, Sizes, PagesRise, PageOf
<1>8. c \div CoarseSize = a \div CoarseSize
  <2>1. /\ a \div CoarseSize <= c \div CoarseSize /\ c \div CoarseSize <= (a + n - 1) \div CoarseSize
        /\ a \div CoarseSize \in Nat /\ c \div CoarseSize \in Nat /\ (a + n - 1) \div CoarseSize \in Nat
    BY <1>2, <1>4, <1>5, Sizes, PagesRise, PageOf
  <2>2. (a + n - 1) \div CoarseSize = a \div CoarseSize
    BY DEF RangeFast
  <2> QED
    BY <2>1, <2>2
<1>9. RangeUnmarked(a, n)
  BY <1>6, <1>8 DEF RangeFast
<1>10. c \div BlockSize \in (a \div BlockSize)..((a + n - 1) \div BlockSize)
  BY <1>7
<1> QED
  BY <1>6, <1>9, <1>10 DEF RangeUnmarked

LEMMA MarksNear == ASSUME PagesInv PROVE FastAgain
<1>1. ASSUME NEW b \in Block, marks[b] # 0 PROVE \E x \in pending : b \in Blocks(x.range)
  <2>1. marks[b] = Cardinality(Marking(pending, b))
    BY DEF PagesInv, MarksCount
  <2>2. Marking(pending, b) # {}
    BY <1>1, <2>1, FS_EmptySet
  <2> QED
    BY <2>2 DEF Marking
<1>2. ASSUME NEW page \in covered PROVE \E x \in pending : page \in Pages(x.range)
  <2>1. PICK x \in pending : page \in Coarse /\ Touches(x.range, page)
    BY DEF PagesInv, CoveredTrue, Judged
  <2>2. page \in Nat /\ RangeTrue(x.range)
    BY <2>1 DEF Coarse, PagesInv, PendingTrue
  <2> QED
    BY <2>1, <2>2, TouchedPages
<1>3. fast = Plain \ covered
  BY DEF PagesInv, CoveredTrue
<1> QED
  BY <1>1, <1>2, <1>3 DEF FastAgain
-----------------------------------------------------------------------------
(* The steps.                                                               *)

LEMMA FiniteImage ==
  ASSUME NEW S, IsFiniteSet(S), NEW f, DOMAIN f = S
  PROVE  IsFiniteSet({f[x] : x \in S})
<1> DEFINE T == {f[x] : x \in S}
<1>1. [x \in S |-> f[x]] \in Surjection(S, T)
  BY DEF Surjection
<1> QED
  BY <1>1, FS_Surjection

LEMMA MarkingFinite ==
  ASSUME NEW S, IsFiniteSet(S), NEW b
  PROVE  IsFiniteSet(Marking(S, b)) /\ Cardinality(Marking(S, b)) \in Nat
<1>1. Marking(S, b) \in SUBSET S
  BY DEF Marking
<1>2. IsFiniteSet(Marking(S, b))
  BY <1>1, FS_Subset
<1> QED
  BY <1>2, FS_CardinalityType

LEMMA MarkingJoins ==
  ASSUME NEW S, NEW T, IsFiniteSet(S), IsFiniteSet(T), S \cap T = {}, NEW b
  PROVE  Cardinality(Marking(S \cup T, b)) = Cardinality(Marking(S, b)) + Cardinality(Marking(T, b))
<1> DEFINE A == Marking(S, b)
           B == Marking(T, b)
<1>1. Marking(S \cup T, b) = A \cup B /\ A \cap B = {}
  BY DEF Marking
<1>2. IsFiniteSet(A) /\ IsFiniteSet(B) /\ Cardinality(A) \in Nat /\ Cardinality(B) \in Nat
  BY MarkingFinite
<1> HIDE DEF A, B
<1>3. Cardinality(A \cup B) = Cardinality(A) + Cardinality(B) - Cardinality(A \cap B)
  BY <1>2, FS_Union
<1>4. Cardinality(A \cap B) = 0
  BY <1>1, FS_EmptySet
<1>5. Cardinality(A \cup B) = Cardinality(A) + Cardinality(B)
  BY <1>2, <1>3, <1>4
<1> QED
  BY <1>1, <1>5 DEF A, B

\* Pages that are not refreshed are right as they are.
LEMMA Refreshed ==
  ASSUME CoveredTrue, NEW R, NEW registered, Refresh(R, registered),
         \A x \in R : RangeTrue(x.range),
         \A x : (x \in pending /\ x \notin registered) => x \in R,
         \A x : (x \in registered /\ x \notin pending) => x \in R
  PROVE  covered' = {page \in Coarse : Judged(registered, page)} /\ fast' = Plain \ covered'
<1> DEFINE stale == {page \in Coarse : \E x \in R : page \in Pages(x.range)}
           marked == {page \in stale : \E x \in registered : Touches(x.range, page)}
<1>1. covered' = (covered \ stale) \cup marked /\ fast' = (fast \ stale) \cup ((stale \ marked) \cap Plain)
  BY DEF Refresh
<1>2. covered = {page \in Coarse : Judged(pending, page)} /\ fast = Plain \ covered
  BY DEF CoveredTrue
<1>3. ASSUME NEW page \in Coarse, page \notin stale PROVE Judged(pending, page) <=> Judged(registered, page)
  <2>1. \A x \in R : ~Touches(x.range, page)
    <3> SUFFICES ASSUME NEW x \in R, Touches(x.range, page) PROVE FALSE
      OBVIOUS
    <3>1. page \in Nat /\ RangeTrue(x.range)
      BY DEF Coarse
    <3>2. page \in Pages(x.range)
      BY <3>1, TouchedPages
    <3> QED
      BY <1>3, <3>2
  <2> QED
    BY <2>1 DEF Judged
<1>4. \A page \in stale : page \in marked <=> Judged(registered, page)
  BY DEF Judged
<1>5. stale \subseteq Coarse /\ marked \subseteq stale
  OBVIOUS
<1> HIDE DEF stale, marked
<1>6. covered' = {page \in Coarse : Judged(registered, page)}
  BY <1>1, <1>2, <1>3, <1>4, <1>5
<1>7. fast' = Plain \ covered'
  BY <1>1, <1>2, <1>5
<1> QED
  BY <1>6, <1>7

LEMMA RetireKeeps ==
  ASSUME PagesInv, NEW R \in SUBSET pending, Retire(R)
  PROVE  PagesInv'
<1>1. IsFiniteSet(pending) /\ (\A x \in pending : RangeTrue(x.range)) /\ CoveredTrue
  BY DEF PagesInv, PendingTrue
<1>2. pending' = pending \ R /\ marks' = Adjusted(R, -1) /\ Refresh(R, pending \ R)
  BY DEF Retire
<1>3. IsFiniteSet(R) /\ IsFiniteSet(pending \ R)
  BY <1>1, FS_Subset
<1>4. PendingTrue'
  BY <1>1, <1>2, <1>3 DEF PendingTrue, RangeTrue
<1>5. MarksCount'
  <2> SUFFICES ASSUME NEW b \in Block PROVE marks'[b] = Cardinality(Marking(pending \ R, b)) /\ marks'[b] < MarkLimit
    BY <1>2 DEF MarksCount, Adjusted, Block, Marking, Blocks, From, Upto
  <2> DEFINE all == Cardinality(Marking(pending, b))
             gone == Cardinality(Marking(R, b))
             left == Cardinality(Marking(pending \ R, b))
  <2>1. marks[b] = all /\ all < MarkLimit
    BY DEF PagesInv, MarksCount
  <2>2. all \in Nat /\ gone \in Nat /\ left \in Nat
    BY <1>1, <1>3, MarkingFinite
  <2>3. all = left + gone
    <3>1. pending = (pending \ R) \cup R /\ (pending \ R) \cap R = {}
      OBVIOUS
    <3> QED
      BY <1>3, <3>1, MarkingJoins
  <2>4. marks'[b] = (marks[b] + (-1) * gone) % MarkLimit
    BY <1>2 DEF Adjusted
  <2> HIDE DEF all, gone, left
  <2>5. marks'[b] = left /\ left < MarkLimit
    BY <2>1, <2>2, <2>3, <2>4, Sizes
  <2> QED
    BY <2>5 DEF left
<1>6. CoveredTrue'
  <2>1. covered' = {page \in Coarse : Judged(pending \ R, page)} /\ fast' = Plain \ covered'
    BY <1>1, <1>2, Refreshed
  <2> QED
    BY <1>2, <2>1 DEF CoveredTrue, Judged, Touches, From, Upto, Coarse
<1> QED
  BY <1>4, <1>5, <1>6 DEF PagesInv

LEMMA InsertKeeps ==
  ASSUME PagesInv, NEW token, NEW R, IsFiniteSet(R), \A g \in R : RangeTrue(g), Insert(token, R)
  PROVE  PagesInv'
<1> DEFINE new == {[token |-> token, range |-> g] : g \in R}
<1>1. IsFiniteSet(pending) /\ (\A x \in pending : RangeTrue(x.range)) /\ CoveredTrue
  BY DEF PagesInv, PendingTrue
<1>2. pending' = pending \cup new /\ marks' = Adjusted(new, 1) /\ Refresh(new, pending \cup new)
      /\ Of(token) = {} /\ Countable(new)
  BY DEF Insert
<1>3. IsFiniteSet(new)
  <2> DEFINE f == [g \in R |-> [token |-> token, range |-> g]]
  <2>1. new = {f[g] : g \in R} /\ DOMAIN f = R
    OBVIOUS
  <2> HIDE DEF f
  <2> QED
    BY <2>1, FiniteImage
<1>4. (\A x \in new : RangeTrue(x.range)) /\ pending \cap new = {}
  BY <1>2 DEF Of
<1> HIDE DEF new
<1>5. PendingTrue'
  <2>1. IsFiniteSet(pending \cup new)
    BY <1>1, <1>3, FS_Union
  <2> QED
    BY <1>1, <1>2, <1>4, <2>1 DEF PendingTrue, RangeTrue
<1>6. MarksCount'
  <2> SUFFICES ASSUME NEW b \in Block PROVE marks'[b] = Cardinality(Marking(pending \cup new, b)) /\ marks'[b] < MarkLimit
    BY <1>2 DEF MarksCount, Adjusted, Block, Marking, Blocks, From, Upto
  <2> DEFINE before == Cardinality(Marking(pending, b))
             added == Cardinality(Marking(new, b))
  <2>1. marks[b] = before /\ before + added < MarkLimit
    BY <1>2 DEF PagesInv, MarksCount, Countable
  <2>2. before \in Nat /\ added \in Nat
    BY <1>1, <1>3, MarkingFinite
  <2>3. Cardinality(Marking(pending \cup new, b)) = before + added
    BY <1>1, <1>3, <1>4, MarkingJoins
  <2>4. marks'[b] = (marks[b] + 1 * added) % MarkLimit
    BY <1>2 DEF Adjusted
  <2> HIDE DEF before, added
  <2>5. marks'[b] = before + added
    BY <2>1, <2>2, <2>4, Sizes
  <2> QED
    BY <2>1, <2>3, <2>5
<1>7. CoveredTrue'
  <2>1. covered' = {page \in Coarse : Judged(pending \cup new, page)} /\ fast' = Plain \ covered'
    BY <1>1, <1>2, <1>4, Refreshed
  <2> QED
    BY <1>2, <2>1 DEF CoveredTrue, Judged, Touches, From, Upto, Coarse
<1> QED
  BY <1>5, <1>6, <1>7 DEF PagesInv

LEMMA PagesStep ==
  ASSUME PagesInv, [PagesNext]_pageVars
  PROVE  PagesInv'
<1>1. ASSUME NEW token \in Handles, NEW g \in Given, RegisterDeferredRead(token, g) PROVE PagesInv'
  <2>1. IsFiniteSet({g})
    BY FS_Singleton
  <2>2. g.start \in Nat /\ g.length \in Nat
    BY PagesAssumption DEF Address
  <2>3. RangeTrue(g)
    BY <1>1, <2>2, Sizes DEF RegisterDeferredRead, RangeTrue
  <2> QED
    BY <1>1, <2>1, <2>3, InsertKeeps DEF RegisterDeferredRead
<1>2. ASSUME NEW token \in Handles, NEW g \in Given, RegisterDeferredRamRead(token, g) PROVE PagesInv'
  <2> DEFINE f == [w \in Windows |-> [start |-> w + g.start, length |-> g.length]]
             R == {[start |-> w + g.start, length |-> g.length] : w \in Windows}
  <2>1. R = {f[w] : w \in Windows} /\ DOMAIN f = Windows /\ IsFiniteSet(Windows)
    BY PagesAssumption
  <2>2. IsFiniteSet(R)
    <3> HIDE DEF f, R
    <3> QED
      BY <2>1, FiniteImage
  <2>3. PICK bank \in Banks : bank.first <= g.start /\ g.start < bank.end /\ g.length <= bank.end - g.start
    BY <1>2 DEF RegisterDeferredRamRead
  <2>4. g.start \in Nat /\ g.length \in Nat \ {0} /\ bank.end \in Nat
    BY <1>2, PagesAssumption DEF RegisterDeferredRamRead, Address
  <2>5. \A w \in Windows : w \in Nat /\ w + bank.end <= Space
    BY PagesAssumption
  <2>6. \A h \in R : RangeTrue(h)
    BY <2>3, <2>4, <2>5, Sizes DEF RangeTrue
  <2>7. Insert(token, R)
    BY <1>2 DEF RegisterDeferredRamRead
  <2> HIDE DEF R
  <2> QED
    BY <2>2, <2>6, <2>7, InsertKeeps
<1>3. ASSUME NEW R \in SUBSET pending, Retire(R) PROVE PagesInv'
  BY <1>3, RetireKeeps
<1>4. ASSUME NEW token \in Handles, CancelDeferredRead(token) PROVE PagesInv'
  BY <1>3, <1>4 DEF CancelDeferredRead, Of
<1>5. CASE ClearDeferredReads
  BY <1>3, <1>5 DEF ClearDeferredReads
<1>6. CASE Materialized
  BY <1>3, <1>6 DEF Materialized, Of
<1>7. ASSUME UNCHANGED <<pending, marks, covered, fast>> PROVE PagesInv'
  BY <1>7 DEF PagesInv, PendingTrue, RangeTrue, MarksCount, Marking, Blocks, CoveredTrue, Judged, Touches, From, Upto, Block, Coarse
<1>8. ASSUME NEW a \in Address, TakeNext(a) PROVE PagesInv'
  BY <1>7, <1>8 DEF TakeNext
<1>9. CASE NotMaterialized
  BY <1>7, <1>9 DEF NotMaterialized
<1>10. CASE UNCHANGED pageVars
  BY <1>7, <1>10 DEF pageVars
<1> QED
  BY <1>1, <1>2, <1>4, <1>5, <1>6, <1>8, <1>9, <1>10 DEF PagesNext

LEMMA PagesBegin == ASSUME PagesInit PROVE PagesInv
<1>1. \A b \in Block : Marking({}, b) = {} /\ Cardinality({}) = 0
  BY FS_EmptySet DEF Marking
<1>2. MarksCount
  <2>1. marks = [b \in Block |-> 0] /\ pending = {} /\ 0 < MarkLimit
    BY Sizes DEF PagesInit
  <2>2. \A b \in Block : marks[b] = 0 /\ Cardinality(Marking(pending, b)) = 0
    BY <1>1, <2>1
  <2> QED
    BY <2>1, <2>2 DEF MarksCount
<1>3. PendingTrue /\ CoveredTrue
  BY FS_EmptySet DEF PagesInit, PendingTrue, CoveredTrue, Judged
<1> QED
  BY <1>2, <1>3 DEF PagesInv

\* The tables are what the pending ranges say, whatever is registered,
\* cancelled, materialized or not.
THEOREM PagesInvariance == PagesSpec => []PagesInv
<1>1. PagesInit => PagesInv
  BY PagesBegin
<1>2. PagesInv /\ [PagesNext]_pageVars => PagesInv'
  BY PagesStep
<1> QED
  BY <1>1, <1>2, PTL DEF PagesSpec

\* No access goes past the registry while one of its bytes is pending, and none
\* is sent there for a range that is gone (DeferredScalarPending,
\* TryGetReadableScalarHost, ResolveRangeHost).
THEOREM PagesSafe == PagesSpec => []PagesAgree
<1>1. PagesInv => PagesAgree
  BY ScalarsSlow, RangesSlow, MarksNear DEF PagesAgree
<1> QED
  BY <1>1, PagesInvariance, PTL
=============================================================================
