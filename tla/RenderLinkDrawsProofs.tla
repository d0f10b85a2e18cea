------------------------- MODULE RenderLinkDrawsProofs ------------------------
(***************************************************************************)
(* Theorems about the draws of module RenderLink, for any resources,       *)
(* blocks of memory, slots, ring size and number of frames: its type       *)
(* invariant, what an acknowledgement is worth, and that it implements     *)
(* module DrawQueue - every draw shows what its resources held when it was *)
(* issued.                                                                 *)
(*                                                                         *)
(* DataInv, defined in RenderLinkProofs, follows the worker's copy of each *)
(* resource ahead of the worker, past each command on its way (Ahead).     *)
(* Here are the parts of it about the worker's copies: which generation    *)
(* each will have (GenInv), which block and which bytes (WorldInv,         *)
(* EndShows), what a draw on its way will show (DrawShows) and that the    *)
(* memory it will read is left alone until it has (MemoryKeeps).           *)
(***************************************************************************)
EXTENDS RenderLinkProofs

----------------------------------------------------------------------------
(* A draw replayed uploads what it reads.  What the worker will have of a  *)
(* resource, uploaded (b) or not (a), differs then in nothing but what is  *)
(* in the GPU's memory: until the resource's memory moves or its bytes     *)
(* come through the ring, that is what an upload would still have read.    *)
Same(a, b) ==
  \/ a = NoRec /\ b = NoRec
  \/ /\ a \in MirrorRecords /\ b \in MirrorRecords /\ a # NoRec /\ b # NoRec
     /\ a.block = b.block /\ a.slot = b.slot /\ a.gen = b.gen /\ a.shadow = b.shadow
     /\ \A x \in Parts : /\ Stale(b, x) => Stale(a, x)
                         /\ ~Stale(a, x) => b.gpu[x] = a.gpu[x]
Differs(a, b, x) == a # NoRec /\ Stale(a, x) /\ ~Stale(b, x) /\ b.gpu[x] # Source(a)[x]

LEMMA SameItself ==
  ASSUME NEW m, MirrorOK(m)
  PROVE  Same(m, m) /\ \A x \in Parts : ~Differs(m, m, x)
BY DEF Same, MirrorOK, Differs, Stale

LEMMA NoRecApart == \A m \in MirrorRecords : m # NoRec
BY RenderLinkAssumption

LEMMA SameUploaded ==
  ASSUME MemoryTypes, NEW m \in MirrorRecords
  PROVE  Same(m, Uploaded(m)) /\ \A x \in Parts : ~Differs(m, Uploaded(m), x)
<1>1. /\ Uploaded(m) \in MirrorRecords /\ Uploaded(m) # NoRec /\ m # NoRec
      /\ Uploaded(m).block = m.block /\ Uploaded(m).slot = m.slot /\ Uploaded(m).gen = m.gen
      /\ Uploaded(m).dirty = {} /\ Uploaded(m).shadow = m.shadow /\ Uploaded(m).gpu # NoBytes
      /\ \A x \in Parts :
           Uploaded(m).gpu[x] = IF m.gpu = NoBytes \/ x \in m.dirty THEN Source(m)[x] ELSE m.gpu[x]
  BY UploadedTyped, NoRecApart
<1> HIDE DEF Uploaded
<1>2. \A x \in Parts : ~Stale(Uploaded(m), x)
  BY <1>1 DEF Stale
<1>3. \A x \in Parts : IF Stale(m, x) THEN Uploaded(m).gpu[x] = Source(m)[x]
                                      ELSE Uploaded(m).gpu[x] = m.gpu[x]
  BY <1>1 DEF Stale
<1> QED BY <1>1, <1>2, <1>3 DEF Same, Differs

LEMMA SameAfter ==
  ASSUME NEW a, NEW b, Same(a, b), NEW r \in Resources, NEW c, NEW g, NEW n, CommandOK(c, g, n)
  PROVE  Same(After(a, r, c), After(b, r, c))
<1>1. CASE ~Touches(c, r) \/ (c.op = "BIND" /\ ~c.new)
  BY <1>1, AfterOther
<1>2. CASE c.op = "BIND" /\ c.r = r /\ c.new
  <2>1. After(a, r, c) = Born(c) /\ After(b, r, c) = Born(c) /\ Born(c) \in MirrorRecords
    BY <1>2, AfterBorn, BornTyped
  <2> QED BY <2>1, SameItself DEF MirrorOK
<1>3. CASE c.op = "DESTROY" /\ c.r = r
  BY <1>3, AfterDestroy DEF Same
<1>4. CASE c.op = "MEM" /\ c.r = r
  <2>1. CASE a = NoRec /\ b = NoRec
    BY <1>4, <2>1, AfterMem DEF Same
  <2>2. CASE a # NoRec
    <3>1. a \in MirrorRecords /\ b \in MirrorRecords /\ b # NoRec
      BY <2>2 DEF Same
    <3>2. After(a, r, c) = Moved(a, c) /\ After(b, r, c) = Moved(b, c)
      BY <1>4, <2>2, <3>1, AfterMem
    <3>3. /\ Moved(a, c) \in MirrorRecords /\ Moved(a, c) # NoRec
          /\ Moved(a, c).block = c.block /\ Moved(a, c).slot = a.slot /\ Moved(a, c).gen = a.gen
          /\ Moved(a, c).dirty = a.dirty /\ Moved(a, c).shadow = a.shadow
          /\ Moved(a, c).gpu = a.gpu
      BY <1>4, <3>1, MovedTyped
    <3>4. /\ Moved(b, c) \in MirrorRecords /\ Moved(b, c) # NoRec
          /\ Moved(b, c).block = c.block /\ Moved(b, c).slot = b.slot /\ Moved(b, c).gen = b.gen
          /\ Moved(b, c).dirty = b.dirty /\ Moved(b, c).shadow = b.shadow
          /\ Moved(b, c).gpu = b.gpu
      BY <1>4, <3>1, MovedTyped
    <3> HIDE DEF Moved
    <3> QED BY <2>2, <3>2, <3>3, <3>4 DEF Same, Stale
  <2> QED BY <2>1, <2>2 DEF Same
<1>5. CASE c.op = "DIRTY" /\ c.r = r
  <2>1. CASE a = NoRec /\ b = NoRec
    BY <1>5, <2>1, AfterDirty DEF Same
  <2>2. CASE a # NoRec
    <3>1. a \in MirrorRecords /\ b \in MirrorRecords /\ b # NoRec
      BY <2>2 DEF Same
    <3>2. After(a, r, c) = Dirtied(a, r, c) /\ After(b, r, c) = Dirtied(b, r, c)
      BY <1>5, <2>2, <3>1, AfterDirty
    <3>3. /\ Dirtied(a, r, c) \in MirrorRecords /\ Dirtied(a, r, c) # NoRec
          /\ Dirtied(a, r, c).block = (IF r \in Buffers THEN c.block ELSE a.block)
          /\ Dirtied(a, r, c).slot = a.slot /\ Dirtied(a, r, c).gen = c.gen
          /\ Dirtied(a, r, c).dirty = a.dirty \cup c.parts
          /\ Dirtied(a, r, c).shadow = a.shadow /\ Dirtied(a, r, c).gpu = a.gpu
      BY <1>5, <3>1, DirtiedTyped
    <3>4. /\ Dirtied(b, r, c) \in MirrorRecords /\ Dirtied(b, r, c) # NoRec
          /\ Dirtied(b, r, c).block = (IF r \in Buffers THEN c.block ELSE b.block)
          /\ Dirtied(b, r, c).slot = b.slot /\ Dirtied(b, r, c).gen = c.gen
          /\ Dirtied(b, r, c).dirty = b.dirty \cup c.parts
          /\ Dirtied(b, r, c).shadow = b.shadow /\ Dirtied(b, r, c).gpu = b.gpu
      BY <1>5, <3>1, DirtiedTyped
    <3> HIDE DEF Dirtied
    <3> QED BY <2>2, <3>2, <3>3, <3>4 DEF Same, Stale
  <2> QED BY <2>1, <2>2 DEF Same
<1>6. CASE c.op = "DATA" /\ c.r = r
  <2>1. CASE a = NoRec /\ b = NoRec
    BY <1>6, <2>1, AfterData DEF Same
  <2>2. CASE a # NoRec
    <3>1. a \in MirrorRecords /\ b \in MirrorRecords /\ b # NoRec
      BY <2>2 DEF Same
    <3>2. After(a, r, c) = Given(a, c) /\ After(b, r, c) = Given(b, c)
      BY <1>6, <2>2, <3>1, AfterData
    <3>3. /\ Given(a, c) \in MirrorRecords /\ Given(a, c) # NoRec
          /\ Given(a, c).block = a.block /\ Given(a, c).slot = a.slot /\ Given(a, c).gen = a.gen
          /\ Given(a, c).dirty = (IF c.written THEN a.dirty \cup c.parts ELSE a.dirty)
          /\ Given(a, c).shadow = Shadowed(a, c) /\ Given(a, c).gpu = a.gpu
      BY <1>6, <3>1, GivenTyped
    <3>4. /\ Given(b, c) \in MirrorRecords /\ Given(b, c) # NoRec
          /\ Given(b, c).block = b.block /\ Given(b, c).slot = b.slot /\ Given(b, c).gen = b.gen
          /\ Given(b, c).dirty = (IF c.written THEN b.dirty \cup c.parts ELSE b.dirty)
          /\ Given(b, c).shadow = Shadowed(b, c) /\ Given(b, c).gpu = b.gpu
      BY <1>6, <3>1, GivenTyped
    <3>5. Shadowed(a, c) = Shadowed(b, c)
      BY <2>2 DEF Shadowed, Same
    <3> HIDE DEF Given
    <3> QED BY <2>2, <3>2, <3>3, <3>4, <3>5 DEF Same, Stale
  <2> QED BY <2>1, <2>2 DEF Same
<1> QED BY <1>1, <1>2, <1>3, <1>4, <1>5, <1>6 DEF Touches

(* What makes them differ                                                  *)
LEMMA DiffersAfter ==
  ASSUME MemoryTypes, NEW a, NEW b, Same(a, b), NEW r \in Resources, NEW c, NEW g, NEW n,
         CommandOK(c, g, n), NEW x \in Parts, Differs(After(a, r, c), After(b, r, c), x)
  PROVE  /\ ~(c.op = "BIND" /\ c.r = r /\ c.new)
         /\ ~(c.op = "DIRTY" /\ c.r = r /\ c.parts = Parts)
         /\ \/ Differs(a, b, x)
            \/ c.op = "MEM" /\ c.r = r
            \/ c.op = "DATA" /\ c.r = r /\ (~c.written \/ a.shadow = NoBytes)
            \/ c.op = "DIRTY" /\ c.r = r /\ r \in Buffers /\ c.block # a.block
<1>1. CASE ~Touches(c, r) \/ (c.op = "BIND" /\ ~c.new)
  BY <1>1, AfterOther DEF Touches
<1>2. CASE c.op = "BIND" /\ c.r = r /\ c.new
  BY <1>2, AfterBorn DEF Differs
<1>3. CASE c.op = "DESTROY" /\ c.r = r
  BY <1>3, AfterDestroy DEF Differs
<1>4. CASE c.op = "MEM" /\ c.r = r
  BY <1>4
<1>5. CASE c.op = "DIRTY" /\ c.r = r
  <2>1. a # NoRec /\ a \in MirrorRecords /\ b \in MirrorRecords /\ b # NoRec
    BY <1>5, AfterDirty DEF Differs, Same
  <2>2. After(a, r, c) = Dirtied(a, r, c) /\ After(b, r, c) = Dirtied(b, r, c)
    BY <1>5, <2>1, AfterDirty
  <2>3. /\ Dirtied(a, r, c).block = (IF r \in Buffers THEN c.block ELSE a.block)
        /\ Dirtied(a, r, c).dirty = a.dirty \cup c.parts
        /\ Dirtied(a, r, c).shadow = a.shadow /\ Dirtied(a, r, c).gpu = a.gpu
    BY <1>5, <2>1, DirtiedTyped
  <2>4. /\ Dirtied(b, r, c).dirty = b.dirty \cup c.parts /\ Dirtied(b, r, c).gpu = b.gpu
    BY <1>5, <2>1, DirtiedTyped
  <2> HIDE DEF Dirtied
  <2>5. x \notin c.parts /\ ~Stale(b, x) /\ Stale(a, x) /\ b.gpu[x] # Source(Dirtied(a, r, c))[x]
    BY <2>2, <2>3, <2>4 DEF Differs, Stale
  <2>6. r \notin Buffers \/ c.block = a.block => Source(Dirtied(a, r, c)) = Source(a)
    BY <2>3 DEF Source
  <2> QED BY <1>5, <2>1, <2>5, <2>6 DEF Differs
<1>6. CASE c.op = "DATA" /\ c.r = r
  <2>1. a # NoRec /\ a \in MirrorRecords /\ b \in MirrorRecords /\ b # NoRec
    BY <1>6, AfterData DEF Differs, Same
  <2>2. After(a, r, c) = Given(a, c) /\ After(b, r, c) = Given(b, c)
    BY <1>6, <2>1, AfterData
  <2>3. /\ Given(a, c) \in MirrorRecords
        /\ Given(a, c).dirty = (IF c.written THEN a.dirty \cup c.parts ELSE a.dirty)
        /\ Given(a, c).shadow = Shadowed(a, c) /\ Given(a, c).shadow # NoBytes
        /\ Given(a, c).gpu = a.gpu
    BY <1>6, <2>1, GivenTyped
  <2>4. /\ Given(b, c).dirty = (IF c.written THEN b.dirty \cup c.parts ELSE b.dirty)
        /\ Given(b, c).gpu = b.gpu
    BY <1>6, <2>1, GivenTyped
  <2> HIDE DEF Given
  <2>5. ASSUME c.written, a.shadow # NoBytes
        PROVE  Differs(a, b, x)
    <3>1. x \notin c.parts /\ ~Stale(b, x) /\ Stale(a, x) /\ b.gpu[x] # Source(Given(a, c))[x]
      BY <2>2, <2>3, <2>4, <2>5 DEF Differs, Stale
    <3>2. Source(Given(a, c)) = Shadowed(a, c) /\ Source(a) = a.shadow
      BY <2>1, <2>3, <2>5, SourceTyped
    <3>3. Shadowed(a, c)[x] = a.shadow[x]
      BY <2>5, <3>1 DEF Shadowed
    <3> QED BY <2>1, <3>1, <3>2, <3>3 DEF Differs
  <2> QED BY <1>6, <2>5
<1> QED BY <1>1, <1>2, <1>3, <1>4, <1>5, <1>6 DEF Touches

LEMMA AheadTyped ==
  ASSUME IInv, TypesInv
  PROVE  \A p \in (Consumed + 1)..End, r \in Resources : MirrorOK(At(p, r))
<1> SUFFICES ASSUME NEW r \in Resources
             PROVE  \A p \in (Consumed + 1)..End : MirrorOK(At(p, r))
  OBVIOUS
<1> PICK F : F = Ahead
  OBVIOUS
<1> PICK C : C = Cmd
  OBVIOUS
<1>1. Journey(F, mirror, staged, Consumed + 1, End, C)
  BY AheadJourney DEF IInv
<1>2. PICK a \in Int : a = Consumed + 1
  BY WayFacts DEF IInv
<1>3. PICK e \in Int : e = End
  BY WayFacts DEF IInv
<1>4. \A p \in a..(e - 1) : CommandOK(C[p], gen, lastWorkEnd)
  <2>1. Way = a..(e - 1)
    BY <1>2, <1>3, WayFacts DEF IInv
  <2> QED BY <2>1 DEF TypesInv, CommandTypes
<1>5. MirrorOK(mirror[r])
  BY DEF TypesInv, MirrorTypes
<1>6. Journey(F, mirror, staged, a, e, C)
  BY <1>1, <1>2, <1>3
<1>7. \A p \in a..e : MirrorOK(F[p].mirror[r])
  BY <1>4, <1>5, <1>6, JourneyTyped
<1> QED BY <1>2, <1>3, <1>7 DEF At

(* The draw replayed, and the resources ahead of it                        *)
LEMMA DrawnStart ==
  ASSUME IInv, IInv', DataInv, ~failed, ReplayDraw
  PROVE  /\ ReplayLeaves /\ Cmd[First].op = "DRAW" /\ Cmd[First] = Head(ring)
         /\ First + 1 \in Int /\ First + 1 <= End /\ End \in Int
         /\ Way' = (First + 1)..(End - 1) /\ staged' = staged
         /\ \A r \in Resources : At(First, r) = mirror[r] /\ At(First + 1, r) = mirror[r]
         /\ \A r \in Resources : Ahead'[First + 1].mirror[r] = mirror'[r]
         /\ \A r \in Resources : mirror'[r] = IF r \in ReadNow THEN Uploaded(mirror[r]) ELSE mirror[r]
         /\ \A r \in ReadNow : mirror[r] \in MirrorRecords /\ Reads(First, r) /\ r \in Resources
         /\ \A p \in Way', r \in Resources : /\ At(p + 1, r) = After(At(p, r), r, Cmd[p])
                                             /\ At(p + 1, r)' = After(At(p, r)', r, Cmd[p])
         /\ \A p \in (First + 1)..End : StagedAt(p)' = StagedAt(p)
<1>1. /\ Replaying("DRAW") /\ AtFront("DRAW") /\ ~failed /\ staged' = staged
      /\ mirror' = [r \in Resources |-> IF r \in ReadNow THEN Uploaded(mirror[r]) ELSE mirror[r]]
      /\ ReadNow \subseteq Resources
      /\ \A r \in ReadNow : mirror[r] \in MirrorRecords
  BY ReplayDrawMeans
<1>2. ReplayLeaves /\ Cmd[First].op = "DRAW" /\ Cmd[First] = Head(ring)
  BY <1>1, ReplayLeft
<1>3. First \in Way /\ First \in Int /\ First = Consumed + 1 /\ End \in Int /\ First <= End - 1
      /\ Way = First..(End - 1)
  <2>1. Way = (Consumed + 1)..(End - 1) /\ End \in Int /\ Consumed \in Int
    BY WayFacts DEF IInv
  <2> QED BY <1>2, <2>1 DEF First, ReplayLeaves
<1>4. Way' = (First + 1)..(End - 1)
  BY <1>2, <1>3 DEF ReplayLeaves
<1>5. \A r \in Resources : At(First, r) = mirror[r] /\ At(First + 1, r) = mirror[r]
  <2>1. \A r \in Resources : At(First, r) = mirror[r]
    BY <1>3, AheadFacts DEF IInv
  <2>2. \A r \in Resources : At(First + 1, r) = After(At(First, r), r, Cmd[First])
    BY <1>3, AheadFacts DEF IInv
  <2>3. \A r \in Resources : ~Touches(Cmd[First], r)
    BY <1>2 DEF Touches
  <2> QED BY <2>1, <2>2, <2>3, AfterOther
<1>6. \A r \in Resources : Ahead'[First + 1].mirror[r] = mirror'[r]
  <2>1. \A r \in Resources : Ahead'[Consumed' + 1].mirror[r] = mirror'[r]
    BY AheadFactsNext DEF IInv, At
  <2> QED BY <1>2, <2>1 DEF At, ReplayLeaves
<1>7. \A r \in ReadNow : Reads(First, r)
  BY <1>2 DEF ReadNow, Reads
<1>8. \A p \in Way', r \in Resources : /\ At(p + 1, r) = After(At(p, r), r, Cmd[p])
                                       /\ At(p + 1, r)' = After(At(p, r)', r, Cmd[p])
  BY <1>2, AheadFacts, AheadFactsNext DEF IInv, ReplayLeaves
<1>9. \A p \in (First + 1)..End : StagedAt(p)' = StagedAt(p)
  <2> DEFINE T == {p \in (First + 1)..End : StagedAt(p)' # StagedAt(p)}
  <2> SUFFICES ASSUME T # {}
               PROVE  FALSE
    OBVIOUS
  <2>1. PICK p \in T : \A q \in T : p <= q
    <3>1. First + 1 \in Int /\ \A q \in T : q \in Int /\ First + 1 <= q
      BY <1>3
    <3> HIDE DEF T
    <3> QED BY <3>1, Least
  <2>2. Ahead'[First + 1].staged = StagedAt(First + 1)
    <3>1. StagedAt(First) = staged /\ StagedAt(First + 1) = StagedAfter(StagedAt(First), Cmd[First])
      BY <1>3, AheadFacts DEF IInv
    <3>2. Ahead'[First + 1].staged = staged'
      <4>1. Ahead'[Consumed' + 1].staged = staged'
        BY AheadFactsNext DEF IInv, StagedAt
      <4> QED BY <1>2, <4>1 DEF StagedAt, ReplayLeaves
    <3> QED BY <1>1, <1>2, <3>1, <3>2 DEF StagedAfter
  <2>3. p \in Int /\ p # First + 1 /\ p - 1 \in Way' /\ p - 1 \in (First + 1)..End
    <3>1. p \in Int /\ p # First + 1
      <4>1. p \in (First + 1)..End /\ Ahead'[p].staged # Ahead[p].staged
        BY DEF StagedAt
      <4> QED BY <1>3, <2>2, <4>1 DEF StagedAt
    <3>2. p \in (First + 1)..End
      OBVIOUS
    <3> QED BY <1>3, <1>4, <3>1, <3>2
  <2>5. PICK q \in Int : q = p - 1
    BY <2>3
  <2>4. StagedAt(q)' = StagedAt(q)
    <3>1. q \in (First + 1)..End /\ ~(p <= q)
      BY <2>3, <2>5
    <3>2. q \notin T
      BY <2>1, <3>1
    <3> QED BY <3>1, <3>2
  <2>6. StagedAt(q + 1)' = StagedAfter(StagedAt(q)', Cmd'[q]) /\ Cmd'[q] = Cmd[q]
        /\ StagedAt(q + 1) = StagedAfter(StagedAt(q), Cmd[q])
    BY <1>2, <2>3, <2>5, AheadFacts, AheadFactsNext DEF IInv, ReplayLeaves
  <2>7. q + 1 = p
    BY <2>3, <2>5
  <2> QED BY <2>1, <2>4, <2>5, <2>6, <2>7
<1> QED BY <1>1, <1>2, <1>3, <1>4, <1>5, <1>6, <1>7, <1>8, <1>9

(* A resource the draw does not read stays what it was all the way.        *)
LEMMA DrawnOther ==
  ASSUME IInv, IInv', DataInv, ~failed, ReplayDraw, NEW r \in Resources, r \notin ReadNow
  PROVE  \A p \in (First + 1)..End : At(p, r)' = At(p, r)
<1> DEFINE T == {p \in (First + 1)..End : At(p, r)' # At(p, r)}
<1> SUFFICES ASSUME T # {}
             PROVE  FALSE
  OBVIOUS
<1>1. /\ First + 1 \in Int /\ End \in Int /\ Way' = (First + 1)..(End - 1)
      /\ Ahead'[First + 1].mirror[r] = Ahead[First + 1].mirror[r]
      /\ \A p \in Way' : /\ At(p + 1, r) = After(At(p, r), r, Cmd[p])
                         /\ At(p + 1, r)' = After(At(p, r)', r, Cmd[p])
  BY DrawnStart DEF At
<1>2. PICK p \in T : \A q \in T : p <= q
  <2>1. \A q \in T : q \in Int /\ First + 1 <= q
    BY <1>1
  <2> HIDE DEF T
  <2> QED BY <1>1, <2>1, Least
<1>3. p \in Int /\ p # First + 1 /\ p - 1 \in Way' /\ p - 1 \in (First + 1)..End
  <2>1. p \in (First + 1)..End /\ p # First + 1
    BY <1>1 DEF At
  <2> QED BY <1>1, <2>1
<1>4. PICK q \in Int : q = p - 1
  BY <1>3
<1>5. At(q, r)' = At(q, r) /\ q + 1 = p /\ q \in Way'
  BY <1>2, <1>3, <1>4
<1> QED BY <1>1, <1>2, <1>5

(* The resources ahead of the draw, before and after its replay: they      *)
(* differ only when their memory has moved since and is not settled.       *)
Unsettled(r, p) == \E q \in Way : First < q /\ q < p /\ Is(q, "MEM", r) /\ ~Settled(q, r, p)

LEMMA DrawnAhead ==
  ASSUME IInv, IInv', DataInv, ~failed, ReplayDraw, NEW r \in Resources
  PROVE  \A p \in (First + 1)..End :
           /\ Same(At(p, r), At(p, r)')
           /\ \A x \in Parts : Differs(At(p, r), At(p, r)', x) => Unsettled(r, p)
<1>0. /\ First + 1 \in Int /\ End \in Int /\ Way' = (First + 1)..(End - 1) /\ First \in Int
      /\ ReplayLeaves
      /\ \A p \in Way' : p \in Way /\ p \in Int /\ First < p
      /\ TypesInv /\ WorldInv /\ ChangeInv /\ MemoryTypes
  <2>1. First + 1 \in Int /\ End \in Int /\ Way' = (First + 1)..(End - 1) /\ ReplayLeaves
    BY DrawnStart
  <2> QED BY <2>1 DEF DataInv, IInv, MemoryInv, ReplayLeaves
<1>1. \A p \in (First + 1)..End : MirrorOK(At(p, r))
  <2>1. First = Consumed + 1
    BY DEF First
  <2>2. \A p \in (First + 1)..End : p \in First..End
    BY <1>0
  <2> QED BY <1>0, <2>1, <2>2, AheadTyped
<1>2. CASE r \notin ReadNow
  BY <1>1, <1>2, DrawnOther, SameItself
<1>3. CASE r \in ReadNow
  <2> DEFINE Good(p) == /\ Same(At(p, r), At(p, r)')
                        /\ \A x \in Parts : Differs(At(p, r), At(p, r)', x) => Unsettled(r, p)
             T == {p \in (First + 1)..End : ~Good(p)}
  <2> SUFFICES ASSUME T # {}
               PROVE  FALSE
    OBVIOUS
  <2>1. PICK p \in T : \A q \in T : p <= q
    <3>1. \A q \in T : q \in Int /\ First + 1 <= q
      BY <1>0
    <3> HIDE DEF T
    <3> QED BY <1>0, <3>1, Least
  <2>f. PICK f \in Int : f = First + 1
    BY <1>0
  <2>2. Good(f)
    <3>1. At(f, r) = mirror[r] /\ At(f, r)' = Uploaded(mirror[r]) /\ mirror[r] \in MirrorRecords
      BY <1>3, <2>f, DrawnStart DEF At
    <3> HIDE DEF Uploaded
    <3> QED BY <1>0, <3>1, SameUploaded
  <2>3. p \in Int /\ p # First + 1 /\ p - 1 \in Way' /\ p - 1 \in (First + 1)..End
    <3>1. p \in (First + 1)..End /\ p # f
      BY <2>2
    <3> QED BY <1>0, <2>f, <3>1
  <2>4. PICK q \in Int : q = p - 1
    BY <2>3
  <2>5. q + 1 = p /\ q \in Way' /\ q \in Way /\ Good(q) /\ q < p /\ First < q
    <3>1. q + 1 = p /\ q \in Way' /\ q < p /\ q \in (First + 1)..End
      BY <2>3, <2>4
    <3>2. q \notin T
      BY <2>1, <2>3, <3>1
    <3> QED BY <1>0, <3>1, <3>2
  <2>6. /\ At(p, r) = After(At(q, r), r, Cmd[q])
        /\ At(p, r)' = After(At(q, r)', r, Cmd[q])
        /\ CommandOK(Cmd[q], gen, lastWorkEnd)
    <3>1. /\ At(q + 1, r) = After(At(q, r), r, Cmd[q])
          /\ At(q + 1, r)' = After(At(q, r)', r, Cmd[q])
      BY <2>5, DrawnStart
    <3> QED BY <1>0, <2>5, <3>1 DEF TypesInv, CommandTypes
  <2>7. PICK a, b : a = At(q, r) /\ b = At(q, r)'
    OBVIOUS
  <2>8. Same(a, b) /\ \A x \in Parts : Differs(a, b, x) => Unsettled(r, q)
    BY <2>5, <2>7
  <2>9. Same(At(p, r), At(p, r)')
    BY <2>6, <2>7, <2>8, SameAfter
  <2>10. ASSUME NEW x \in Parts, Differs(At(p, r), At(p, r)', x)
         PROVE  Unsettled(r, p)
    <3>1. /\ ~(Cmd[q].op = "BIND" /\ Cmd[q].r = r /\ Cmd[q].new)
          /\ ~(Cmd[q].op = "DIRTY" /\ Cmd[q].r = r /\ Cmd[q].parts = Parts)
          /\ \/ Differs(a, b, x)
             \/ Cmd[q].op = "MEM" /\ Cmd[q].r = r
             \/ Cmd[q].op = "DATA" /\ Cmd[q].r = r /\ (~Cmd[q].written \/ a.shadow = NoBytes)
             \/ Cmd[q].op = "DIRTY" /\ Cmd[q].r = r /\ r \in Buffers /\ Cmd[q].block # a.block
      <4>1. Differs(After(a, r, Cmd[q]), After(b, r, Cmd[q]), x)
        BY <2>6, <2>7, <2>10
      <4> QED BY <1>0, <2>6, <2>8, <4>1, DiffersAfter
    <3>2. CASE Cmd[q].op = "MEM" /\ Cmd[q].r = r
      <4>1. ~Settled(q, r, p)
        <5>1. \A d \in Way : d \in Int
          BY WayFacts DEF IInv
        <5> QED BY <2>5, <5>1 DEF Settled
      <4> QED BY <2>5, <3>2, <4>1 DEF Unsettled, Is
    <3>3. CASE Differs(a, b, x)
      <4>1. PICK m \in Way : First < m /\ m < q /\ Is(m, "MEM", r) /\ ~Settled(m, r, q)
        BY <2>8, <3>3 DEF Unsettled
      <4>2. m \in Int /\ m < p /\ \A d \in Way : d \in Int
        <5>1. \A d \in Way : d \in Int
          BY WayFacts DEF IInv
        <5> QED BY <2>5, <4>1, <5>1
      <4>3. ASSUME Settled(m, r, p)
            PROVE  FALSE
        <5>1. PICK d \in Way : m < d /\ d < p /\ Settles(d, r)
          BY <4>3 DEF Settled
        <5>2. d = q
          <6>1. ~(d < q)
            BY <4>1, <5>1 DEF Settled
          <6> QED BY <2>5, <4>2, <5>1, <6>1
        <5> QED BY <3>1, <5>1, <5>2 DEF Settles, Bears, Is
      <4> QED BY <4>1, <4>2, <4>3 DEF Unsettled
    <3>4. CASE Cmd[q].op = "DATA" /\ Cmd[q].r = r /\ ~Cmd[q].written
      <4>1. Reads(First, r) /\ First \in Way
        BY <1>3, DrawnStart DEF ReplayLeaves
      <4> QED BY <1>0, <2>5, <3>4, <4>1 DEF ChangeInv, Is
    <3>5. CASE Cmd[q].op = "DATA" /\ Cmd[q].r = r /\ Cmd[q].written /\ a.shadow = NoBytes
      BY <1>0, <2>5, <2>7, <3>5 DEF WorldInv, Finds
    <3>6. CASE Cmd[q].op = "DIRTY" /\ Cmd[q].r = r /\ r \in Buffers /\ Cmd[q].block # a.block
      BY <1>0, <2>5, <2>7, <3>6 DEF WorldInv, Finds
    <3> QED BY <3>1, <3>2, <3>3, <3>4, <3>5, <3>6
  <2> QED BY <2>1, <2>9, <2>10
<1> QED BY <1>2, <1>3

----------------------------------------------------------------------------
(* WorldInv.                                                               *)

LEMMA FindsKept ==
  ASSUME NEW p, Finds(p), Cmd'[p] = Cmd[p],
         \A r \in Resources : At(p, r)' # NoRec <=> At(p, r) # NoRec,
         \A r \in Resources : /\ At(p, r)'.block = At(p, r).block
                              /\ At(p, r)'.shadow = At(p, r).shadow,
         StagedAt(p)' = StagedAt(p), CommandOK(Cmd[p], gen, lastWorkEnd)
  PROVE  Finds(p)'
<1>1. Cmd[p].op \in {"MEM", "DIRTY", "DATA", "DESTROY"} => Cmd[p].r \in Resources
  BY DEF CommandOK
<1> QED BY <1>1 DEF Finds

LEMMA FindsPast ==
  ASSUME IInv, TypesInv, WorldInv, NEW p \in Way, Cmd'[p] = Cmd[p], Ahead'[p] = Ahead[p]
  PROVE  Finds(p)'
<1>1. StagedAt(p)' = StagedAt(p) /\ \A r : At(p, r)' = At(p, r)
  BY DEF At, StagedAt
<1>2. Finds(p) /\ CommandOK(Cmd[p], gen, lastWorkEnd)
  BY DEF WorldInv, TypesInv, CommandTypes
<1> QED BY <1>1, <1>2, FindsKept

(* The command added is for a resource that is recorded.                   *)
LEMMA FindsOne ==
  ASSUME IInv, TypesInv, WorldInv, Longer, NEW op \in {"MEM", "DIRTY", "DATA"}, NEW r \in Resources,
         AddedOne(op, r), rec[r] # NoRec,
         op = "DIRTY" => Cmd'[End].block = addr[r], op = "DATA" => ~Cmd'[End].written
  PROVE  \A p \in Way' : Finds(p)'
<1>1. PICK e \in Int : e = End
  BY WayFacts DEF IInv
<1>2. Ahead'[e] = Ahead[e]
  BY <1>1, WayFacts DEF Longer, IInv
<1>3. At(e, r)' = Final(r) /\ Final(r) # NoRec /\ Final(r).block = addr[r]
  BY <1>1, <1>2 DEF At, Final, WorldInv, EndsAsRecorded
<1>4. Cmd'[e].op = op /\ Cmd'[e].r = r
  BY <1>1 DEF AddedOne
<1>5. Finds(e)'
  BY <1>1, <1>3, <1>4 DEF Finds
<1>6. \A p \in Way : Finds(p)'
  BY FindsPast DEF AddedOne, Past
<1> QED BY <1>1, <1>5, <1>6 DEF AddedOne

LEMMA WorldSteady ==
  ASSUME IInv, TypesInv, WorldInv, Steady, UNCHANGED <<rec, sync>>,
         \A r \in Resources : rec[r] # NoRec => addr'[r] = addr[r]
  PROVE  WorldInv'
<1>1. \A p \in Way' : Finds(p)'
  BY FindsPast DEF Steady
<1>2. StagedAt(End)' = StagedAt(End) /\ \A r : Final(r)' = Final(r)
  BY DEF Steady, StagedAt, Final, At
<1>3. EndsAsRecorded'
  BY <1>2 DEF WorldInv, EndsAsRecorded
<1> QED BY <1>1, <1>3 DEF WorldInv

LEMMA WorldLocal ==
  ASSUME IInv, TypesInv, WorldInv, Local, NEW s \in Resources, LocalStep(s)
  PROVE  WorldInv'
<1>1. addr = [r \in Resources |-> addr[r]]
  BY DEF IInv, MemoryInv, MemoryTypes
<1>2. \A r \in Resources : rec[r] # NoRec => addr'[r] = addr[r]
  BY <1>1 DEF LocalStep, Idle, Gains, Locks, Writes, Unlocks, Drops
<1> QED BY <1>2, WorldSteady DEF Local

LEMMA FinalTyped ==
  ASSUME IInv, TypesInv, NEW r \in Resources, Final(r) # NoRec
  PROVE  Final(r) \in MirrorRecords
<1>1. End \in (Consumed + 1)..End
  BY WayFacts DEF IInv
<1> QED BY <1>1, AheadTyped DEF Final, MirrorOK

LEMMA AfterUntouched ==
  ASSUME NEW m, NEW r, NEW c, c.r # r
  PROVE  After(m, r, c) = m
BY AfterOther DEF Touches

LEMMA WorldMoves ==
  ASSUME IInv, IInv', DataInv, TypesInv', ~failed, NEW s \in Resources, NEW b \in Blocks,
         Adding, Moves(s, b)
  PROVE  WorldInv'
<1>1. /\ AddedOne("MEM", s) /\ Cmd'[End].block = b /\ rec[s] # NoRec /\ Longer
      /\ WorldInv /\ TypesInv /\ UNCHANGED <<rec, sync>>
  BY MovesAdded DEF Adding, DataInv, Moves
<1>2. \A p \in Way' : Finds(p)'
  BY <1>1, FindsOne
<1>3. ASSUME NEW r \in Resources, rec'[r] # NoRec
      PROVE  /\ Final(r)' # NoRec /\ Final(r)'.block = addr'[r]
             /\ Final(r)'.shadow # NoBytes <=> rec'[r].eager
  <2>1. /\ Final(r) # NoRec /\ Final(r) \in MirrorRecords /\ Final(r).block = addr[r]
        /\ (Final(r).shadow # NoBytes <=> rec[r].eager) /\ rec'[r] = rec[r]
    BY <1>1, <1>3, FinalTyped DEF WorldInv, EndsAsRecorded
  <2>2. Final(r)' = After(Final(r), r, Cmd'[End]) /\ Cmd'[End].op = "MEM" /\ Cmd'[End].r = s
    BY <1>1 DEF AddedOne
  <2>3. CASE r # s
    <3>1. Final(r)' = Final(r) /\ addr'[r] = addr[r]
      BY <2>2, <2>3, AfterUntouched DEF Moves, IInv, MemoryInv, MemoryTypes
    <3> QED BY <2>1, <3>1
  <2>4. CASE r = s
    <3>1. Final(r)' = Moved(Final(r), Cmd'[End])
      BY <2>1, <2>2, <2>4, AfterMem
    <3>2. Moved(Final(r), Cmd'[End]) # NoRec /\ Moved(Final(r), Cmd'[End]).block = b
          /\ Moved(Final(r), Cmd'[End]).shadow = Final(r).shadow
      <4>1. CommandOK(Cmd'[End], gen', lastWorkEnd')
        BY <1>1 DEF TypesInv, CommandTypes, AddedOne
      <4> QED BY <1>1, <2>1, <2>2, <4>1, MovedTyped
    <3>3. addr'[r] = b
      BY <2>4 DEF Moves, IInv, MemoryInv, MemoryTypes
    <3> HIDE DEF Moved
    <3> QED BY <2>1, <3>1, <3>2, <3>3
  <2> QED BY <2>3, <2>4
<1>4. StagedAt(End)' = sync'
  BY <1>1 DEF AddedOne, WorldInv, EndsAsRecorded
<1> QED BY <1>2, <1>3, <1>4 DEF WorldInv, EndsAsRecorded

LEMMA WorldDirties ==
  ASSUME IInv, IInv', DataInv, TypesInv', ~failed, NEW s \in Resources, Adding, Dirties(s)
  PROVE  WorldInv'
<1>1. /\ AddedOne("DIRTY", s) /\ Cmd'[End].block = addr[s] /\ rec[s] # NoRec /\ Longer
      /\ WorldInv /\ TypesInv /\ UNCHANGED <<addr, sync>>
  BY DirtiesAdded DEF Adding, DataInv, Dirties
<1>2. \A p \in Way' : Finds(p)'
  BY <1>1, FindsOne
<1>3. ASSUME NEW r \in Resources, rec'[r] # NoRec
      PROVE  /\ Final(r)' # NoRec /\ Final(r)'.block = addr'[r]
             /\ Final(r)'.shadow # NoBytes <=> rec'[r].eager
  <2>0. rec[r] # NoRec /\ rec'[r].eager = rec[r].eager
    BY <1>1, <1>3, DirtiedRecord
  <2>1. /\ Final(r) # NoRec /\ Final(r) \in MirrorRecords /\ Final(r).block = addr[r]
        /\ (Final(r).shadow # NoBytes <=> rec[r].eager)
    BY <1>1, <2>0, FinalTyped DEF WorldInv, EndsAsRecorded
  <2>2. Final(r)' = After(Final(r), r, Cmd'[End]) /\ Cmd'[End].op = "DIRTY" /\ Cmd'[End].r = s
    BY <1>1 DEF AddedOne
  <2>3. CASE r # s
    <3>1. Final(r)' = Final(r)
      BY <2>2, <2>3, AfterUntouched
    <3> QED BY <1>1, <2>0, <2>1, <3>1
  <2>4. CASE r = s
    <3>1. Final(r)' = Dirtied(Final(r), r, Cmd'[End])
      BY SMTT(30), <2>1, <2>2, <2>4, AfterDirty
    <3>2. /\ Dirtied(Final(r), r, Cmd'[End]) # NoRec
          /\ Dirtied(Final(r), r, Cmd'[End]).block = IF r \in Buffers THEN addr[s] ELSE Final(r).block
          /\ Dirtied(Final(r), r, Cmd'[End]).shadow = Final(r).shadow
      <4>1. CommandOK(Cmd'[End], gen', lastWorkEnd')
        BY <1>1 DEF TypesInv, CommandTypes, AddedOne
      <4> QED BY <1>1, <2>1, <2>2, <4>1, DirtiedTyped
    <3> HIDE DEF Dirtied
    <3> QED BY <1>1, <2>0, <2>1, <2>4, <3>1, <3>2
  <2> QED BY <2>3, <2>4
<1>4. StagedAt(End)' = sync'
  BY <1>1 DEF AddedOne, WorldInv, EndsAsRecorded
<1> QED BY <1>2, <1>3, <1>4 DEF WorldInv, EndsAsRecorded

LEMMA WorldChanges ==
  ASSUME IInv, IInv', DataInv, TypesInv', ~failed, NEW s \in Resources, Adding, Changes(s)
  PROVE  WorldInv'
<1>1. /\ AddedOne("DATA", s) /\ Cmd'[End].written = FALSE /\ rec[s] # NoRec /\ Longer
      /\ WorldInv /\ TypesInv /\ UNCHANGED <<addr, sync>>
  BY ChangesAdded DEF Adding, DataInv, Changes
<1>2. \A p \in Way' : Finds(p)'
  BY <1>1, FindsOne
<1>3. ASSUME NEW r \in Resources, rec'[r] # NoRec
      PROVE  /\ Final(r)' # NoRec /\ Final(r)'.block = addr'[r]
             /\ Final(r)'.shadow # NoBytes <=> rec'[r].eager
  <2>0. rec[r] # NoRec /\ (r # s => rec'[r] = rec[r]) /\ rec'[s].eager
    BY <1>1, <1>3, ChangedRecord
  <2>1. /\ Final(r) # NoRec /\ Final(r) \in MirrorRecords /\ Final(r).block = addr[r]
        /\ (Final(r).shadow # NoBytes <=> rec[r].eager)
    BY <1>1, <2>0, FinalTyped DEF WorldInv, EndsAsRecorded
  <2>2. Final(r)' = After(Final(r), r, Cmd'[End]) /\ Cmd'[End].op = "DATA" /\ Cmd'[End].r = s
    BY <1>1 DEF AddedOne
  <2>3. CASE r # s
    <3>1. Final(r)' = Final(r)
      BY <2>2, <2>3, AfterUntouched
    <3> QED BY <1>1, <2>0, <2>1, <2>3, <3>1
  <2>4. CASE r = s
    <3>1. Final(r)' = Given(Final(r), Cmd'[End])
      BY <2>1, <2>2, <2>4, AfterData
    <3>2. /\ Given(Final(r), Cmd'[End]) # NoRec /\ Given(Final(r), Cmd'[End]).block = Final(r).block
          /\ Given(Final(r), Cmd'[End]).shadow # NoBytes
      <4>1. CommandOK(Cmd'[End], gen', lastWorkEnd')
        BY <1>1 DEF TypesInv, CommandTypes, AddedOne
      <4> QED BY <1>1, <2>1, <2>2, <4>1, GivenTyped
    <3> HIDE DEF Given
    <3> QED BY <1>1, <2>0, <2>1, <2>4, <3>1, <3>2
  <2> QED BY <2>3, <2>4
<1>4. StagedAt(End)' = sync'
  BY <1>1 DEF AddedOne, WorldInv, EndsAsRecorded
<1> QED BY <1>2, <1>3, <1>4 DEF WorldInv, EndsAsRecorded

LEMMA WorldUndone ==
  ASSUME IInv, IInv', DataInv, TypesInv', ~failed, NEW s \in Resources, Undone(s)
  PROVE  WorldInv'
<1>1. WorldInv /\ TypesInv /\ Past /\ Longer /\ sync' = sync /\ rec[s] # NoRec
  BY LongerPast DEF DataInv, Undone, Destroys
<1>2. PICK e \in Int : e = End
  BY WayFacts DEF IInv
<1>3. Ahead'[e] = Ahead[e]
  BY SMTT(30), <1>1, <1>2, WayFacts DEF Longer, IInv
<1>4. Cmd'[e].op = "DESTROY" /\ Cmd'[e].r = s /\ Cmd'[e + 1].op = "FREE"
      /\ \A p \in Way' : p \in Way \/ p = e \/ p = e + 1
  BY <1>2, DestroyAdded
<1>5. Finds(e)'
  <2>1. At(e, s)' # NoRec
    BY <1>1, <1>2, <1>3 DEF At, Final, WorldInv, EndsAsRecorded
  <2> QED BY <1>4, <2>1 DEF Finds
<1>6. Finds(e + 1)'
  BY <1>4 DEF Finds
<1>7. \A p \in Way' : Finds(p)'
  <2>1. \A p \in Way : Finds(p)'
    BY <1>1, FindsPast DEF Past
  <2> QED BY <1>4, <1>5, <1>6, <2>1
<1>8. ASSUME NEW r \in Resources, rec'[r] # NoRec
      PROVE  /\ Final(r)' # NoRec /\ Final(r)'.block = addr'[r]
             /\ Final(r)'.shadow # NoBytes <=> rec'[r].eager
  <2>1. r # s /\ rec'[r] = rec[r]
    BY <1>1, <1>8, UndoneRecord
  <2>2. Final(r)' = Final(r)
    BY <2>1, DestroyFinal
  <2>3. addr'[r] = addr[r]
    BY <2>1 DEF Undone, Destroys, IInv, MemoryInv, MemoryTypes
  <2> QED BY <1>1, <1>8, <2>1, <2>2, <2>3 DEF WorldInv, EndsAsRecorded
<1>9. StagedAt(End)' = sync'
  BY <1>1, DestroyAdded DEF WorldInv, EndsAsRecorded
<1> QED BY <1>7, <1>8, <1>9 DEF WorldInv, EndsAsRecorded

(* A draw or present: the bytes it sends are of buffers changed over.      *)
Takes(X) == \A c \in X : c.written /\ rec[c.r].eager /\ CommandOK(c, gen, lastWorkEnd)

LEMMA DatasTake ==
  ASSUME IInv, TypesInv, NEW use \in Uses, NEW all
  PROVE  Takes(Datas(use, all))
<1>1. ASSUME NEW c \in Datas(use, all)
      PROVE  c.written /\ rec[c.r].eager /\ CommandOK(c, gen, lastWorkEnd)
  <2>1. PICK r \in Taken(use, all) : c = Data(r, Take(r, use, all), TRUE)
    BY DEF Datas
  <2>2. c.written /\ c.r = r
    BY <2>1 DEF Data
  <2> QED BY <2>2, TakenFacts, DatasOK
<1> QED BY <1>1 DEF Takes

LEMMA BatchBefore ==
  ASSUME IInv, IInv', DataInv, ~failed, NEW X, NEW w, NEW l \in Int, Longer, Sends(X),
         Listed(Unbinds \cup Binds \cup X, w, l), NEW p \in End..(l - 1),
         NEW c \in X, Cmd'[p] = c
  PROVE  At(p, c.r)' = Final(c.r)
<1> PICK e \in Int : e = End
  BY WayFacts DEF IInv
<1> PICK r : r = c.r
  OBVIOUS
<1>1. c \in X /\ r \in Resources /\ rec[r] # NoRec /\ c.r = r /\ TypesInv
  BY DEF Sends, DataInv
<1>2. ASSUME NEW q \in e..(p - 1), Touches(Cmd'[q], r), ~(Cmd'[q].op = "BIND" /\ ~Cmd'[q].new)
      PROVE  FALSE
  <2>1. q \in End..(l - 1) /\ q # p
    OBVIOUS
  <2>2. Cmd'[q] \in Unbinds \cup Binds \cup X
    BY <2>1 DEF Listed
  <2>3. (Cmd'[q] = BindCommand(r) /\ r \in Fresh) \/ (Cmd'[q] \in X /\ Cmd'[q].r = r)
    BY <1>1, <1>2, <2>2, BatchTouches
  <2>4. r \notin Fresh
    BY <1>1 DEF Fresh
  <2>5. Cmd'[q] = c
    BY <1>1, <2>3, <2>4 DEF Sends
  <2> QED BY <2>1, <2>5 DEF Listed
<1>3. Consumed' + 1 <= e /\ e <= p /\ p <= End' /\ p \in Int
  <2>1. Consumed' = Consumed /\ Consumed + 1 <= End /\ Consumed \in Int /\ End' = l + 1
    BY WayFacts DEF IInv, Longer, Listed
  <2> QED BY <2>1
<1>4. At(p, r)' = At(e, r)'
  BY <1>1, <1>2, <1>3, UntouchedNext
<1>5. Ahead'[e] = Ahead[e]
  BY WayFacts DEF Longer, IInv
<1> QED BY <1>1, <1>4, <1>5 DEF At, Final

LEMMA WorldBatch ==
  ASSUME IInv, IInv', DataInv, TypesInv', ~failed, NEW X, NEW w, NEW l \in Int, Sends(X), Takes(X),
         Adding, Flush, addr' = addr, Listed(Unbinds \cup Binds \cup X, w, l),
         w.op = "PRESENT" \/ (w.op = "DRAW" /\ DOMAIN w.use = bound)
  PROVE  WorldInv'
<1>1. WorldInv /\ TypesInv /\ Past /\ Longer /\ Cmd'[l] = w /\ bound' = bound
      /\ bound \subseteq live /\ sync \subseteq Resources /\ bound \subseteq Resources
  <2>1. TypesInv /\ Longer /\ bound' = bound
    BY DEF DataInv, Adding
  <2> QED BY <2>1, LongerPast, TypesFacts DEF DataInv, Listed
<1>2. StagedAt(l)' = bound /\ StagedAt(End)' = bound /\ \A r \in Resources : Final(r)' = At(l, r)'
  BY <1>1, BatchLast
<1>3. ASSUME NEW p \in Way'
      PROVE  Finds(p)'
  <2>1. CASE p \in Way
    BY <1>1, <2>1, FindsPast DEF Past
  <2>2. CASE p = l
    BY <1>1, <1>2, <2>2 DEF Finds
  <2>3. CASE p \notin Way /\ p # l
    <3>1. /\ p \in End..(l - 1) /\ Cmd'[p].op \in {"BIND", "UNBIND", "DATA"}
          /\ Cmd'[p] \in Unbinds \cup Binds \cup X
      BY <1>1, <2>3, ListedOps DEF Listed
    <3>2. CASE Cmd'[p].op = "DATA"
      <4>1. Cmd'[p] \in X
        <5>1. \A c \in Unbinds \cup Binds : c.op # "DATA"
          BY DEF Unbinds, Binds, BindCommand
        <5> QED BY <3>1, <3>2, <5>1
      <4> PICK c : c = Cmd'[p]
        OBVIOUS
      <4>2. At(p, c.r)' = Final(c.r)
        BY <1>1, <3>1, <4>1, BatchBefore
      <4>3. c.r \in Resources /\ rec[c.r] # NoRec /\ rec[c.r].eager
        BY <4>1 DEF Sends, Takes
      <4>4. Final(c.r) # NoRec /\ Final(c.r).shadow # NoBytes
        BY <1>1, <4>3 DEF WorldInv, EndsAsRecorded
      <4> QED BY <3>2, <4>2, <4>4 DEF Finds
    <3>3. CASE Cmd'[p].op \in {"BIND", "UNBIND"}
      BY <3>3 DEF Finds
    <3> QED BY <3>1, <3>2, <3>3
  <2> QED BY <2>1, <2>2, <2>3
<1>4. ASSUME NEW r \in Resources, rec'[r] # NoRec
      PROVE  /\ Final(r)' # NoRec /\ Final(r)'.block = addr'[r]
             /\ Final(r)'.shadow # NoBytes <=> rec'[r].eager
  <2>1. CASE r \in Fresh
    <3>1. At(l, r)' = Born(BindCommand(r))
      BY <1>1, <2>1, BatchMirror
    <3>2. /\ CommandOK(BindCommand(r), gen + Cardinality(Fresh), lastWorkEnd)
          /\ BindCommand(r).op = "BIND" /\ BindCommand(r).block = addr[r]
          /\ r \in Dynamic => BindCommand(r).shadow = mem[addr[r]]
          /\ ~(r \in Dynamic) => BindCommand(r).shadow = NoBytes
      <4>1. r \in Starting
        BY <2>1 DEF Fresh, Starting
      <4> QED BY <1>1, <2>1, <4>1, BindOK
    <3>3. /\ Born(BindCommand(r)) # NoRec /\ Born(BindCommand(r)).block = addr[r]
          /\ Born(BindCommand(r)).shadow = BindCommand(r).shadow
      BY <3>2, BornTyped
    <3>4. r \in Dynamic => mem[addr[r]] # NoBytes
      <4>1. r \in live /\ MemoryInv
        BY <1>1, <2>1 DEF Fresh, IInv
      <4>2. r \in Dynamic => r \in Buffers
        BY RenderLinkAssumption
      <4> QED BY <4>1, <4>2, BufferContent
    <3>5. rec'[r].eager <=> r \in Dynamic
      <4>1. rec'[r] = NewRec(r) /\ gen \in Nat
        BY <1>1, <2>1, BatchRecord, TypesFacts
      <4> QED BY <1>1, <2>1, <4>1, NewRecFacts
    <3> HIDE DEF Born, BindCommand
    <3> QED BY <1>2, <3>1, <3>2, <3>3, <3>4, <3>5
  <2>2. CASE rec[r] # NoRec
    <3>1. /\ Final(r) # NoRec /\ Final(r) \in MirrorRecords /\ Final(r).block = addr[r]
          /\ (Final(r).shadow # NoBytes <=> rec[r].eager) /\ rec'[r].eager = rec[r].eager
      BY <1>1, <2>2, FinalTyped, BatchRecord DEF WorldInv, EndsAsRecorded
    <3>2. CASE \E c \in X : c.r = r
      <4>1. PICK c \in X : c.r = r
        BY <3>2
      <4>2. At(l, r)' = Given(Final(r), c)
        BY <1>1, <4>1, BatchMirror
      <4>3. rec[r].eager /\ CommandOK(c, gen, lastWorkEnd) /\ c.op = "DATA"
        BY <4>1 DEF Takes, Sends
      <4>4. /\ Given(Final(r), c) # NoRec /\ Given(Final(r), c).block = Final(r).block
            /\ Given(Final(r), c).shadow # NoBytes
        BY <3>1, <4>3, GivenTyped
      <4> HIDE DEF Given
      <4> QED BY <1>2, <3>1, <4>2, <4>3, <4>4
    <3>3. CASE \A c \in X : c.r # r
      <4>1. At(l, r)' = Final(r)
        BY <1>1, <2>2, <3>3, BatchMirror DEF Fresh
      <4> QED BY <1>2, <3>1, <4>1
    <3> QED BY <3>2, <3>3
  <2> QED BY <1>1, <1>4, <2>1, <2>2, BatchRecord DEF Fresh
<1>5. StagedAt(End)' = sync'
  BY <1>1, <1>2, BatchRecord
<1> QED BY <1>3, <1>4, <1>5 DEF WorldInv, EndsAsRecorded

LEMMA WorldShorter ==
  ASSUME IInv, IInv', DataInv, ~failed, ReplayLeaves, Shorter
  PROVE  WorldInv'
<1>1. WorldInv /\ TypesInv /\ UNCHANGED <<rec, addr, sync>> /\ End' = End
      /\ \A p \in (First + 1)..End : Ahead'[p] = Ahead[p]
  BY DEF DataInv, ReplayLeaves, Shorter
<1>2. End \in Int /\ First \in Int /\ First + 1 <= End /\ Way = First..(End - 1)
  <2>1. Way = (Consumed + 1)..(End - 1) /\ End \in Int /\ Consumed \in Int /\ First \in Way
    BY WayFacts DEF IInv, Shorter
  <2> QED BY <2>1 DEF First
<1>3. ASSUME NEW p \in Way'
      PROVE  Finds(p)'
  <2>1. p \in Way /\ Cmd'[p] = Cmd[p] /\ First < p
    BY DEF Shorter
  <2>2. p \in (First + 1)..End
    BY <1>2, <2>1
  <2> QED BY <1>1, <2>1, <2>2, FindsPast
<1>4. StagedAt(End)' = StagedAt(End) /\ \A r : Final(r)' = Final(r)
  BY <1>1, <1>2 DEF StagedAt, Final, At
<1> QED BY <1>1, <1>3, <1>4 DEF WorldInv, EndsAsRecorded

LEMMA WorldDrawn ==
  ASSUME IInv, IInv', DataInv, ~failed, ReplayDraw
  PROVE  WorldInv'
<1>1. /\ WorldInv /\ TypesInv /\ UNCHANGED <<rec, addr, sync>> /\ End' = End
      /\ \A p \in (First + 1)..End : StagedAt(p)' = StagedAt(p)
      /\ First + 1 \in Int /\ First + 1 <= End /\ End \in Int
      /\ \A p \in Way' : p \in Way /\ Cmd'[p] = Cmd[p]
      /\ Way' = (First + 1)..(End - 1)
  BY DrawnStart DEF DataInv, ReplayLeaves
<1>2. ASSUME NEW p \in (First + 1)..End, NEW r \in Resources
      PROVE  /\ At(p, r)' # NoRec <=> At(p, r) # NoRec
             /\ At(p, r)'.block = At(p, r).block /\ At(p, r)'.shadow = At(p, r).shadow
  BY DrawnAhead DEF Same
<1>3. ASSUME NEW p \in Way'
      PROVE  Finds(p)'
  <2>1. p \in (First + 1)..End
    BY <1>1
  <2>2. /\ \A r \in Resources : At(p, r)' # NoRec <=> At(p, r) # NoRec
        /\ \A r \in Resources : /\ At(p, r)'.block = At(p, r).block
                                /\ At(p, r)'.shadow = At(p, r).shadow
        /\ StagedAt(p)' = StagedAt(p)
    BY <1>1, <1>2, <2>1
  <2>3. Finds(p) /\ CommandOK(Cmd[p], gen, lastWorkEnd) /\ Cmd'[p] = Cmd[p]
    BY <1>1 DEF WorldInv, TypesInv, CommandTypes
  <2> QED BY <2>2, <2>3, FindsKept
<1>4. PICK e \in Int : e = End
  BY <1>1
<1>5. e \in (First + 1)..End
  BY <1>1, <1>4
<1>6. \A r \in Resources : /\ Final(r)' # NoRec <=> Final(r) # NoRec
                           /\ Final(r)'.block = Final(r).block /\ Final(r)'.shadow = Final(r).shadow
  BY <1>1, <1>2, <1>4, <1>5 DEF Final, At
<1>7. StagedAt(End)' = StagedAt(End)
  BY <1>1, <1>4, <1>5 DEF StagedAt
<1> QED BY <1>1, <1>3, <1>6, <1>7 DEF WorldInv, EndsAsRecorded

LEMMA WorldFreed ==
  ASSUME IInv, IInv', DataInv, ~failed, Free, Freed
  PROVE  WorldInv'
<1>1. WorldInv /\ TypesInv /\ UNCHANGED <<rec, addr, sync>> /\ RecordInv
  BY DEF DataInv, Free, recordVars, TypesInv
<1>2. \A p \in Way' : Finds(p)'
  <2>1. ASSUME NEW p \in Way'
        PROVE  Finds(p)'
    <3>1. p \in Way /\ Cmd'[p] = Cmd[p]
      BY DEF Freed
    <3>2. p \in (Consumed + 1)..End'
      <4>1. Way' = Way \ {End'} /\ Way = (Consumed + 1)..(End - 1) /\ End' = End - 1
            /\ End \in Int /\ Consumed \in Int
        BY WayFacts DEF Freed, IInv
      <4> QED BY <3>1, <4>1
    <3> QED BY <1>1, <3>1, <3>2, FindsPast DEF Freed
  <2> QED BY <2>1
<1>3. PICK e \in Int : e = End'
  BY DEF Freed
<1>4. e \in (Consumed + 1)..End' /\ Ahead'[e] = Ahead[e]
  <2>1. Consumed \in Int /\ Consumed + 1 <= End'
    BY WayFacts DEF IInv, Freed
  <2>2. e \in (Consumed + 1)..End'
    BY <1>3, <2>1
  <2> QED BY <2>2 DEF Freed
<1>5. \A r \in Resources : Final(r)' = Final(r)
  BY <1>3, <1>4 DEF Final, At, Freed
<1>6. StagedAt(End)' = StagedAt(End)
  BY <1>3, <1>4 DEF StagedAt, Freed
<1> QED BY <1>1, <1>2, <1>5, <1>6 DEF WorldInv, EndsAsRecorded

LEMMA WorldStep ==
  ASSUME IInv, IInv', DataInv, TypesInv', ~failed, Kinds
  PROVE  WorldInv'
<1>0. WorldInv /\ TypesInv
  BY DEF DataInv
<1>1. CASE Quietly
  BY <1>0, <1>1, WorldSteady DEF Quietly
<1>2. CASE Local /\ \E s \in Resources : LocalStep(s)
  BY <1>0, <1>2, WorldLocal
<1>3. CASE Adding /\ \E r \in Resources : (\E b \in Blocks : Moves(r, b)) \/ Dirties(r) \/ Changes(r)
  BY <1>3, WorldMoves, WorldDirties, WorldChanges
<1>4. CASE \E r \in Resources : Undone(r)
  BY <1>4, WorldUndone
<1>5. CASE \E use, all : DrawsNow(use, all)
  <2> PICK use, all : DrawsNow(use, all)
    BY <1>5
  <2>1. PICK l \in Int : Listed(Unbinds \cup Binds \cup Datas(use, all), DrawCommand(use), l)
    BY DrawsListed
  <2>2. Adding /\ Flush /\ Sends(Datas(use, all)) /\ addr' = addr /\ use \in Uses
    BY DrawsListed
  <2>3. DrawCommand(use).op = "DRAW" /\ DOMAIN DrawCommand(use).use = bound
    BY <2>2 DEF DrawCommand, Uses
  <2>4. Takes(Datas(use, all))
    BY <1>0, <2>2, DatasTake
  <2> HIDE DEF DrawCommand, Datas
  <2> QED BY <2>1, <2>2, <2>3, <2>4, WorldBatch
<1>6. CASE PresentsNow
  <2>1. PICK l \in Int : Listed(Unbinds \cup Binds \cup {}, [op |-> "PRESENT"], l)
    BY <1>6, PresentsListed
  <2>2. Adding /\ Flush /\ Sends({}) /\ [op |-> "PRESENT"].op = "PRESENT" /\ addr' = addr /\ Takes({})
    BY <1>6, PresentsListed DEF Takes
  <2> QED BY <2>1, <2>2, WorldBatch
<1>7. CASE Free /\ Freed
  BY <1>7, WorldFreed
<1>8. CASE Shorter /\ Replays
  BY <1>8, WorldShorter, ReplayLeft DEF Replays
<1>9. CASE ReplayDraw
  BY <1>9, WorldDrawn
<1> QED BY <1>1, <1>2, <1>3, <1>4, <1>5, <1>6, <1>7, <1>8, <1>9 DEF Kinds

----------------------------------------------------------------------------
(* GenInv.                                                                 *)

(* The records alive are those of before, or like them.                    *)
LEMMA GenKept ==
  ASSUME GenInv, UNCHANGED <<mirror, ack>>,
         \A p \in Way', q \in Resources : Renews(p, q)' => p \in Way /\ Cmd'[p] = Cmd[p],
         \A r \in Resources : \A c : Alive(r, c)' =>
           \E d : Alive(r, d) /\ d.gen = c.gen /\ d.slot = c.slot
  PROVE  GenInv'
<1> SUFFICES ASSUME NEW r \in Resources, NEW c, Alive(r, c)'
             PROVE  UsedOnce(r, c.gen)' /\ Uploads(r, c)'
  BY DEF GenInv
<1>1. PICK d : Alive(r, d) /\ d.gen = c.gen /\ d.slot = c.slot
  OBVIOUS
<1>2. UsedOnce(r, c.gen) /\ Uploads(r, d)
  BY <1>1 DEF GenInv
<1>3. \A p \in Way', q \in Resources : Renews(p, q)' => p \in Way /\ Renews(p, q) /\ Cmd'[p] = Cmd[p]
  <2>1. ASSUME NEW p \in Way', NEW q \in Resources, Renews(p, q)'
        PROVE  p \in Way /\ Renews(p, q) /\ Cmd'[p] = Cmd[p]
    <3>1. p \in Way /\ Cmd'[p] = Cmd[p]
      BY <2>1
    <3> QED BY <2>1, <3>1 DEF Renews, Bears, Is
  <2> QED BY <2>1
<1>4. UsedOnce(r, c.gen)'
  <2>1. ASSUME NEW p \in Way', NEW q \in Resources, Renews(p, q)', Cmd'[p].gen = c.gen
        PROVE  q = r /\ LastRenewal(p, r)'
    <3>1. p \in Way /\ Renews(p, q) /\ Cmd[p].gen = c.gen
      BY <1>3, <2>1
    <3>2. q = r /\ LastRenewal(p, r)
      BY <1>2, <3>1 DEF UsedOnce
    <3> QED BY <1>3, <3>2 DEF LastRenewal
  <2>2. ASSUME NEW q \in Resources, Known(q)', mirror'[q].gen = c.gen
        PROVE  q = r /\ \A p \in Way' : ~Renews(p, r)'
    BY <1>2, <1>3, <2>2 DEF UsedOnce, Known
  <2> QED BY <2>1, <2>2 DEF UsedOnce
<1>5. Uploads(r, c)'
  BY <1>1, <1>2 DEF Uploads, Known
<1> QED BY <1>4, <1>5

LEMMA GenSteady ==
  ASSUME GenInv, Steady, UNCHANGED <<rec, ack>>
  PROVE  GenInv'
<1>1. \A r \in Resources : \A c : Alive(r, c)' => Alive(r, c)
  BY DEF Alive, Steady, Is
<1> QED BY <1>1, GenKept DEF Steady

(* No release on its way: the records alive are those of resources.        *)
LEMMA AliveNow ==
  ASSUME IInv', TypesInv', \A p \in Way' : Cmd'[p].op # "FREE", NEW r, NEW c, Alive(r, c)'
  PROVE  c = rec'[r] /\ c # NoRec
BY DEF Alive, Is

LEMMA GenMoves ==
  ASSUME IInv, IInv', DataInv, TypesInv', ~failed, NEW s \in Resources, NEW b \in Blocks,
         Adding, Moves(s, b)
  PROVE  GenInv'
<1>1. /\ AddedOne("MEM", s) /\ GenInv /\ TypesInv /\ rec' = rec /\ UNCHANGED <<ack, mirror>>
      /\ \A p \in Way : Cmd[p].op # "FREE"
  BY MovesAdded, NoFrees DEF Adding, DataInv, Moves, Longer
<1>2. \A p \in Way', q \in Resources : Renews(p, q)' => p \in Way /\ Cmd'[p] = Cmd[p]
  BY <1>1 DEF AddedOne, Past, Renews, Bears, Is
<1>3. \A p \in Way' : Cmd'[p].op # "FREE"
  BY <1>1 DEF AddedOne, Past
<1>4. \A r \in Resources : \A c : Alive(r, c)' => Alive(r, c)
  BY <1>1, <1>3, AliveNow DEF Alive
<1> QED BY <1>1, <1>2, <1>4, GenKept

LEMMA GenChanges ==
  ASSUME IInv, IInv', DataInv, TypesInv', ~failed, NEW s \in Resources, Adding, Changes(s)
  PROVE  GenInv'
<1>1. /\ AddedOne("DATA", s) /\ GenInv /\ TypesInv /\ UNCHANGED <<ack, mirror>> /\ rec[s] # NoRec
      /\ \A p \in Way : Cmd[p].op # "FREE"
  BY ChangesAdded, NoFrees DEF Adding, DataInv, Changes, Longer
<1>2. \A p \in Way', q \in Resources : Renews(p, q)' => p \in Way /\ Cmd'[p] = Cmd[p]
  BY <1>1 DEF AddedOne, Past, Renews, Bears, Is
<1>3. \A p \in Way' : Cmd'[p].op # "FREE"
  BY <1>1 DEF AddedOne, Past
<1>4. ASSUME NEW r \in Resources, NEW c, Alive(r, c)'
      PROVE  \E d : Alive(r, d) /\ d.gen = c.gen /\ d.slot = c.slot
  <2>1. c = rec'[r] /\ c # NoRec
    BY <1>3, <1>4, AliveNow
  <2>2. rec[r] # NoRec /\ rec[r].gen = c.gen /\ rec[r].slot = c.slot
    BY <1>1, <2>1, ChangedRecord
  <2> QED BY <2>2 DEF Alive
<1> QED BY <1>1, <1>2, <1>4, GenKept

LEMMA GenUndone ==
  ASSUME IInv, IInv', DataInv, TypesInv', ~failed, NEW s \in Resources, Undone(s)
  PROVE  GenInv'
<1>1. /\ Past /\ GenInv /\ TypesInv /\ UNCHANGED <<ack, mirror>> /\ rec[s] # NoRec
      /\ \A p \in Way : Cmd[p].op # "FREE"
  BY LongerPast, NoFrees DEF Undone, DataInv, Destroys, Longer
<1>2. /\ \A p \in Way' : p \in Way \/ p = End \/ p = End + 1
      /\ Cmd'[End].op = "DESTROY" /\ Cmd'[End + 1].op = "FREE"
      /\ Cmd'[End + 1].r = s /\ Cmd'[End + 1].rec = rec[s]
  BY DestroyAdded
<1>3. \A p \in Way', q \in Resources : Renews(p, q)' => p \in Way /\ Cmd'[p] = Cmd[p]
  BY <1>1, <1>2 DEF Past, Renews, Bears, Is
<1>4. ASSUME NEW r \in Resources, NEW c, Alive(r, c)'
      PROVE  Alive(r, c)
  <2>1. CASE c = rec'[r] /\ c # NoRec
    <3>1. c = rec[r]
      BY <1>1, <2>1, UndoneRecord
    <3> QED BY <2>1, <3>1 DEF Alive
  <2>2. CASE \E p \in Way' : Is(p, "FREE", r)' /\ c = Cmd'[p].rec
    <3>1. PICK p \in Way' : Is(p, "FREE", r)' /\ c = Cmd'[p].rec
      BY <2>2
    <3>2. p = End + 1
      BY <1>1, <1>2, <3>1 DEF Past, Is
    <3>3. r = s /\ c = rec[s]
      BY <1>2, <3>1, <3>2 DEF Is
    <3> QED BY <1>1, <3>3 DEF Alive
  <2> QED BY <1>4, <2>1, <2>2 DEF Alive
<1> QED BY <1>1, <1>3, <1>4, GenKept

LEMMA GenFreed ==
  ASSUME IInv, IInv', DataInv, ~failed, Free, Freed
  PROVE  GenInv'
<1>1. GenInv /\ UNCHANGED <<ack, mirror, rec>> /\ \A p \in Way' : p \in Way /\ Cmd'[p] = Cmd[p]
  BY DEF DataInv, Free, Freed, workerVars, recordVars
<1>2. \A r \in Resources : \A c : Alive(r, c)' => Alive(r, c)
  BY <1>1 DEF Alive, Is
<1> QED BY <1>1, <1>2, GenKept

(* A generation is new when it is beyond all those given.                  *)
LEMMA GenNew ==
  ASSUME IInv, TypesInv, UNCHANGED <<mirror, ack>>, NEW r \in Resources, NEW g \in Nat, gen < g,
         \A p \in Way', q \in Resources : Renews(p, q)' /\ Cmd'[p].gen = g =>
           (p \in Way /\ Cmd'[p] = Cmd[p]) \/ (q = r /\ LastRenewal(p, r)')
  PROVE  UsedOnce(r, g)'
<1>1. \A p \in Way, q \in Resources : Renews(p, q) => Cmd[p].gen \in Nat /\ Cmd[p].gen <= gen
  BY DEF TypesInv, CommandTypes, CommandOK, Renews, Bears, Is
<1>2. gen \in Nat
  BY TypesFacts
<1>3. \A p \in Way', q \in Resources : Renews(p, q)' /\ Cmd'[p].gen = g => q = r /\ LastRenewal(p, r)'
  <2>1. ASSUME NEW p \in Way', NEW q \in Resources, Renews(p, q)', Cmd'[p].gen = g,
               p \in Way /\ Cmd'[p] = Cmd[p]
        PROVE  FALSE
    <3>1. Renews(p, q)
      BY <2>1 DEF Renews, Bears, Is
    <3> QED BY <1>1, <1>2, <2>1, <3>1
  <2> QED BY <2>1
<1>4. \A q \in Resources : Known(q)' => mirror'[q].gen # g
  <2>1. ASSUME NEW q \in Resources, Known(q)', mirror'[q].gen = g
        PROVE  FALSE
    <3>1. mirror[q] # NoRec /\ mirror[q].gen = g
      BY <2>1 DEF Known
    <3>2. mirror[q].gen <= gen
      BY <3>1 DEF TypesInv, MirrorTypes
    <3> QED BY <1>2, <3>1, <3>2
  <2> QED BY <2>1
<1> QED BY <1>3, <1>4 DEF UsedOnce

LEMMA GenUnacked ==
  ASSUME IInv, TypesInv, ack' = ack, NEW r, NEW c, c.slot \in Slots \cup {NoSlot}, c.gen \in Nat, gen < c.gen
  PROVE  Uploads(r, c)'
<1>1. gen \in Nat /\ \A s \in Slots : ack[s] \in Int /\ ack[s] <= gen
  BY TypesFacts DEF TypesInv, MirrorTypes
<1> QED BY <1>1 DEF Uploads

LEMMA GenDirties ==
  ASSUME IInv, IInv', DataInv, TypesInv', ~failed, NEW s \in Resources, Adding, Dirties(s)
  PROVE  GenInv'
<1>1. /\ AddedOne("DIRTY", s) /\ GenInv /\ TypesInv /\ UNCHANGED <<ack, mirror>> /\ rec[s] # NoRec
      /\ Cmd'[End].gen = gen + 1 /\ gen \in Nat
      /\ \A p \in Way : Cmd[p].op # "FREE"
  BY DirtiesAdded, NoFrees, TypesFacts DEF Adding, DataInv, Dirties, Longer
<1>2. \A p \in Way' : Cmd'[p].op # "FREE"
  BY <1>1 DEF AddedOne, Past
<1>3. /\ \A p \in Way' : (p \in Way /\ p \in Int /\ p < End /\ Cmd'[p] = Cmd[p]) \/ p = End
      /\ End \in Int
  BY <1>1 DEF AddedOne, Past
<1> PICK e \in Int : e = End
  BY <1>3
<1>5. \A q \in Resources : Renews(e, q)' => q = s
  BY <1>1 DEF AddedOne, Renews, Bears, Is
<1>6. ASSUME NEW r \in Resources, NEW c, Alive(r, c)'
      PROVE  UsedOnce(r, c.gen)' /\ Uploads(r, c)'
  <2>1. c = rec'[r] /\ c # NoRec
    BY <1>2, <1>6, AliveNow
  <2>2. CASE r = s
    <3>1. c.gen = gen + 1 /\ c.slot = rec[s].slot /\ c.slot \in Slots \cup {NoSlot}
      <4>1. c \in Records
        BY <2>1, <2>2 DEF Dirties
      <4> QED BY <1>1, <2>1, <2>2, <4>1, DirtiedRecord DEF Records
    <3>2. \A p \in Way', q \in Resources : Renews(p, q)' /\ Cmd'[p].gen = gen + 1 =>
            (p \in Way /\ Cmd'[p] = Cmd[p]) \/ (q = s /\ LastRenewal(p, s)')
      <4>1. LastRenewal(e, s)'
        BY <1>3 DEF LastRenewal
      <4> QED BY <1>3, <1>5, <4>1
    <3>3. gen + 1 \in Nat /\ gen < gen + 1
      BY <1>1
    <3>4. PICK g \in Nat : g = gen + 1
      BY <3>3
    <3>5. UsedOnce(s, g)'
      BY <1>1, <3>2, <3>3, <3>4, GenNew
    <3>6. Uploads(r, c)'
      BY <1>1, <3>1, <3>3, GenUnacked
    <3> QED BY <2>2, <3>1, <3>4, <3>5, <3>6
  <2>3. CASE r # s
    <3>1. c = rec[r] /\ Alive(r, c)
      BY <1>1, <2>1, <2>3, DirtiedRecord DEF Alive
    <3>2. UsedOnce(r, c.gen) /\ Uploads(r, c) /\ c.gen \in Nat /\ c.gen <= gen
      BY <1>1, <2>1, <3>1 DEF GenInv, TypesInv, RecordInv, Records
    <3>3. \A p \in Way' : Renews(p, r)' => p \in Way /\ Renews(p, r)
      BY <1>3, <1>5, <2>3 DEF Renews, Bears, Is
    <3>4. ASSUME NEW p \in Way', NEW q \in Resources, Renews(p, q)', Cmd'[p].gen = c.gen
          PROVE  q = r /\ LastRenewal(p, r)'
      <4>1. p # e
        BY <1>1, <3>2, <3>4
      <4>2. p \in Way /\ Renews(p, q) /\ Cmd[p].gen = c.gen
        BY <1>3, <3>4, <4>1 DEF Renews, Bears, Is
      <4>3. q = r /\ LastRenewal(p, r)
        BY <3>2, <4>2 DEF UsedOnce
      <4> QED BY <3>3, <4>3 DEF LastRenewal
    <3>5. ASSUME NEW q \in Resources, Known(q)', mirror'[q].gen = c.gen
          PROVE  q = r /\ \A p \in Way' : ~Renews(p, r)'
      BY <1>1, <3>2, <3>3, <3>5 DEF UsedOnce, Known
    <3>6. UsedOnce(r, c.gen)'
      BY <3>4, <3>5 DEF UsedOnce
    <3> QED BY <1>1, <3>2, <3>6 DEF Uploads, Known
  <2> QED BY <2>2, <2>3
<1> QED BY <1>6 DEF GenInv

LEMMA GenBatch ==
  ASSUME IInv, IInv', DataInv, TypesInv', ~failed, NEW X, NEW w, NEW l \in Int, Sends(X), Adding,
         Flush, Listed(Unbinds \cup Binds \cup X, w, l), w.op \in {"DRAW", "PRESENT"}
  PROVE  GenInv'
<1>1. /\ GenInv /\ TypesInv /\ Longer /\ Past /\ UNCHANGED <<ack, mirror>> /\ gen \in Nat
      /\ (\A p \in Way : Cmd[p].op # "FREE") /\ Cmd'[l] = w
      /\ bound \subseteq Resources /\ sync \subseteq Resources
  <2>1. GenInv /\ TypesInv /\ Longer /\ UNCHANGED <<ack, mirror>> /\ todo = <<>> /\ Cmd'[l] = w
    BY DEF DataInv, Adding, Longer, Listed
  <2> QED BY <2>1, LongerPast, NoFrees, TypesFacts
<1>2. ASSUME NEW p \in Way', NEW q \in Resources, Renews(p, q)'
      PROVE  \/ p \in Way /\ Cmd'[p] = Cmd[p] /\ Renews(p, q)
             \/ /\ p \in End..(l - 1) /\ q \in Fresh /\ Cmd'[p] = BindCommand(q)
                /\ Cmd'[p].gen = NewRec(q).gen
  <2>1. CASE p \in Way
    <3>1. Cmd'[p] = Cmd[p]
      BY <1>1, <2>1 DEF Past
    <3> QED BY <1>2, <2>1, <3>1 DEF Renews, Bears, Is
  <2>2. CASE p \notin Way
    <3>1. p # l
      BY <1>1, <1>2 DEF Renews, Bears, Is
    <3>2. /\ Cmd'[p].op \in {"BIND", "UNBIND", "DATA"}
          /\ Cmd'[p] \in Unbinds \cup Binds \cup X /\ p \in End..(l - 1)
      BY <1>1, <2>2, <3>1, ListedOps DEF Listed
    <3>3. Cmd'[p].op = "BIND" /\ Cmd'[p].r = q /\ Cmd'[p].new
      BY <1>2, <3>2 DEF Renews, Bears, Is
    <3>4. q \in Starting /\ Cmd'[p] = BindCommand(q)
      BY <1>1, <3>2, <3>3, BatchTouches
    <3>5. q \in Fresh /\ BindCommand(q).gen = Recorded[q].gen
      BY <1>1, <3>3, <3>4, BindOK
    <3>6. Recorded[q] = NewRec(q)
      BY <1>1, <3>5, RecordedFacts
    <3> QED BY <3>2, <3>4, <3>5, <3>6
  <2> QED BY <2>1, <2>2
<1>3. \A p \in Way' : Cmd'[p].op # "FREE"
  <2>1. \A p \in Way' : p \in Way \/ p = l \/ Cmd'[p].op \in {"BIND", "UNBIND", "DATA"}
    BY <1>1, ListedOps
  <2>2. w.op # "FREE"
    OBVIOUS
  <2> QED BY <1>1, <2>1, <2>2 DEF Past
<1>4. ASSUME NEW r \in Resources, NEW c, Alive(r, c)'
      PROVE  UsedOnce(r, c.gen)' /\ Uploads(r, c)'
  <2>1. c = rec'[r] /\ c # NoRec
    BY <1>3, <1>4, AliveNow
  <2>2. CASE r \in Fresh
    <3>1. c = NewRec(r)
      BY <1>1, <2>1, <2>2, BatchRecord
    <3>2. NewRec(r) \in Records /\ gen < NewRec(r).gen
          /\ \A q \in Fresh : NewRec(q).gen = NewRec(r).gen => q = r
      BY <1>1, <2>2, NewRecFacts
    <3>3. c \in Records /\ gen < c.gen /\ c.gen \in Nat /\ c.slot \in Slots \cup {NoSlot}
      BY <3>1, <3>2 DEF Records
    <3>4. ASSUME NEW p \in Way', NEW q \in Resources, Renews(p, q)', Cmd'[p].gen = c.gen
          PROVE  (p \in Way /\ Cmd'[p] = Cmd[p]) \/ (q = r /\ LastRenewal(p, r)')
      <4>1. CASE /\ p \in End..(l - 1) /\ q \in Fresh /\ Cmd'[p] = BindCommand(q)
                 /\ Cmd'[p].gen = NewRec(q).gen
        <5>1. q = r
          BY <3>1, <3>2, <3>4, <4>1
        <5>2. ASSUME NEW k \in Way', p < k, Renews(k, r)'
              PROVE  FALSE
          <6>1. k \notin Way
            <7>1. k \in Way => k \in Int /\ k < End
              BY <1>1 DEF Past
            <7>2. p \in Int /\ End <= p /\ End \in Int
              BY <4>1 DEF Listed
            <7> QED BY <5>2, <7>1, <7>2
          <6>2. k \in End..(l - 1) /\ Cmd'[k] = BindCommand(r)
            BY <1>2, <5>2, <6>1
          <6>3. k = p
            BY <4>1, <5>1, <6>2 DEF Listed
          <6> QED BY <4>1, <5>2, <6>3
        <5> QED BY <5>1, <5>2 DEF LastRenewal
      <4> QED BY <1>2, <3>4, <4>1
    <3>5. PICK g \in Nat : g = c.gen
      BY <3>3
    <3>6. UsedOnce(r, g)'
      BY <1>1, <3>3, <3>4, <3>5, GenNew
    <3>7. Uploads(r, c)'
      BY <1>1, <3>3, GenUnacked
    <3> QED BY <3>5, <3>6, <3>7
  <2>3. CASE rec[r] # NoRec
    <3>1. rec[r].gen = c.gen /\ rec[r].slot = c.slot /\ Alive(r, rec[r])
      BY <1>1, <2>1, <2>3, BatchRecord DEF Alive
    <3>2. UsedOnce(r, c.gen) /\ Uploads(r, rec[r]) /\ c.gen \in Nat /\ c.gen <= gen
      <4>1. rec[r] \in Records /\ rec[r].gen <= gen
        BY <1>1, <2>3 DEF TypesInv, RecordInv
      <4>2. UsedOnce(r, rec[r].gen) /\ Uploads(r, rec[r])
        BY <1>1, <3>1 DEF GenInv
      <4> QED BY <3>1, <4>1, <4>2 DEF Records
    <3>3. \A q \in Fresh : gen < NewRec(q).gen /\ NewRec(q).gen \in Nat
      BY <1>1, NewRecFacts DEF Records
    <3>4. \A p \in Way' : Renews(p, r)' => p \in Way /\ Renews(p, r)
      BY <1>2, <2>3 DEF Fresh
    <3>5. ASSUME NEW p \in Way', NEW q \in Resources, Renews(p, q)', Cmd'[p].gen = c.gen
          PROVE  q = r /\ LastRenewal(p, r)'
      <4>1. p \in Way /\ Renews(p, q) /\ Cmd[p].gen = c.gen
        BY <1>1, <1>2, <3>2, <3>3, <3>5
      <4>2. q = r /\ LastRenewal(p, r)
        BY <3>2, <4>1 DEF UsedOnce
      <4> QED BY <3>4, <4>2 DEF LastRenewal
    <3>6. ASSUME NEW q \in Resources, Known(q)', mirror'[q].gen = c.gen
          PROVE  q = r /\ \A p \in Way' : ~Renews(p, r)'
      BY <1>1, <3>2, <3>4, <3>6 DEF UsedOnce, Known
    <3>7. UsedOnce(r, c.gen)'
      BY <3>5, <3>6 DEF UsedOnce
    <3> QED BY <1>1, <3>1, <3>2, <3>7 DEF Uploads, Known
  <2> QED BY <1>1, <2>1, <2>2, <2>3, BatchRecord DEF Fresh
<1> QED BY <1>4 DEF GenInv

(* A resource destroyed in the mirror stays so until a command bears it.   *)
LEMMA StaysGone ==
  ASSUME IInv, TypesInv, NEW r \in Resources, NEW a \in (Consumed + 1)..End, At(a, r) = NoRec,
         \A p \in Way : a <= p => ~Bears(p, r)
  PROVE  \A p \in a..End : At(p, r) = NoRec
<1> DEFINE T == {p \in a..End : At(p, r) # NoRec}
<1> SUFFICES ASSUME T # {}
             PROVE  FALSE
  OBVIOUS
<1>1. Consumed \in Int /\ End \in Int /\ Way = (Consumed + 1)..(End - 1) /\ a \in Int
  BY WayFacts DEF IInv
<1>2. PICK p \in T : \A q \in T : p <= q
  <2>1. \A q \in T : q \in Int /\ a <= q
    BY <1>1
  <2> HIDE DEF T
  <2> QED BY <1>1, <2>1, Least
<1>3. p \in Int /\ a < p /\ p <= End
  BY <1>1
<1>4. PICK q \in Int : q = p - 1
  BY <1>3
<1>5. q \in Way /\ a <= q /\ q + 1 = p /\ q \in a..End /\ ~(p <= q)
  BY <1>1, <1>3, <1>4
<1>6. At(q, r) = NoRec
  <2>1. q \notin T
    BY <1>2, <1>5
  <2> QED BY <1>5, <2>1
<1>7. At(p, r) = After(NoRec, r, Cmd[q])
  BY <1>5, <1>6, AheadFacts DEF IInv
<1>8. ~(Touches(Cmd[q], r) /\ Cmd[q].op = "BIND" /\ Cmd[q].new)
  BY <1>5 DEF Bears, Is, Touches
<1>9. After(NoRec, r, Cmd[q]) = NoRec
  BY <1>8 DEF After
<1> QED BY <1>7, <1>9

(* The command at the front destroys no resource whose record is alive and *)
(* has nothing left to renew it.                                           *)
LEMMA AliveStays ==
  ASSUME IInv, TypesInv, FreeInv, WorldInv, ReplayLeaves, NEW r \in Resources, NEW c, Alive(r, c),
         \A p \in Way : ~Bears(p, r)
  PROVE  ~(Cmd[First].op = "DESTROY" /\ Cmd[First].r = r)
<1> SUFFICES ASSUME Cmd[First].op = "DESTROY", Cmd[First].r = r
             PROVE  FALSE
  OBVIOUS
<1>1. First = Consumed + 1 /\ First \in Int /\ First \in Way /\ End \in Int
      /\ Way = First..(End - 1) /\ Consumed \in Int
  BY WayFacts DEF IInv, First, ReplayLeaves
<1>2. At(First + 1, r) = NoRec
  <2>1. At(First + 1, r) = After(At(First, r), r, Cmd[First])
    BY <1>1, AheadFacts DEF IInv
  <2> QED BY <2>1, AfterDestroy
<1>3. PICK a \in Int : a = First + 1
  BY <1>1
<1>4. a \in (Consumed + 1)..End /\ At(a, r) = NoRec
  BY <1>1, <1>2, <1>3
<1>5. \A p \in a..End : At(p, r) = NoRec
  BY <1>4, StaysGone
<1>6. CASE c = rec[r] /\ c # NoRec
  <2>1. End \in a..End
    BY <1>1, <1>3
  <2> QED BY <1>5, <1>6, <2>1 DEF WorldInv, EndsAsRecorded, Final
<1>7. CASE \E p \in Way : Is(p, "FREE", r) /\ c = Cmd[p].rec
  <2>1. PICK p \in Way : Is(p, "FREE", r)
    BY <1>7
  <2>2. published < p - 1 /\ Is(p - 1, "DESTROY", r) /\ p \in Int /\ p \in First..(End - 1)
    BY <1>1, <2>1 DEF FreeInv, Is
  <2>3. First < p - 1
    BY <1>1, <2>2 DEF ReplayLeaves, IInv, CursorInv
  <2>4. PICK d \in Int : d = p - 1
    BY <2>2
  <2>5. d \in Way /\ d \in a..End /\ Is(d, "DESTROY", r)
    BY <1>1, <1>3, <2>2, <2>3, <2>4
  <2>6. At(d, r) # NoRec
    BY <2>5 DEF WorldInv, Finds, Is
  <2> QED BY <1>5, <2>5, <2>6
<1> QED BY <1>6, <1>7 DEF Alive

(* The front is replayed, a draw or not: what remains.                     *)
LEMMA GenFront ==
  ASSUME IInv, TypesInv, GenInv, ReplayLeaves, NEW r \in Resources, NEW c, Alive(r, c)',
         \A q \in Resources : Known(q)' =>
           (Known(q) /\ mirror'[q].gen = mirror[q].gen)
           \/ (Renews(First, q) /\ mirror'[q].gen = Cmd[First].gen)
  PROVE  Alive(r, c) /\ UsedOnce(r, c.gen) /\ Uploads(r, c) /\ UsedOnce(r, c.gen)'
<1>1. \A p \in Way' : p \in Way /\ Cmd'[p] = Cmd[p] /\ First < p
  BY DEF ReplayLeaves
<1>2. Alive(r, c)
  BY <1>1 DEF Alive, Is, ReplayLeaves
<1>3. UsedOnce(r, c.gen) /\ Uploads(r, c)
  BY <1>2 DEF GenInv
<1>4. \A p \in Way' : \A q : Renews(p, q)' => Renews(p, q)
  BY <1>1 DEF Renews, Bears, Is
<1>5. ASSUME NEW p \in Way', NEW q \in Resources, Renews(p, q)', Cmd'[p].gen = c.gen
      PROVE  q = r /\ LastRenewal(p, r)'
  <2>1. q = r /\ LastRenewal(p, r)
    BY <1>1, <1>3, <1>4, <1>5 DEF UsedOnce
  <2> QED BY <1>1, <1>4, <2>1 DEF LastRenewal
<1>6. ASSUME NEW q \in Resources, Known(q)', mirror'[q].gen = c.gen
      PROVE  q = r /\ \A p \in Way' : ~Renews(p, r)'
  <2>1. CASE Known(q) /\ mirror'[q].gen = mirror[q].gen
    BY <1>1, <1>3, <1>4, <1>6, <2>1 DEF UsedOnce
  <2>2. CASE Renews(First, q) /\ mirror'[q].gen = Cmd[First].gen
    <3>1. q = r /\ LastRenewal(First, r)
      BY <1>3, <1>6, <2>2 DEF UsedOnce, ReplayLeaves
    <3> QED BY <1>1, <1>4, <3>1 DEF LastRenewal
  <2> QED BY <1>6, <2>1, <2>2
<1>7. UsedOnce(r, c.gen)'
  BY <1>5, <1>6 DEF UsedOnce
<1> QED BY <1>2, <1>3, <1>7

(* What a command does to a resource's generation, and what it leaves when *)
(* it does not renew it.                                                   *)
RenewedBy(c, r) == (c.op = "BIND" /\ c.r = r /\ c.new) \/ (c.op = "DIRTY" /\ c.r = r)

LEMMA AfterRenewed ==
  ASSUME NEW m, NEW r, NEW c, NEW g, NEW n, MirrorOK(m), CommandOK(c, g, n),
         After(m, r, c) # NoRec
  PROVE  (m # NoRec /\ After(m, r, c).gen = m.gen) \/ (RenewedBy(c, r) /\ After(m, r, c).gen = c.gen)
<1>1. CASE ~Touches(c, r) \/ (c.op = "BIND" /\ ~c.new)
  BY <1>1, AfterOther
<1>2. CASE c.op = "BIND" /\ c.r = r /\ c.new
  BY <1>2, AfterBorn, BornTyped DEF RenewedBy
<1>3. CASE c.op = "DESTROY" /\ c.r = r
  BY <1>3, AfterDestroy
<1>4. CASE c.op = "MEM" /\ c.r = r
  <2>1. m # NoRec /\ m \in MirrorRecords /\ After(m, r, c) = Moved(m, c)
    BY <1>4, AfterMem DEF MirrorOK
  <2> QED BY <1>4, <2>1, MovedTyped
<1>5. CASE c.op = "DIRTY" /\ c.r = r
  <2>1. m # NoRec /\ m \in MirrorRecords /\ After(m, r, c) = Dirtied(m, r, c)
    BY <1>5, AfterDirty DEF MirrorOK
  <2> QED BY <1>5, <2>1, DirtiedTyped DEF RenewedBy
<1>6. CASE c.op = "DATA" /\ c.r = r
  <2>1. m # NoRec /\ m \in MirrorRecords /\ After(m, r, c) = Given(m, c)
    BY <1>6, AfterData DEF MirrorOK
  <2>2. Given(m, c).gen = m.gen
    BY <1>6, <2>1, GivenTyped
  <2> HIDE DEF Given
  <2> QED BY <2>1, <2>2
<1> QED BY <1>1, <1>2, <1>3, <1>4, <1>5, <1>6 DEF Touches

LEMMA AfterKept ==
  ASSUME NEW m \in MirrorRecords, NEW r, NEW c, NEW g, NEW n, CommandOK(c, g, n),
         ~RenewedBy(c, r), ~(c.op = "DESTROY" /\ c.r = r)
  PROVE  /\ After(m, r, c) \in MirrorRecords /\ After(m, r, c) # NoRec
         /\ After(m, r, c).gen = m.gen /\ After(m, r, c).slot = m.slot /\ After(m, r, c).gpu = m.gpu
         /\ After(m, r, c).shadow = NoBytes => m.shadow = NoBytes /\ After(m, r, c).dirty = m.dirty
<1>0. m # NoRec
  BY NoRecApart
<1>1. CASE ~Touches(c, r) \/ (c.op = "BIND" /\ ~c.new)
  BY <1>0, <1>1, AfterOther
<1>4. CASE c.op = "MEM" /\ c.r = r
  <2>1. After(m, r, c) = Moved(m, c)
    BY <1>0, <1>4, AfterMem
  <2> QED BY <1>4, <2>1, MovedTyped
<1>6. CASE c.op = "DATA" /\ c.r = r
  <2>1. After(m, r, c) = Given(m, c)
    BY <1>0, <1>6, AfterData
  <2>2. /\ Given(m, c) \in MirrorRecords /\ Given(m, c) # NoRec
        /\ Given(m, c).slot = m.slot /\ Given(m, c).gen = m.gen
        /\ Given(m, c).shadow # NoBytes /\ Given(m, c).gpu = m.gpu
    BY <1>6, GivenTyped
  <2> QED BY <2>1, <2>2
<1> QED BY <1>1, <1>4, <1>6 DEF Touches, RenewedBy

LEMMA GenReplays ==
  ASSUME IInv, IInv', DataInv, ~failed, Replays
  PROVE  GenInv'
<1>0. PICK op \in Plain : Replaying(op) /\ PlainReplay
  BY DEF Replays
<1>1. /\ ReplayLeaves /\ GenInv /\ TypesInv /\ WorldInv /\ FreeInv /\ ack' = ack
      /\ CommandOK(Cmd[First], gen, lastWorkEnd)
      /\ mirror' = [r \in Resources |-> After(mirror[r], r, Cmd[First])]
      /\ \A r \in Resources : MirrorOK(mirror[r])
  <2>1. ReplayLeaves
    BY <1>0, ReplayLeft
  <2>2. ack' = ack
    BY <1>0 DEF PlainReplay, ReplayBind, ReplayUnbind, ReplayMemory, ReplayDirty, ReplayData,
      ReplayDestroy, ReplayPresent
  <2> QED BY <1>0, <2>1, <2>2, ReplayAfter DEF DataInv, TypesInv, CommandTypes, MirrorTypes, ReplayLeaves
<1>2. ASSUME NEW q \in Resources, Known(q)'
      PROVE  (Known(q) /\ mirror'[q].gen = mirror[q].gen)
             \/ (Renews(First, q) /\ mirror'[q].gen = Cmd[First].gen)
  <2>1. mirror'[q] = After(mirror[q], q, Cmd[First]) /\ mirror'[q] # NoRec
    BY <1>1, <1>2 DEF Known
  <2>2. (mirror[q] # NoRec /\ mirror'[q].gen = mirror[q].gen)
        \/ (RenewedBy(Cmd[First], q) /\ mirror'[q].gen = Cmd[First].gen)
    BY <1>1, <2>1, AfterRenewed
  <2> QED BY <2>2 DEF Known, RenewedBy, Renews, Bears, Is
<1>3. ASSUME NEW r \in Resources, NEW c, Alive(r, c)'
      PROVE  UsedOnce(r, c.gen)' /\ Uploads(r, c)'
  <2>1. Alive(r, c) /\ UsedOnce(r, c.gen) /\ Uploads(r, c) /\ UsedOnce(r, c.gen)'
    BY <1>1, <1>2, <1>3, GenFront
  <2>2. ASSUME c.slot # NoSlot, ack[c.slot] = c.gen
        PROVE  /\ Known(r)' /\ mirror'[r].gen = c.gen /\ mirror'[r].gpu # NoBytes
               /\ mirror'[r].shadow = NoBytes => mirror'[r].dirty = {}
    <3>1. /\ Known(r) /\ mirror[r].gen = c.gen /\ mirror[r].gpu # NoBytes
          /\ mirror[r].shadow = NoBytes => mirror[r].dirty = {}
      BY <2>1, <2>2 DEF Uploads
    <3>2. \A p \in Way : ~Renews(p, r)
      BY <2>1, <3>1 DEF UsedOnce
    <3>3. ~RenewedBy(Cmd[First], r) /\ First \in Way
      BY <1>1, <3>2 DEF ReplayLeaves, RenewedBy, Renews, Bears, Is
    <3>4. ~(Cmd[First].op = "DESTROY" /\ Cmd[First].r = r)
      BY <1>1, <2>1, <3>2, AliveStays DEF Renews
    <3>5. mirror[r] \in MirrorRecords
      BY <1>1, <3>1 DEF Known, MirrorOK
    <3>6. /\ After(mirror[r], r, Cmd[First]) # NoRec
          /\ After(mirror[r], r, Cmd[First]).gen = mirror[r].gen
          /\ After(mirror[r], r, Cmd[First]).gpu = mirror[r].gpu
          /\ After(mirror[r], r, Cmd[First]).shadow = NoBytes =>
               mirror[r].shadow = NoBytes /\ After(mirror[r], r, Cmd[First]).dirty = mirror[r].dirty
      BY <1>1, <3>3, <3>4, <3>5, AfterKept
    <3>7. mirror'[r] = After(mirror[r], r, Cmd[First])
      BY <1>1
    <3> QED BY <3>1, <3>6, <3>7 DEF Known
  <2> QED BY <1>1, <2>1, <2>2 DEF Uploads
<1> QED BY <1>3 DEF GenInv

LEMMA AliveRecord ==
  ASSUME TypesInv, NEW r \in Resources, NEW c, Alive(r, c)
  PROVE  c \in Records /\ c.gen <= gen
<1>1. CASE c = rec[r] /\ c # NoRec
  BY <1>1 DEF TypesInv, RecordInv
<1>2. CASE \E p \in Way : Is(p, "FREE", r) /\ c = Cmd[p].rec
  <2>1. PICK p \in Way : Cmd[p].op = "FREE" /\ c = Cmd[p].rec
    BY <1>2 DEF Is
  <2>2. CommandOK(Cmd[p], gen, lastWorkEnd)
    BY DEF TypesInv, CommandTypes
  <2> QED BY <2>1, <2>2 DEF CommandOK
<1> QED BY <1>1, <1>2 DEF Alive

LEMMA GenDrawn ==
  ASSUME IInv, IInv', DataInv, ~failed, ReplayDraw
  PROVE  GenInv'
<1>1. /\ ReplayLeaves /\ GenInv /\ TypesInv /\ MemoryTypes /\ ReadNow \subseteq Resources
      /\ FreshNow \subseteq ReadNow
      /\ \A r \in Resources : mirror'[r] = IF r \in ReadNow THEN Uploaded(mirror[r]) ELSE mirror[r]
      /\ \A r \in ReadNow : mirror[r] \in MirrorRecords /\ Known(r)
      /\ ack' = [s \in Slots |->
                   IF \E r \in FreshNow : mirror[r].slot = s
                     THEN mirror[CHOOSE r \in FreshNow : mirror[r].slot = s].gen ELSE ack[s]]
  BY DrawnStart, ReplayDrawMeans DEF DataInv, IInv, MemoryInv, ReadNow
<1>2. \A r \in ReadNow : /\ Known(r) /\ Known(r)' /\ mirror'[r].gen = mirror[r].gen
                         /\ mirror'[r].dirty = {} /\ mirror'[r].gpu # NoBytes
  <2>1. \A r \in ReadNow : /\ Uploaded(mirror[r]) # NoRec /\ Uploaded(mirror[r]).gen = mirror[r].gen
                           /\ Uploaded(mirror[r]).dirty = {} /\ Uploaded(mirror[r]).gpu # NoBytes
    BY <1>1, UploadedTyped
  <2> HIDE DEF Uploaded
  <2> QED BY <1>1, <2>1 DEF Known
<1>3. \A q \in Resources : Known(q)' => Known(q) /\ mirror'[q].gen = mirror[q].gen
  BY <1>1, <1>2 DEF Known
<1>4. ASSUME NEW r \in Resources, NEW c, Alive(r, c)'
      PROVE  UsedOnce(r, c.gen)' /\ Uploads(r, c)'
  <2>1. Alive(r, c) /\ UsedOnce(r, c.gen) /\ Uploads(r, c) /\ UsedOnce(r, c.gen)'
    BY <1>1, <1>3, <1>4, GenFront
  <2>2. ASSUME c.slot # NoSlot, ack'[c.slot] = c.gen
        PROVE  /\ Known(r)' /\ mirror'[r].gen = c.gen /\ mirror'[r].gpu # NoBytes
               /\ mirror'[r].shadow = NoBytes => mirror'[r].dirty = {}
    <3>0. c.slot \in Slots
      <4>1. c \in Records
        BY <1>1, <2>1, AliveRecord
      <4> QED BY <2>2, <4>1 DEF Records
    <3>1. CASE \E q \in FreshNow : mirror[q].slot = c.slot
      <4>1. PICK q \in FreshNow : q = CHOOSE k \in FreshNow : mirror[k].slot = c.slot
        BY <3>1
      <4>2. mirror[q].gen = c.gen /\ q \in ReadNow /\ q \in Resources
        BY <1>1, <2>2, <3>0, <3>1, <4>1
      <4>3. q = r
        BY <1>2, <2>1, <4>2 DEF UsedOnce
      <4> QED BY <1>2, <4>2, <4>3
    <3>2. CASE ~\E q \in FreshNow : mirror[q].slot = c.slot
      <4>1. ack[c.slot] = c.gen
        BY <1>1, <2>2, <3>0, <3>2
      <4>2. /\ Known(r) /\ mirror[r].gen = c.gen /\ mirror[r].gpu # NoBytes
            /\ mirror[r].shadow = NoBytes => mirror[r].dirty = {}
        BY <2>1, <2>2, <4>1 DEF Uploads
      <4>3. CASE r \in ReadNow
        BY <1>2, <4>2, <4>3
      <4>4. CASE r \notin ReadNow
        BY <1>1, <4>2, <4>4 DEF Known
      <4> QED BY <4>3, <4>4
    <3> QED BY <3>1, <3>2
  <2> QED BY <2>1, <2>2 DEF Uploads
<1> QED BY <1>4 DEF GenInv

LEMMA GenStep ==
  ASSUME IInv, IInv', DataInv, TypesInv', ~failed, Kinds
  PROVE  GenInv'
<1>0. GenInv
  BY DEF DataInv
<1>1. CASE Quietly \/ Local
  BY <1>0, <1>1, GenSteady DEF Quietly, Local
<1>3. CASE Adding /\ \E r \in Resources : (\E b \in Blocks : Moves(r, b)) \/ Dirties(r) \/ Changes(r)
  BY <1>3, GenMoves, GenDirties, GenChanges
<1>4. CASE \E r \in Resources : Undone(r)
  BY <1>4, GenUndone
<1>5. CASE \E use, all : DrawsNow(use, all)
  <2> PICK use, all : DrawsNow(use, all)
    BY <1>5
  <2>1. PICK l \in Int : Listed(Unbinds \cup Binds \cup Datas(use, all), DrawCommand(use), l)
    BY DrawsListed
  <2>2. Adding /\ Flush /\ Sends(Datas(use, all)) /\ DrawCommand(use).op = "DRAW"
    BY DrawsListed
  <2> HIDE DEF DrawCommand, Datas
  <2> QED BY <2>1, <2>2, GenBatch
<1>6. CASE PresentsNow
  <2>1. PICK l \in Int : Listed(Unbinds \cup Binds \cup {}, [op |-> "PRESENT"], l)
    BY <1>6, PresentsListed
  <2>2. Adding /\ Flush /\ Sends({}) /\ [op |-> "PRESENT"].op = "PRESENT"
    BY <1>6, PresentsListed
  <2> QED BY <2>1, <2>2, GenBatch
<1>7. CASE Free /\ Freed
  BY <1>7, GenFreed
<1>8. CASE Replays
  BY <1>8, GenReplays
<1>9. CASE ReplayDraw
  BY <1>9, GenDrawn
<1> QED BY <1>1, <1>3, <1>4, <1>5, <1>6, <1>7, <1>8, <1>9 DEF Kinds

----------------------------------------------------------------------------
(* What a step leaves as it is: part x of a block of memory                *)
Intact(b, x) == mem[b] # NoBytes /\ mem'[b] # NoBytes /\ mem'[b][x] = mem[b][x]

LEMMA ReleasedApart ==
  ASSUME NEW S, mem' = Released(S), NEW b \in Blocks, b \notin S
  PROVE  mem'[b] = mem[b]
BY DEF Released

(* ... unless a release is carried out or decided, what is locked written, *)
(* or what is not recorded destroyed.                                      *)
LEMMA IntactBut ==
  ASSUME IInv, DataInv, Kinds, NEW b \in Blocks, mem[b] # NoBytes, NEW x \in Parts
  PROVE  \/ Intact(b, x)
         \/ Quietly /\ \E d \in Passed : d[1] = b
         \/ Local /\ \E s \in live : addr[s] = b /\ (x \in locked[s] \/ rec[s] = NoRec)
         \/ Free /\ Freed /\ Head(todo).block = b /\ mem' = Released({b}) /\ deferred' = deferred
<1>0. /\ mem \in [Blocks -> Contents \cup {NoBytes}] /\ MemoryInv /\ live \subseteq Resources
      /\ addr \in [Resources -> Blocks \cup {NoBlock}]
  BY DEF IInv, MemoryInv, MemoryTypes
<1>1. CASE Quietly
  <2>1. CASE mem' = mem
    BY <2>1 DEF Intact
  <2>2. CASE ReleasePassed
    <3>1. CASE b \in {d[1] : d \in Passed}
      BY <1>1, <3>1
    <3>2. CASE b \notin {d[1] : d \in Passed}
      BY <2>2, <3>2, ReleasedApart DEF ReleasePassed, Intact
    <3> QED BY <3>1, <3>2
  <2> QED BY <1>1, <2>1, <2>2 DEF Quietly
<1>2. CASE Local /\ \E s \in Resources : LocalStep(s)
  <2>1. PICK s \in Resources : LocalStep(s)
    BY <1>2
  <2>2. CASE Idle \/ Locks(s) \/ Unlocks(s)
    BY <2>2 DEF Idle, Locks, Unlocks, Intact
  <2>3. CASE Gains(s)
    <3>1. PICK a \in FreeBlocks : mem' = [mem EXCEPT ![a] = Zero]
      BY <2>3 DEF Gains
    <3>2. a # b
      BY <3>1 DEF FreeBlocks
    <3>3. mem'[b] = mem[b]
      BY <1>0, <3>1, <3>2 DEF FreeBlocks
    <3> QED BY <3>3 DEF Intact
  <2>4. CASE Writes(s)
    <3>1. PICK y \in locked[s] : mem' = [mem EXCEPT ![addr[s]][y] = 1 - @]
      BY <2>4 DEF Writes
    <3>2. s \in live /\ addr[s] # NoBlock /\ y \in Parts
      BY <1>0, <3>1 DEF MemoryInv, LocksHaveMemory, MemoryTypes
    <3>3. CASE addr[s] = b /\ x = y
      BY <1>2, <3>1, <3>2, <3>3
    <3>4. CASE addr[s] # b
      <4>1. mem'[b] = mem[b]
        BY <1>0, <3>1, <3>4
      <4> QED BY <4>1 DEF Intact
    <3>5. CASE addr[s] = b /\ x # y
      <4>1. mem[b] \in Contents
        BY <1>0
      <4>2. mem'[b] = [mem[b] EXCEPT ![y] = 1 - @]
        BY <1>0, <3>1, <3>5
      <4>3. mem'[b] \in Contents /\ mem'[b][x] = mem[b][x]
        <5>1. \A v \in 0..1 : 1 - v \in 0..1
          OBVIOUS
        <5> QED BY <3>2, <3>5, <4>1, <4>2, <5>1 DEF Contents
      <4> QED BY <4>3, ContentsApart DEF Intact
    <3> QED BY <3>3, <3>4, <3>5
  <2>5. CASE Drops(s)
    <3>1. CASE addr[s] = b
      BY <1>2, <2>5, <3>1 DEF Drops
    <3>2. CASE addr[s] # b
      <4>1. mem'[b] = mem[b]
        BY <2>5, <3>2, ReleasedApart DEF Drops
      <4> QED BY <4>1 DEF Intact
    <3> QED BY <3>1, <3>2
  <2> QED BY <2>1, <2>2, <2>3, <2>4, <2>5 DEF LocalStep
<1>3. CASE Adding /\ \E r \in Resources : (\E a \in Blocks : Moves(r, a)) \/ Dirties(r) \/ Changes(r)
  <2>1. PICK r \in Resources : (\E a \in Blocks : Moves(r, a)) \/ Dirties(r) \/ Changes(r)
    BY <1>3
  <2>2. CASE Dirties(r) \/ Changes(r)
    BY <2>2 DEF Dirties, Changes, Intact
  <2>3. CASE \E a \in Blocks : Moves(r, a)
    <3>1. PICK a \in FreeBlocks : \E c : mem' = [mem EXCEPT ![a] = c]
      BY <2>3 DEF Moves
    <3>2. a # b
      BY <3>1 DEF FreeBlocks
    <3>3. mem'[b] = mem[b]
      BY <1>0, <3>1, <3>2 DEF FreeBlocks
    <3> QED BY <3>3 DEF Intact
  <2> QED BY <2>1, <2>2, <2>3
<1>4. CASE \E r \in Resources : Undone(r)
  BY <1>4 DEF Undone, Destroys, Intact
<1>5. CASE \E use, all : DrawsNow(use, all)
  BY <1>5, DrawsListed DEF Intact
<1>6. CASE PresentsNow
  BY <1>6, PresentsListed DEF Intact
<1>7. CASE Free /\ Freed
  <2>1. \/ mem' = mem
        \/ mem' = Released({Head(todo).block}) /\ deferred' = deferred
    BY <1>7 DEF Free
  <2>2. CASE mem' = mem
    BY <2>2 DEF Intact
  <2>3. CASE mem' = Released({Head(todo).block}) /\ deferred' = deferred
    <3>1. CASE Head(todo).block = b
      BY <1>7, <2>3, <3>1
    <3>2. CASE Head(todo).block # b
      <4>1. mem'[b] = mem[b]
        BY <2>3, <3>2, ReleasedApart
      <4> QED BY <4>1 DEF Intact
    <3> QED BY <3>1, <3>2
  <2> QED BY <2>1, <2>2, <2>3
<1>8. CASE Shorter /\ Replays
  <2>1. mem' = mem
    BY <1>8, ReplayLeft DEF Replays, ReplayLeaves
  <2> QED BY <2>1 DEF Intact
<1>9. CASE ReplayDraw
  <2>1. mem' = mem
    BY <1>9 DEF ReplayDraw, Replaying, guestVars
  <2> QED BY <2>1 DEF Intact
<1> QED BY <1>1, <1>2, <1>3, <1>4, <1>5, <1>6, <1>7, <1>8, <1>9 DEF Kinds

(* The memory of a recorded resource, where it is not locked               *)
LEMMA OwnedIntact ==
  ASSUME IInv, DataInv, Kinds, NEW r \in Resources, rec[r] # NoRec, addr[r] # NoBlock,
         NEW x \in Parts, x \notin locked[r]
  PROVE  addr[r] \in Blocks /\ Intact(addr[r], x)
<1>1. /\ r \in live /\ MemoryInv /\ OneOwner /\ ShapeInv
  BY DEF DataInv, TypesInv, RecordInv, IInv, MemoryInv
<1>2. addr[r] \in Blocks /\ mem[addr[r]] # NoBytes /\ Owned(addr[r])
  BY <1>1, ContentOf DEF Owned
<1>3. ~(\E d \in Passed : d[1] = addr[r])
  BY <1>1, <1>2 DEF OneOwner, Deferred, Passed
<1>4. ~(\E s \in live : addr[s] = addr[r] /\ (x \in locked[s] \/ rec[s] = NoRec))
  BY <1>1 DEF OneOwner
<1>5. ~(Free /\ Head(todo).block = addr[r])
  <2> SUFFICES ASSUME Free, Head(todo).block = addr[r]
               PROVE  FALSE
    OBVIOUS
  <2>1. todo # <<>> /\ Head(todo).op = "FREE"
    BY DEF Free, Freeing
  <2>2. Len(todo) \in Nat \ {0} /\ Head(todo) = todo[1]
    BY <1>1, <2>1, TailSequence DEF ShapeInv
  <2>3. FreesIn(todo, addr[r])
    BY <2>1, <2>2 DEF FreesIn
  <2> QED BY <1>1, <1>2, <2>3 DEF OneOwner
<1> QED BY <1>2, <1>3, <1>4, <1>5, IntactBut

(* What resource m of the mirror shows of x stays if what an upload would  *)
(* read of guest memory stays.                                             *)
LEMMA ShowsKept ==
  ASSUME NEW m, NEW x,
         Stale(m, x) /\ m.shadow = NoBytes /\ m.block # NoBlock => Intact(m.block, x)
  PROVE  Shows(m, x)' = Shows(m, x)
BY DEF Shows, Stale, Source, Intact

LEMMA ShowsSame ==
  ASSUME NEW a, NEW b, Same(a, b), a # NoRec, NEW x \in Parts, ~Differs(a, b, x)
  PROVE  b # NoRec /\ Shows(b, x) = Shows(a, x)
<1>1. /\ b # NoRec /\ a.block = b.block /\ a.shadow = b.shadow
      /\ Stale(b, x) => Stale(a, x)
      /\ ~Stale(a, x) => b.gpu[x] = a.gpu[x]
  BY DEF Same
<1>2. Source(a) = Source(b)
  BY <1>1 DEF Source
<1> QED BY <1>1, <1>2 DEF Shows, Differs

----------------------------------------------------------------------------
(* EndShows.                                                               *)
LEMMA ValueKept ==
  ASSUME NEW r, NEW x, addr'[r] = addr[r], addr[r] # NoBlock => Intact(addr[r], x)
  PROVE  Value(r, x)' = Value(r, x)
BY DEF Value, Intact

(* A resource left alone                                                   *)
LEMMA EndKept ==
  ASSUME IInv, DataInv, ~failed, Kinds, NEW r \in Resources, rec[r] # NoRec,
         Final(r)' = Final(r), addr'[r] = addr[r],
         NEW x \in Parts, x \notin locked[r], x \notin lazy[r]
  PROVE  Shows(Final(r), x)' = Value(r, x)'
<1>1. Final(r).block = addr[r] /\ Shows(Final(r), x) = Value(r, x)
  BY DEF DataInv, WorldInv, EndsAsRecorded, EndShows
<1>2. addr[r] # NoBlock => Intact(addr[r], x)
  BY OwnedIntact
<1>3. PICK m : m = Final(r)
  OBVIOUS
<1>4. Shows(m, x)' = Shows(m, x)
  BY <1>1, <1>2, <1>3, ShowsKept
<1>5. Shows(Final(r), x)' = Shows(m, x)'
  BY <1>3
<1> QED BY <1>1, <1>2, <1>3, <1>4, <1>5, ValueKept

(* What is to be uploaded is in the recorder's memory.                     *)
LEMMA EndStaleNext ==
  ASSUME IInv', WorldInv', TypesInv', NEW r \in Resources, rec'[r] # NoRec, ~rec'[r].eager,
         NEW m, m = Final(r)', NEW x \in Parts, Stale(m, x)
  PROVE  Shows(m, x)' = Value(r, x)'
<1>1. m.block = addr'[r] /\ m.shadow = NoBytes
  BY DEF WorldInv, EndsAsRecorded
<1>2. r \in live'
  BY DEF TypesInv, RecordInv
<1>3. addr'[r] # NoBlock => mem'[addr'[r]] # NoBytes
  <2>1. MemoryInv'
    BY DEF IInv
  <2> QED BY <1>2, <2>1 DEF MemoryInv, MemoryTypes, OneOwner, Owned
<1>4. Shows(m, x)' = Source(m)'[x]
  BY DEF Shows, Stale
<1>5. CASE m.block = NoBlock
  BY <1>1, <1>4, <1>5 DEF Source, Value, Zero
<1>6. CASE m.block # NoBlock
  BY <1>1, <1>3, <1>4, <1>6 DEF Source, Value
<1> QED BY <1>5, <1>6

LEMMA EndLocal ==
  ASSUME IInv, DataInv, ~failed, Kinds, Local, NEW s \in Resources, LocalStep(s)
  PROVE  EndShows'
<1>1. ASSUME NEW r \in Resources, rec'[r] # NoRec, NEW x \in Parts,
             x \notin locked'[r], x \notin lazy'[r]
      PROVE  Shows(Final(r), x)' = Value(r, x)'
  <2>1. rec[r] # NoRec /\ Final(r)' = Final(r)
    BY <1>1 DEF Local, Steady, Final, At
  <2>2. addr'[r] = addr[r] /\ x \notin locked[r] /\ x \notin lazy[r]
    <3>0. /\ locked \in [Resources -> SUBSET Parts] /\ lazy \in [Resources -> SUBSET Parts]
          /\ addr \in [Resources -> Blocks \cup {NoBlock}]
      BY TypesFacts DEF DataInv
    <3>1. CASE Idle \/ Writes(s)
      BY <1>1, <3>1 DEF Idle, Writes
    <3>2. CASE Gains(s)
      BY <1>1, <2>1, <3>0, <3>2 DEF Gains
    <3>3. CASE Locks(s)
      BY <1>1, <3>0, <3>3 DEF Locks
    <3>4. CASE Unlocks(s)
      BY <1>1, <2>1, <3>0, <3>4 DEF Unlocks
    <3>5. CASE Drops(s)
      BY <1>1, <2>1, <3>0, <3>5 DEF Drops
    <3> QED BY <3>1, <3>2, <3>3, <3>4, <3>5 DEF LocalStep
  <2> QED BY <1>1, <2>1, <2>2, EndKept
<1> QED BY <1>1 DEF EndShows

LEMMA EndOthers ==
  ASSUME IInv, DataInv, ~failed, Kinds, NEW s, NEW r \in Resources, r # s,
         rec[r] # NoRec, Final(r)' = Final(r),
         addr' = addr \/ \E v : addr' = [addr EXCEPT ![s] = v],
         locked' = locked \/ \E v : locked' = [locked EXCEPT ![s] = v],
         lazy' = lazy \/ \E v : lazy' = [lazy EXCEPT ![s] = v],
         NEW x \in Parts, x \notin locked'[r], x \notin lazy'[r]
  PROVE  Shows(Final(r), x)' = Value(r, x)'
<1>0. /\ locked \in [Resources -> SUBSET Parts] /\ lazy \in [Resources -> SUBSET Parts]
      /\ addr \in [Resources -> Blocks \cup {NoBlock}]
  BY TypesFacts DEF DataInv
<1>1. addr'[r] = addr[r] /\ x \notin locked[r] /\ x \notin lazy[r]
  BY <1>0
<1> QED BY <1>1, EndKept

LEMMA EndMoves ==
  ASSUME IInv, IInv', DataInv, TypesInv', ~failed, Kinds, NEW s \in Resources, NEW b \in Blocks,
         Adding, Moves(s, b)
  PROVE  EndShows'
<1>1. AddedOne("MEM", s)
  BY MovesAdded
<1>2. /\ UNCHANGED <<rec, lazy>> /\ locked' = [locked EXCEPT ![s] = Parts]
      /\ addr' = [addr EXCEPT ![s] = b]
  BY DEF Moves
<1>3. ASSUME NEW r \in Resources, rec'[r] # NoRec, NEW x \in Parts,
             x \notin locked'[r], x \notin lazy'[r]
      PROVE  Shows(Final(r), x)' = Value(r, x)'
  <2>1. r # s
    BY <1>2, <1>3, TypesFacts DEF DataInv
  <2>2. Final(r)' = Final(r)
    BY <1>1, <2>1, AfterUntouched DEF AddedOne
  <2> QED BY <1>2, <1>3, <2>1, <2>2, EndOthers
<1> QED BY <1>3 DEF EndShows

LEMMA EndDirties ==
  ASSUME IInv, IInv', DataInv, TypesInv', WorldInv', ~failed, Kinds, NEW s \in Resources,
         Adding, Dirties(s)
  PROVE  EndShows'
<1>1. AddedOne("DIRTY", s) /\ Cmd'[End].parts = locked[s] /\ Cmd'[End].block = addr[s]
  BY DirtiesAdded
<1>2. /\ UNCHANGED <<addr, lazy>> /\ locked' = [locked EXCEPT ![s] = {}] /\ mem' = mem
      /\ \A q \in Resources : q # s => rec'[q] = rec[q]
      /\ rec[s] # NoRec /\ ~rec[s].eager /\ rec'[s] # NoRec /\ ~rec'[s].eager
  BY DirtiedRecord DEF Dirties, DataInv
<1>3. ASSUME NEW r \in Resources, rec'[r] # NoRec, NEW x \in Parts,
             x \notin locked'[r], x \notin lazy'[r]
      PROVE  Shows(Final(r), x)' = Value(r, x)'
  <2>1. CASE r # s
    <3>1. Final(r)' = Final(r)
      BY <1>1, <2>1, AfterUntouched DEF AddedOne
    <3> QED BY <1>2, <1>3, <2>1, <3>1, EndOthers
  <2>2. CASE r = s
    <3> PICK c : c = Cmd'[End]
      OBVIOUS
    <3> PICK m : m = Final(s)'
      OBVIOUS
    <3>1. /\ Final(s) \in MirrorRecords /\ Final(s) # NoRec /\ CommandOK(c, gen', lastWorkEnd')
          /\ m = After(Final(s), s, c) /\ c.op = "DIRTY" /\ c.r = s /\ c.parts = locked[s]
          /\ Final(s).block = addr[s]
      <4>1. /\ Final(s) \in MirrorRecords /\ Final(s) # NoRec /\ Final(s).block = addr[s]
        BY <1>2, FinalTyped DEF DataInv, WorldInv, EndsAsRecorded
      <4>2. CommandOK(c, gen', lastWorkEnd')
        BY <1>1 DEF TypesInv, CommandTypes, AddedOne
      <4> QED BY <1>1, <4>1, <4>2 DEF AddedOne
    <3>2. m = Dirtied(Final(s), s, c)
      <4>1. PICK f : f = Final(s)
        OBVIOUS
      <4>2. f # NoRec /\ m = After(f, s, c) /\ c.op = "DIRTY" /\ c.r = s
        BY <3>1, <4>1
      <4>3. m = Dirtied(f, s, c)
        BY <4>2, AfterDirty
      <4> QED BY <4>1, <4>3
    <3>3. m.dirty = Final(s).dirty \cup locked[s] /\ m.gpu = Final(s).gpu
      BY <3>1, <3>2, DirtiedTyped
    <3>4. CASE Stale(m, x)
      <4>1. Shows(m, x)' = Value(s, x)'
        BY <1>2, <1>3, <3>4, EndStaleNext
      <4> QED BY <2>2, <4>1
    <3>5. CASE ~Stale(m, x)
      <4>1. ~Stale(Final(s), x) /\ x \notin locked[s] /\ x \notin lazy[s]
        BY <1>2, <1>3, <2>2, <3>3, <3>5 DEF Stale
      <4>2. Shows(Final(s), x) = Value(s, x)
        BY <1>2, <4>1 DEF DataInv, EndShows
      <4>3. Shows(m, x)' = Shows(Final(s), x)
        BY <3>3, <3>5, <4>1 DEF Shows, Stale
      <4>4. Value(s, x)' = Value(s, x)
        BY <1>2 DEF Value
      <4> QED BY <2>2, <4>2, <4>3, <4>4
    <3> QED BY <3>4, <3>5
  <2> QED BY <2>1, <2>2
<1> QED BY <1>3 DEF EndShows

LEMMA EndChanges ==
  ASSUME IInv, IInv', DataInv, TypesInv', ~failed, Kinds, NEW s \in Resources, Adding, Changes(s)
  PROVE  EndShows'
<1>1. AddedOne("DATA", s) /\ Cmd'[End].parts = Parts /\ Cmd'[End].bytes = mem[addr[s]]
      /\ Cmd'[End].written = FALSE
  BY ChangesAdded
<1>2. /\ UNCHANGED <<addr, lazy, mem>> /\ \E v : locked' = [locked EXCEPT ![s] = v]
      /\ locked[s] = {} /\ s \in Buffers /\ s \in live
      /\ \A q \in Resources : q # s => rec'[q] = rec[q]
      /\ rec[s] # NoRec
  BY ChangedRecord DEF Changes, DataInv
<1>3. ASSUME NEW r \in Resources, rec'[r] # NoRec, NEW x \in Parts,
             x \notin locked'[r], x \notin lazy'[r]
      PROVE  Shows(Final(r), x)' = Value(r, x)'
  <2>1. CASE r # s
    <3>1. Final(r)' = Final(r)
      BY <1>1, <2>1, AfterUntouched DEF AddedOne
    <3> QED BY <1>2, <1>3, <2>1, <3>1, EndOthers
  <2>2. CASE r = s
    <3> PICK c : c = Cmd'[End]
      OBVIOUS
    <3> PICK m : m = Final(s)'
      OBVIOUS
    <3>1. /\ Final(s) \in MirrorRecords /\ Final(s) # NoRec /\ CommandOK(c, gen', lastWorkEnd')
          /\ m = After(Final(s), s, c) /\ c.op = "DATA" /\ c.r = s /\ c.parts = Parts
          /\ c.bytes = mem[addr[s]] /\ ~c.written
      <4>1. Final(s) \in MirrorRecords /\ Final(s) # NoRec
        BY <1>2, FinalTyped DEF DataInv, WorldInv, EndsAsRecorded
      <4>2. CommandOK(c, gen', lastWorkEnd')
        BY <1>1 DEF TypesInv, CommandTypes, AddedOne
      <4> QED BY <1>1, <4>1, <4>2 DEF AddedOne
    <3>2. m = Given(Final(s), c)
      BY <3>1, AfterData
    <3> PICK f : f = Final(s)
      OBVIOUS
    <3>3. /\ m.dirty = f.dirty /\ m.gpu = f.gpu /\ m.shadow = Shadowed(f, c)
          /\ m.shadow # NoBytes
      <4>1. m = Given(f, c) /\ f \in MirrorRecords /\ CommandOK(c, gen', lastWorkEnd') /\ c.op = "DATA"
        BY <3>1, <3>2
      <4>2. /\ Given(f, c).dirty = (IF c.written THEN f.dirty \cup c.parts ELSE f.dirty)
            /\ Given(f, c).shadow = Shadowed(f, c) /\ Given(f, c).shadow # NoBytes
            /\ Given(f, c).gpu = f.gpu
        BY <4>1, GivenTyped
      <4> HIDE DEF Given
      <4> QED BY <3>1, <4>1, <4>2
    <3>4. Value(s, x)' = mem[addr[s]][x] /\ Value(s, x) = mem[addr[s]][x]
      <4>1. addr[s] # NoBlock
        BY <1>2 DEF IInv, MemoryInv, LocksHaveMemory
      <4> QED BY <1>2, <4>1 DEF Value
    <3>5. CASE Stale(m, x)
      <4>1. Shows(m, x)' = m.shadow[x]
        BY <3>3, <3>5 DEF Shows, Stale, Source
      <4>2. m.shadow[x] = mem[addr[s]][x]
        BY <3>1, <3>3 DEF Shadowed
      <4> QED BY <2>2, <3>4, <4>1, <4>2
    <3>6. CASE ~Stale(m, x)
      <4>1. ~Stale(Final(s), x) /\ x \notin locked[s] /\ x \notin lazy[s]
        BY <1>2, <1>3, <2>2, <3>3, <3>6 DEF Stale
      <4>2. Shows(Final(s), x) = Value(s, x)
        BY <1>2, <4>1 DEF DataInv, EndShows
      <4>3. Shows(m, x)' = Shows(Final(s), x)
        BY <3>3, <3>6, <4>1 DEF Shows, Stale
      <4> QED BY <2>2, <3>4, <4>2, <4>3
    <3> QED BY <3>5, <3>6
  <2> QED BY <2>1, <2>2
<1> QED BY <1>3 DEF EndShows

(* A draw or present: what it sends is no longer to be copied.             *)
Copies(X) ==
  /\ \A c \in X : c.bytes = mem[addr[c.r]] /\ lazy'[c.r] = lazy[c.r] \ c.parts
  /\ \A r \in Resources : (\A c \in X : c.r # r) => lazy'[r] = lazy[r]

LEMMA DatasCopy ==
  ASSUME IInv, TypesInv, NEW use, NEW all, DrawsNow(use, all)
  PROVE  Copies(Datas(use, all))
<1>1. /\ use \in Uses
      /\ lazy' = [r \in Resources |->
                IF r \in Taken(use, all) THEN lazy[r] \ Take(r, use, all) ELSE lazy[r]]
  BY DEF DrawsNow
<1>2. ASSUME NEW c \in Datas(use, all)
      PROVE  c.bytes = mem[addr[c.r]] /\ lazy'[c.r] = lazy[c.r] \ c.parts
  <2>1. PICK r \in Taken(use, all) : c = Data(r, Take(r, use, all), TRUE)
    BY <1>2 DEF Datas
  <2>2. c.r = r /\ c.parts = Take(r, use, all) /\ c.bytes = mem[addr[r]]
    BY <2>1 DEF Data
  <2>3. r \in Resources
    BY <1>1, <2>1, TakenFacts
  <2> HIDE DEF Take
  <2> QED BY <1>1, <2>1, <2>2, <2>3
<1>3. ASSUME NEW r \in Resources, \A c \in Datas(use, all) : c.r # r
      PROVE  lazy'[r] = lazy[r]
  <2>1. r \notin Taken(use, all)
    <3> SUFFICES ASSUME r \in Taken(use, all)
                 PROVE  FALSE
      OBVIOUS
    <3>1. Data(r, Take(r, use, all), TRUE) \in Datas(use, all)
      BY DEF Datas
    <3>2. Data(r, Take(r, use, all), TRUE).r = r
      BY DEF Data
    <3> QED BY <1>3, <3>1, <3>2
  <2> QED BY <1>1, <2>1
<1> QED BY <1>2, <1>3 DEF Copies

(* What is new at the end of a resource recorded now                       *)
LEMMA EndBorn ==
  ASSUME IInv, TypesInv, NEW r \in Fresh, addr' = addr, mem' = mem,
         NEW m, m = Born(BindCommand(r)), NEW x \in Parts
  PROVE  Shows(m, x)' = Value(r, x)'
<1>1. r \in live /\ r \in Starting /\ r \in Resources /\ MemoryInv
  BY TypesFacts DEF Fresh, Starting, IInv
<1>2. /\ CommandOK(BindCommand(r), gen + Cardinality(Fresh), lastWorkEnd)
      /\ BindCommand(r).op = "BIND" /\ BindCommand(r).block = addr[r]
      /\ r \in Dynamic => BindCommand(r).shadow = mem[addr[r]]
      /\ ~(r \in Dynamic) => BindCommand(r).shadow = NoBytes
  BY <1>1, BindOK
<1>3. /\ m.block = addr[r] /\ m.shadow = BindCommand(r).shadow /\ m.gpu = NoBytes
  BY <1>2, BornTyped
<1>4. Shows(m, x)' = Source(m)'[x]
  BY <1>3 DEF Shows, Stale
<1>5. addr[r] # NoBlock => mem[addr[r]] # NoBytes
  BY <1>1, ContentOf
<1>6. CASE r \in Dynamic
  <2>1. mem[addr[r]] # NoBytes /\ addr[r] \in Blocks
    <3>1. r \in Buffers
      BY <1>6, RenderLinkAssumption
    <3> QED BY <1>1, <3>1, BufferContent
  <2>2. addr[r] # NoBlock
    BY <2>1, RenderLinkAssumption
  <2>3. m.shadow = mem[addr[r]]
    BY <1>2, <1>3, <1>6
  <2>4. Source(m)' = mem[addr[r]]
    BY <2>1, <2>3 DEF Source
  <2>5. Value(r, x)' = mem[addr[r]][x]
    BY <2>2 DEF Value
  <2> QED BY <1>4, <2>4, <2>5
<1>7. CASE r \notin Dynamic
  <2>1. m.shadow = NoBytes
    BY <1>2, <1>3, <1>7
  <2>2. CASE addr[r] = NoBlock
    <3>1. Source(m)' = Zero /\ Value(r, x)' = 0
      BY <1>3, <2>1, <2>2 DEF Source, Value
    <3> QED BY <1>4, <3>1 DEF Zero
  <2>3. CASE addr[r] # NoBlock
    <3>1. Source(m)' = mem[addr[r]] /\ Value(r, x)' = mem[addr[r]][x]
      BY <1>3, <1>5, <2>1, <2>3 DEF Source, Value
    <3> QED BY <1>4, <3>1
  <2> QED BY <2>2, <2>3
<1> QED BY <1>6, <1>7

(* ... and of one whose written bytes are sent                             *)
LEMMA EndGiven ==
  ASSUME IInv, DataInv, ~failed, NEW r \in Resources, rec[r] # NoRec, rec[r].eager, r \in live,
         addr' = addr, mem' = mem, NEW c, CommandOK(c, gen, lastWorkEnd), c.op = "DATA", c.r = r,
         c.written, c.bytes = mem[addr[r]],
         NEW m, m = Given(Final(r), c), NEW x \in Parts, x \notin locked[r],
         x \notin lazy[r] \/ x \in c.parts
  PROVE  Shows(m, x)' = Value(r, x)'
<1>1. PICK f : f = Final(r)
  OBVIOUS
<1>2. /\ f \in MirrorRecords /\ f.shadow # NoBytes
      /\ x \notin lazy[r] => Shows(f, x) = Value(r, x)
  BY <1>1, FinalTyped DEF DataInv, WorldInv, EndsAsRecorded, EndShows
<1>3. /\ m.dirty = f.dirty \cup c.parts /\ m.gpu = f.gpu
      /\ m.shadow = Shadowed(f, c) /\ m.shadow # NoBytes
  <2>1. /\ Given(f, c).dirty = (IF c.written THEN f.dirty \cup c.parts ELSE f.dirty)
        /\ Given(f, c).shadow = Shadowed(f, c) /\ Given(f, c).shadow # NoBytes
        /\ Given(f, c).gpu = f.gpu
    BY <1>2, GivenTyped
  <2> HIDE DEF Given
  <2> QED BY <1>1, <2>1
<1>4. Value(r, x)' = Value(r, x)
  BY DEF Value
<1>5. CASE x \in c.parts
  <2>1. Shows(m, x)' = m.shadow[x]
    BY <1>3, <1>5 DEF Shows, Stale, Source
  <2>2. m.shadow[x] = mem[addr[r]][x]
    BY <1>3, <1>5 DEF Shadowed
  <2>3. Value(r, x) = mem[addr[r]][x]
    <3>1. addr[r] # NoBlock
      <4>1. r \in Buffers
        BY DEF DataInv, TypesInv, RecordInv
      <4> QED BY <4>1 DEF IInv, MemoryInv, LocksHaveMemory
    <3> QED BY <3>1 DEF Value
  <2> QED BY <1>4, <2>1, <2>2, <2>3
<1>6. CASE x \notin c.parts
  <2>1. Stale(m, x) <=> Stale(f, x)
    BY <1>3, <1>6 DEF Stale
  <2>2. m.shadow[x] = f.shadow[x]
    BY <1>2, <1>3, <1>6 DEF Shadowed
  <2>3. Shows(m, x)' = IF Stale(m, x) THEN m.shadow[x] ELSE m.gpu[x]
    BY <1>3 DEF Shows, Stale, Source
  <2>4. Shows(f, x) = IF Stale(f, x) THEN f.shadow[x] ELSE f.gpu[x]
    BY <1>2 DEF Shows, Stale, Source
  <2>5. Shows(m, x)' = Shows(f, x)
    BY <1>3, <2>1, <2>2, <2>3, <2>4
  <2> QED BY <1>2, <1>4, <1>6, <2>5
<1> QED BY <1>5, <1>6

LEMMA EndBatch ==
  ASSUME IInv, IInv', DataInv, TypesInv', ~failed, Kinds, NEW X, NEW w, NEW l \in Int, Sends(X),
         Takes(X), Copies(X), Adding, Flush, UNCHANGED <<mem, addr, locked>>,
         Listed(Unbinds \cup Binds \cup X, w, l), w.op \in {"DRAW", "PRESENT"}
  PROVE  EndShows'
<1>1. /\ TypesInv /\ Longer
      /\ bound \subseteq Resources
  BY TypesFacts DEF DataInv, Adding
<1>2. \A r \in Resources : Final(r)' = At(l, r)'
  BY <1>1, BatchLast
<1>3. ASSUME NEW r \in Resources, rec'[r] # NoRec, NEW x \in Parts,
             x \notin locked'[r], x \notin lazy'[r]
      PROVE  Shows(Final(r), x)' = Value(r, x)'
  <2>0. PICK m : m = Final(r)'
    OBVIOUS
  <2>1. CASE r \in Fresh
    <3>1. m = Born(BindCommand(r))
      BY <1>1, <1>2, <2>0, <2>1, BatchMirror
    <3>2. Shows(m, x)' = Value(r, x)'
      BY <1>1, <2>1, <3>1, EndBorn
    <3> QED BY <2>0, <3>2
  <2>2. CASE rec[r] # NoRec
    <3>1. CASE \E c \in X : c.r = r
      <4>1. PICK c \in X : c.r = r
        BY <3>1
      <4>2. m = Given(Final(r), c)
        BY <1>1, <1>2, <2>0, <4>1, BatchMirror
      <4>3. /\ rec[r].eager /\ CommandOK(c, gen, lastWorkEnd) /\ c.op = "DATA" /\ c.written
            /\ c.bytes = mem[addr[r]] /\ lazy'[r] = lazy[r] \ c.parts
        BY <4>1 DEF Takes, Sends, Copies
      <4>4. r \in live /\ x \notin locked[r] /\ (x \notin lazy[r] \/ x \in c.parts)
        BY <1>1, <1>3, <2>2, <4>3 DEF TypesInv, RecordInv
      <4>5. Shows(m, x)' = Value(r, x)'
        BY <2>2, <4>1, <4>2, <4>3, <4>4, EndGiven
      <4> QED BY <2>0, <4>5
    <3>2. CASE \A c \in X : c.r # r
      <4>1. Final(r)' = Final(r)
        BY <1>1, <1>2, <2>2, <3>2, BatchMirror DEF Fresh
      <4>2. x \notin lazy[r]
        BY <1>3, <3>2 DEF Copies
      <4> QED BY <1>3, <2>2, <4>1, <4>2, EndKept
    <3> QED BY <3>1, <3>2
  <2> QED BY <1>1, <1>3, <2>1, <2>2, BatchRecord DEF Fresh
<1> QED BY <1>3 DEF EndShows

(* Steps that leave every recorded resource alone                          *)
LEMMA EndAll ==
  ASSUME IInv, DataInv, ~failed, Kinds, UNCHANGED <<addr, locked, lazy, rec>>,
         \A r \in Resources : Final(r)' = Final(r)
  PROVE  EndShows'
<1>1. ASSUME NEW r \in Resources, rec'[r] # NoRec, NEW x \in Parts,
             x \notin locked'[r], x \notin lazy'[r]
      PROVE  Shows(Final(r), x)' = Value(r, x)'
  BY <1>1, EndKept
<1> QED BY <1>1 DEF EndShows

LEMMA EndUndone ==
  ASSUME IInv, DataInv, TypesInv', ~failed, Kinds, NEW s \in Resources, Undone(s)
  PROVE  EndShows'
<1>1. /\ locked' = locked /\ addr' = [addr EXCEPT ![s] = NoBlock]
      /\ lazy' = [lazy EXCEPT ![s] = {}]
      /\ rec'[s] = NoRec /\ \A q \in Resources : q # s => rec'[q] = rec[q]
  BY UndoneRecord DEF Undone, Destroys, DataInv
<1>2. \A q \in Resources : Final(q)' = IF q = s THEN NoRec ELSE Final(q)
  BY DestroyAdded
<1>3. ASSUME NEW r \in Resources, rec'[r] # NoRec, NEW x \in Parts,
             x \notin locked'[r], x \notin lazy'[r]
      PROVE  Shows(Final(r), x)' = Value(r, x)'
  <2>1. r # s /\ rec[r] # NoRec
    BY <1>1, <1>3
  <2>2. Final(r)' = Final(r)
    BY <1>2, <2>1
  <2> QED BY <1>1, <1>3, <2>1, <2>2, EndOthers
<1> QED BY <1>3 DEF EndShows

(* The positions that stay after a release is decided, and their end       *)
LEMMA FreedPast ==
  ASSUME IInv, Freed
  PROVE  /\ \A p \in Way' : p \in Way /\ Cmd'[p] = Cmd[p] /\ Ahead'[p] = Ahead[p]
         /\ \A r \in Resources : Final(r)' = Final(r)
<1>1. /\ Way = (Consumed + 1)..(End - 1) /\ End \in Int /\ Consumed \in Int
      /\ Way' = Way \ {End'} /\ End' = End - 1 /\ Consumed + 1 <= End'
  BY WayFacts DEF Freed, IInv
<1>2. PICK e \in Int : e = End'
  BY <1>1
<1>3. \A p \in Way' : p \in (Consumed + 1)..End'
  BY <1>1
<1>4. e \in (Consumed + 1)..End'
  BY <1>1, <1>2
<1>5. Ahead'[e] = Ahead[e]
  BY <1>4 DEF Freed
<1>6. \A r \in Resources : Final(r)' = Final(r)
  BY <1>2, <1>5 DEF Final, At, Freed
<1> QED BY <1>3, <1>6 DEF Freed

LEMMA ShorterPast ==
  ASSUME IInv, Shorter
  PROVE  /\ \A p \in Way' : p \in Way /\ Cmd'[p] = Cmd[p] /\ Ahead'[p] = Ahead[p]
         /\ \A r \in Resources : Final(r)' = Final(r)
<1>1. /\ Way = First..(End - 1) /\ End \in Int /\ First \in Int /\ First \in Way
      /\ Way' = Way \ {First} /\ End' = End
  BY WayFacts DEF Shorter, IInv, First
<1>2. /\ \A p \in Way' : p \in (First + 1)..End
      /\ End \in (First + 1)..End
  BY <1>1
<1>3. Ahead'[End] = Ahead[End]
  BY <1>2 DEF Shorter
<1>4. \A r \in Resources : Final(r)' = Final(r)
  BY <1>1, <1>3 DEF Final, At
<1> QED BY <1>2, <1>4 DEF Shorter

(* A draw replayed uploads what an upload would still read at the end.     *)
LEMMA EndDrawn ==
  ASSUME IInv, IInv', DataInv, ~failed, ReplayDraw
  PROVE  EndShows'
<1>1. /\ UNCHANGED <<mem, addr, locked, lazy, rec>> /\ End' = End
      /\ First + 1 \in Int /\ First + 1 <= End /\ End \in Int
      /\ EndShows /\ MoveInv /\ WorldInv /\ MemoryTypes /\ TypesInv
  BY DrawnStart DEF DataInv, ReplayLeaves, IInv, MemoryInv
<1>2. PICK e \in Int : e = End
  BY <1>1
<1>3. e \in (First + 1)..End
  BY <1>1, <1>2
<1>4. ASSUME NEW r \in Resources, rec'[r] # NoRec, NEW x \in Parts,
             x \notin locked'[r], x \notin lazy'[r]
      PROVE  Shows(Final(r), x)' = Value(r, x)'
  <2>1. Same(At(e, r), At(e, r)') /\ (Differs(At(e, r), At(e, r)', x) => Unsettled(r, e))
    BY <1>3, DrawnAhead
  <2>2. ~Unsettled(r, e)
    <3>1. \A q \in Way : Is(q, "MEM", r) => locked[r] = Parts \/ Settled(q, r, e)
      BY <1>1, <1>2, <1>4 DEF MoveInv
    <3> QED BY <1>1, <1>4, <3>1 DEF Unsettled
  <2>3. PICK a, b : a = At(e, r) /\ b = At(e, r)'
    OBVIOUS
  <2>4. a = Final(r) /\ b = Final(r)' /\ a # NoRec /\ Shows(a, x) = Value(r, x)
    BY <1>1, <1>2, <1>4, <2>3 DEF Final, At, WorldInv, EndsAsRecorded, EndShows
  <2>5. Shows(b, x) = Shows(a, x)
    BY <2>1, <2>2, <2>3, <2>4, ShowsSame
  <2>6. Shows(b, x)' = Shows(b, x) /\ Value(r, x)' = Value(r, x)
    BY <1>1 DEF Shows, Source, Stale, Value
  <2> QED BY <2>4, <2>5, <2>6
<1> QED BY <1>4 DEF EndShows

LEMMA EndStep ==
  ASSUME IInv, IInv', DataInv, TypesInv', ~failed, Kinds
  PROVE  EndShows'
<1>0. WorldInv' /\ TypesInv
  BY WorldStep DEF DataInv
<1>1. CASE Quietly
  <2>1. \A r \in Resources : Final(r)' = Final(r)
    BY <1>1 DEF Quietly, Steady, Final, At
  <2>2. UNCHANGED <<addr, locked, lazy, rec>>
    BY <1>1 DEF Quietly
  <2> QED BY <2>1, <2>2, EndAll
<1>2. CASE Local /\ \E s \in Resources : LocalStep(s)
  BY <1>2, EndLocal
<1>3. CASE Adding /\ \E r \in Resources : (\E b \in Blocks : Moves(r, b)) \/ Dirties(r) \/ Changes(r)
  BY <1>0, <1>3, EndMoves, EndDirties, EndChanges
<1>4. CASE \E r \in Resources : Undone(r)
  BY <1>4, EndUndone
<1>5. CASE \E use, all : DrawsNow(use, all)
  <2> PICK use, all : DrawsNow(use, all)
    BY <1>5
  <2>1. PICK l \in Int : Listed(Unbinds \cup Binds \cup Datas(use, all), DrawCommand(use), l)
    BY DrawsListed
  <2>2. Adding /\ Flush /\ Sends(Datas(use, all)) /\ UNCHANGED <<mem, addr, locked>> /\ use \in Uses
    BY DrawsListed
  <2>3. DrawCommand(use).op = "DRAW"
    BY DEF DrawCommand
  <2>4. Takes(Datas(use, all)) /\ Copies(Datas(use, all))
    BY <1>0, <2>2, DatasTake, DatasCopy
  <2> HIDE DEF DrawCommand, Datas
  <2> QED BY <2>1, <2>2, <2>3, <2>4, EndBatch
<1>6. CASE PresentsNow
  <2>1. PICK l \in Int : Listed(Unbinds \cup Binds \cup {}, [op |-> "PRESENT"], l)
    BY <1>6, PresentsListed
  <2>2. /\ Adding /\ Flush /\ Sends({}) /\ [op |-> "PRESENT"].op = "PRESENT"
        /\ UNCHANGED <<mem, addr, locked>> /\ Takes({}) /\ Copies({})
    BY <1>6, PresentsListed DEF Takes, Copies
  <2> QED BY <2>1, <2>2, EndBatch
<1>7. CASE Free /\ Freed
  <2>1. \A r \in Resources : Final(r)' = Final(r)
    BY <1>7, FreedPast
  <2>2. UNCHANGED <<addr, locked, lazy, rec>>
    BY <1>7 DEF Free, recordVars
  <2> QED BY <2>1, <2>2, EndAll
<1>8. CASE Shorter /\ Replays
  <2>1. \A r \in Resources : Final(r)' = Final(r)
    BY <1>8, ShorterPast
  <2>2. UNCHANGED <<addr, locked, lazy, rec>>
    BY <1>8, ReplayLeft DEF Replays, ReplayLeaves
  <2> QED BY <2>1, <2>2, EndAll
<1>9. CASE ReplayDraw
  BY <1>9, EndDrawn
<1> QED BY <1>1, <1>2, <1>3, <1>4, <1>5, <1>6, <1>7, <1>8, <1>9 DEF Kinds

----------------------------------------------------------------------------
(* Draws on their way.  A resource that nothing renews is as it is in the  *)
(* mirror now, or changed over, or destroyed.                              *)
AsNow(m, n) ==
  m = NoRec \/ (/\ m \in MirrorRecords /\ m.gpu = n.gpu
                /\ m.shadow = NoBytes => n.shadow = NoBytes /\ m.dirty = n.dirty)

LEMMA Still ==
  ASSUME IInv, TypesInv, NEW r \in Resources, \A p \in Way : ~Renews(p, r)
  PROVE  \A p \in (Consumed + 1)..End : AsNow(At(p, r), mirror[r])
<1> DEFINE T == {p \in (Consumed + 1)..End : ~AsNow(At(p, r), mirror[r])}
<1> SUFFICES ASSUME T # {}
             PROVE  FALSE
  OBVIOUS
<1>1. Consumed \in Int /\ End \in Int /\ Way = (Consumed + 1)..(End - 1) /\ Consumed + 1 \in Int
  BY WayFacts DEF IInv
<1>2. PICK p \in T : \A q \in T : p <= q
  <2>1. \A q \in T : q \in Int /\ Consumed + 1 <= q
    BY <1>1
  <2> HIDE DEF T
  <2> QED BY <1>1, <2>1, Least
<1>3. p \in Int /\ Consumed + 1 <= p /\ p <= End /\ ~AsNow(At(p, r), mirror[r])
  BY <1>1, <1>2
<1>4. p # Consumed + 1
  <2>1. At(Consumed + 1, r) = mirror[r] /\ MirrorOK(mirror[r])
    BY AheadFacts DEF IInv, TypesInv, MirrorTypes
  <2>2. AsNow(mirror[r], mirror[r])
    BY <2>1 DEF AsNow, MirrorOK
  <2> QED BY <1>3, <2>1, <2>2
<1>5. PICK q \in Int : q = p - 1
  BY <1>3
<1>6. q \in Way /\ q + 1 = p /\ q \in (Consumed + 1)..End /\ ~(p <= q)
  BY <1>1, <1>3, <1>4, <1>5
<1>7. AsNow(At(q, r), mirror[r])
  <2>1. q \notin T
    BY <1>2, <1>6
  <2> QED BY <1>6, <2>1
<1> PICK m, c : m = At(q, r) /\ c = Cmd[q]
  OBVIOUS
<1>8. At(p, r) = After(m, r, c)
  BY <1>6, AheadFacts DEF IInv
<1>9. CommandOK(c, gen, lastWorkEnd) /\ ~RenewedBy(c, r)
  BY <1>6 DEF TypesInv, CommandTypes, Renews, Bears, Is, RenewedBy
<1>10. CASE m = NoRec
  <2>1. After(NoRec, r, c) = NoRec
    BY <1>9 DEF After, Touches, RenewedBy
  <2> QED BY <1>3, <1>8, <1>10, <2>1 DEF AsNow
<1>11. CASE c.op = "DESTROY" /\ c.r = r
  BY <1>3, <1>8, <1>11, AfterDestroy DEF AsNow
<1>12. CASE m # NoRec /\ ~(c.op = "DESTROY" /\ c.r = r)
  <2>1. m \in MirrorRecords
    BY <1>7, <1>12 DEF AsNow
  <2>2. /\ After(m, r, c) \in MirrorRecords /\ After(m, r, c).gpu = m.gpu
        /\ After(m, r, c).shadow = NoBytes => m.shadow = NoBytes /\ After(m, r, c).dirty = m.dirty
    BY <1>9, <1>12, <2>1, AfterKept
  <2> QED BY <1>3, <1>7, <1>8, <1>12, <2>2 DEF AsNow
<1> QED BY <1>10, <1>11, <1>12

(* What is acknowledged needs no upload, while its record lives.           *)
LEMMA AckedSettled ==
  ASSUME IInv, DataInv, ~failed, NEW r \in Resources, NEW c, Alive(r, c),
         c.slot # NoSlot, ack[c.slot] = c.gen,
         NEW p \in (Consumed + 1)..End, At(p, r) # NoRec, At(p, r).shadow = NoBytes
  PROVE  \A x : ~Stale(At(p, r), x)
<1>1. UsedOnce(r, c.gen) /\ Uploads(r, c) /\ TypesInv
  BY DEF DataInv, GenInv
<1>2. /\ Known(r) /\ mirror[r].gen = c.gen /\ mirror[r].gpu # NoBytes
      /\ mirror[r].shadow = NoBytes => mirror[r].dirty = {}
  BY <1>1 DEF Uploads
<1>3. \A q \in Way : ~Renews(q, r)
  BY <1>1, <1>2 DEF UsedOnce
<1>4. AsNow(At(p, r), mirror[r])
  BY <1>1, <1>3, Still
<1> QED BY <1>2, <1>4 DEF AsNow, Stale

(* The references cover the draws, when no command is to be put.           *)
LEMMA RefCovers ==
  ASSUME IInv, DataInv, ~failed, todo = <<>>, NEW r \in Resources, rec[r] # NoRec,
         NEW p \in Way, Reads(p, r)
  PROVE  p <= LastRefOf(r) /\ LastRefOf(r) \in Nat
<1>0. TypesInv /\ RefInv
  BY DEF DataInv
<1>1. p <= produced /\ p \in Int /\ p <= lastWorkEnd
  BY <1>0, NoFrees, WayFacts DEF IInv, RefInv, Reads
<1>2. /\ LastRefOf(r) \in Nat /\ rec[r].lastRef <= LastRefOf(r)
      /\ r \in sync => lastWorkEnd <= LastRefOf(r)
  BY <1>0, LastRefFacts
<1>3. r \in sync \/ p <= rec[r].lastRef
  BY <1>0 DEF RefInv
<1>4. rec[r].lastRef \in Nat /\ lastWorkEnd \in Nat
  BY <1>0 DEF TypesInv, RecordInv, Records, CountTypes
<1> HIDE DEF LastRefOf
<1> QED BY <1>1, <1>2, <1>3, <1>4

(* Draw p still has to upload x of r from block b.                         *)
Uploading(p, r, x, b) ==
  /\ p \in Way /\ r \in Resources /\ Reads(p, r) /\ x \in Cmd[p].use[r]
  /\ At(p, r) # NoRec /\ Stale(At(p, r), x) /\ At(p, r).shadow = NoBytes
  /\ At(p, r).block = b /\ b # NoBlock

LEMMA UploadingFacts ==
  ASSUME IInv, DataInv, ~failed, NEW p, NEW r, NEW x, NEW b, Uploading(p, r, x, b)
  PROVE  /\ x \in Parts /\ r \in Resources /\ p \in Way /\ Reads(p, r)
         /\ p \in Int /\ tail \in Nat /\ tail < p /\ p \in (Consumed + 1)..End
         /\ Keeps(p, r, x, b) /\ b # NoBlock
         /\ ~\E c : Alive(r, c) /\ c.slot # NoSlot /\ ack[c.slot] = c.gen
<1>1. p \in Way /\ Reads(p, r) /\ r \in Resources /\ x \in Cmd[p].use[r]
  BY DEF Uploading
<1>2. /\ Way = (Consumed + 1)..(End - 1) /\ Consumed \in Int /\ End \in Int /\ tail \in Nat
      /\ tail <= Consumed
  BY WayFacts DEF IInv, CursorInv
<1>3. x \in Parts
  <2>1. CommandOK(Cmd[p], gen, lastWorkEnd) /\ Cmd[p].op = "DRAW" /\ r \in DOMAIN Cmd[p].use
    BY <1>1 DEF DataInv, TypesInv, CommandTypes, Reads
  <2> QED BY <1>1, <2>1 DEF CommandOK
<1>4. Keeps(p, r, x, b)
  BY <1>1 DEF DataInv, MemoryKeeps, Uploading
<1>5. p \in (Consumed + 1)..End
  BY <1>1, <1>2
<1>6. ~\E c : Alive(r, c) /\ c.slot # NoSlot /\ ack[c.slot] = c.gen
  BY <1>1, <1>5, AckedSettled DEF Uploading
<1> QED BY <1>1, <1>2, <1>3, <1>4, <1>5, <1>6 DEF Uploading

(* The release on its way is among the commands to be put.                 *)
LEMMA FreeAhead ==
  ASSUME IInv, TypesInv, NEW q \in Way, Cmd[q].op = "FREE"
  PROVE  /\ q > produced /\ q - produced \in 1..Len(todo) /\ Cmd[q] = todo[q - produced]
         /\ q \in Int /\ produced \in Nat /\ todo # <<>>
         /\ Cmd[q].block \in Blocks \cup {NoBlock}
         /\ FreesIn(todo, Cmd[q].block)
<1>1. /\ q > produced /\ q \in Int /\ produced \in Nat /\ Len(todo) \in Nat
      /\ Way = (Consumed + 1)..(End - 1) /\ End = produced + Len(todo) + 1
      /\ Cmd[q] = IF q <= produced THEN ring[q - Consumed] ELSE todo[q - produced]
  BY WayFacts DEF IInv, TypesInv, CommandTypes, End
<1>2. q - produced \in 1..Len(todo) /\ Cmd[q] = todo[q - produced]
  BY <1>1
<1>3. todo # <<>>
  BY <1>1, <1>2, EmptyIsSequence
<1> QED BY <1>1, <1>2, <1>3 DEF FreesIn, IInv, ShapeInv, CallShape

(* The memory is there, of one owner.                                      *)
KeptBy(p, r, x, b) ==
  \/ rec[r] # NoRec /\ ~rec[r].eager /\ addr[r] = b /\ x \notin locked[r] /\ Owned(b)
  \/ Deferred(b) /\ \A d \in deferred : d[1] = b => d[2] >= p
  \/ FreesIn(todo, b) /\ \E q \in Way : /\ Is(q, "FREE", r) /\ Cmd[q].block = b
                                        /\ Cmd[q].until >= p /\ ~Cmd[q].rec.eager

LEMMA KeepsBlock ==
  ASSUME IInv, DataInv, NEW p, NEW r \in Resources, NEW x, NEW b, b # NoBlock, Keeps(p, r, x, b)
  PROVE  b \in Blocks /\ mem[b] # NoBytes /\ KeptBy(p, r, x, b)
<1>0. TypesInv /\ MemoryInv /\ OneOwner
  BY DEF DataInv, IInv, MemoryInv
<1>1. CASE rec[r] # NoRec /\ ~rec[r].eager /\ addr[r] = b /\ x \notin locked[r]
  <2>1. r \in live
    BY <1>0, <1>1 DEF TypesInv, RecordInv
  <2>2. b \in Blocks /\ mem[b] # NoBytes
    BY <1>0, <1>1, <2>1, ContentOf
  <2>3. Owned(b)
    BY <1>1, <2>1 DEF Owned
  <2> QED BY <1>1, <2>2, <2>3 DEF KeptBy
<1>2. CASE \E d \in deferred : d[1] = b /\ d[2] >= p
  <2>1. PICK d \in deferred : d[1] = b /\ d[2] >= p
    BY <1>2
  <2>2. b \in Blocks /\ Deferred(b)
    BY <1>0, <2>1 DEF MemoryInv, MemoryTypes, Deferred
  <2>3. mem[b] # NoBytes
    BY <1>0, <2>2 DEF OneOwner
  <2>4. \A e \in deferred : e[1] = b => e[2] >= p
    BY <1>0, <2>1 DEF OneOwner
  <2> QED BY <2>2, <2>3, <2>4 DEF KeptBy
<1>3. CASE \E q \in Way : Is(q, "FREE", r) /\ Cmd[q].block = b /\ Cmd[q].until >= p
                          /\ ~Cmd[q].rec.eager
  <2>1. PICK q \in Way : Is(q, "FREE", r) /\ Cmd[q].block = b /\ Cmd[q].until >= p
                         /\ ~Cmd[q].rec.eager
    BY <1>3
  <2>2. b \in Blocks /\ FreesIn(todo, b)
    BY <1>0, <2>1, FreeAhead DEF Is
  <2>3. mem[b] # NoBytes
    BY <1>0, <2>2 DEF OneOwner
  <2> QED BY <2>1, <2>2, <2>3 DEF KeptBy
<1> QED BY <1>1, <1>2, <1>3 DEF Keeps

(* A release decided: done at once only if nothing may still read.         *)
LEMMA FreedWhen ==
  ASSUME IInv, DataInv, ~failed, Free, Freed, NEW q \in Way, Cmd[q].op = "FREE"
  PROVE  /\ Cmd[q] = Head(todo) /\ Head(todo).block = Cmd[q].block
         /\ \/ /\ Cmd[q].block # NoBlock
               /\ deferred' = deferred \cup {<<Cmd[q].block, Cmd[q].until>>} /\ mem' = mem
            \/ Cmd[q].block = NoBlock
            \/ Cmd[q].rec.eager
            \/ Cmd[q].until <= tail
            \/ Cmd[q].rec.slot # NoSlot /\ ack[Cmd[q].rec.slot] = Cmd[q].rec.gen
<1>0. TypesInv /\ ShapeInv /\ CursorInv
  BY DEF DataInv, IInv
<1>1. /\ q - produced \in 1..Len(todo) /\ Cmd[q] = todo[q - produced] /\ q \in Int
      /\ produced \in Nat /\ todo # <<>>
  BY <1>0, FreeAhead
<1>2. Len(todo) \in Nat \ {0} /\ Head(todo) = todo[1]
  BY <1>0, <1>1, TailSequence DEF ShapeInv
<1>3. q - produced = Len(todo)
  BY <1>0, <1>1, <1>2 DEF ShapeInv, CallShape
<1>4. 1 = Len(todo)
  <2>1. Head(todo).op = "FREE"
    BY DEF Free, Freeing
  <2>2. 1 \in 1..Len(todo) /\ todo[1].op = "FREE"
    BY <1>2, <2>1
  <2> QED BY <1>0, <2>2 DEF ShapeInv, CallShape
<1>5. Cmd[q] = Head(todo)
  BY <1>1, <1>2, <1>3, <1>4
<1>6. PICK f : f = Head(todo)
  OBVIOUS
<1>7. \/ f.block # NoBlock /\ deferred' = deferred \cup {<<f.block, f.until>>} /\ mem' = mem
      \/ f.block = NoBlock \/ f.rec.eager \/ ~(f.until > tail)
      \/ f.rec.slot # NoSlot /\ ack[f.rec.slot] = f.rec.gen
  BY <1>6 DEF Free
<1>8. f.until \in Nat /\ tail \in Nat
  <2>1. CommandOK(f, gen, lastWorkEnd) /\ f.op = "FREE"
    BY <1>0, <1>5, <1>6 DEF TypesInv, CommandTypes
  <2> QED BY <1>0, <2>1 DEF CommandOK, CursorInv
<1> QED BY <1>5, <1>6, <1>7, <1>8

(* What a draw still has to upload is left as it is.                       *)
LEMMA UploadIntact ==
  ASSUME IInv, DataInv, ~failed, Kinds, NEW p, NEW r, NEW x, NEW b, Uploading(p, r, x, b)
  PROVE  Intact(b, x)
<1>0. TypesInv /\ OneOwner
  BY DEF DataInv, IInv, MemoryInv
<1>1. /\ x \in Parts /\ r \in Resources /\ p \in Int /\ tail \in Nat /\ tail < p
      /\ Keeps(p, r, x, b) /\ b # NoBlock
      /\ ~\E c : Alive(r, c) /\ c.slot # NoSlot /\ ack[c.slot] = c.gen
  BY UploadingFacts
<1>2. b \in Blocks /\ mem[b] # NoBytes /\ KeptBy(p, r, x, b)
  BY <1>1, KeepsBlock
<1>3. ASSUME Quietly, NEW d \in Passed, d[1] = b
      PROVE  FALSE
  <2>1. d \in deferred /\ d[2] <= tail /\ Deferred(b) /\ d[2] \in Nat
    BY <1>0, <1>3 DEF Passed, Deferred, TypesInv, CountTypes
  <2>2. ~(d[2] >= p)
    BY <1>1, <2>1
  <2> QED BY <1>0, <1>2, <1>3, <2>1, <2>2 DEF OneOwner, KeptBy
<1>4. ASSUME Local, NEW s \in live, addr[s] = b, x \in locked[s] \/ rec[s] = NoRec
      PROVE  FALSE
  <2>1. Owned(b)
    BY <1>4 DEF Owned
  <2>2. rec[r] # NoRec /\ addr[r] = b /\ x \notin locked[r]
    BY <1>0, <1>2, <2>1 DEF OneOwner, KeptBy
  <2>3. r \in live
    BY <1>0, <1>1, <2>2 DEF TypesInv, RecordInv
  <2>4. r = s
    BY <1>0, <1>1, <1>4, <2>2, <2>3 DEF OneOwner
  <2> QED BY <1>4, <2>2, <2>4
<1>5. ASSUME Free, Freed, Head(todo).block = b, mem' = Released({b})
      PROVE  FALSE
  <2>1. FreesIn(todo, b)
    <3>1. todo # <<>> /\ Head(todo).op = "FREE"
      BY <1>5 DEF Free, Freeing
    <3>2. Len(todo) \in Nat \ {0} /\ Head(todo) = todo[1]
      BY <3>1, TailSequence DEF IInv, ShapeInv
    <3> QED BY <1>5, <3>1, <3>2 DEF FreesIn
  <2>2. PICK q \in Way : Is(q, "FREE", r) /\ Cmd[q].block = b /\ Cmd[q].until >= p
                         /\ ~Cmd[q].rec.eager
    BY <1>0, <1>2, <2>1 DEF OneOwner, KeptBy
  <2>3. Cmd[q].op = "FREE" /\ Alive(r, Cmd[q].rec)
    BY <2>2 DEF Is, Alive
  <2>4. mem' # mem
    <3>1. mem'[b] = NoBytes
      BY <1>2, <1>5 DEF Released
    <3> QED BY <1>2, <3>1
  <2>5. ~(Cmd[q].until <= tail)
    <3>1. Cmd[q].until \in Nat
      BY <1>0, <2>3 DEF TypesInv, CommandTypes, CommandOK
    <3> QED BY <1>1, <2>2, <3>1
  <2> QED BY <1>1, <1>5, <2>2, <2>3, <2>4, <2>5, FreedWhen
<1> QED BY <1>1, <1>2, <1>3, <1>4, <1>5, IntactBut

(* What keeps the memory of a draw on its way goes on keeping it.          *)
LEMMA DeferredStays ==
  ASSUME IInv, DataInv, Kinds, NEW d \in deferred, tail < d[2]
  PROVE  d \in deferred'
<1>0. d[2] \in Nat /\ tail \in Nat
  BY DEF DataInv, TypesInv, CountTypes, IInv, CursorInv
<1>1. CASE Quietly
  <2>1. d \notin Passed
    BY <1>0 DEF Passed
  <2> QED BY <1>1, <2>1 DEF Quietly, ReleasePassed
<1>2. CASE Local
  BY <1>2 DEF Local
<1>3. CASE Adding /\ \E r \in Resources : (\E b \in Blocks : Moves(r, b)) \/ Dirties(r) \/ Changes(r)
  BY <1>3 DEF Moves, Dirties, Changes
<1>4. CASE \E r \in Resources : Undone(r)
  BY <1>4 DEF Undone, Destroys
<1>5. CASE (\E use, all : DrawsNow(use, all)) \/ PresentsNow
  BY <1>5, DrawsListed, PresentsListed
<1>6. CASE Free /\ Freed
  <2>1. deferred' = deferred \/ \E e : deferred' = deferred \cup {e}
    BY <1>6 DEF Free
  <2> QED BY <2>1
<1>7. CASE Replays \/ ReplayDraw
  BY <1>7, ReplayLeft DEF Replays, ReplayDraw, ReplayLeaves
<1> QED BY <1>1, <1>2, <1>3, <1>4, <1>5, <1>6, <1>7 DEF Kinds

LEMMA FreeStays ==
  ASSUME IInv, DataInv, Kinds, ~(Free /\ Freed), NEW q \in Way, Cmd[q].op = "FREE"
  PROVE  q \in Way' /\ Cmd'[q] = Cmd[q]
<1>1. CASE Quietly \/ Local
  BY <1>1 DEF Quietly, Local, Steady
<1>2. CASE Longer
  BY <1>2 DEF Longer
<1>3. CASE Replays \/ ReplayDraw
  <2>1. ReplayLeaves
    BY <1>3, ReplayLeft DEF Replays, ReplayDraw
  <2>2. q > produced /\ q \in Int /\ produced \in Nat
    BY FreeAhead DEF DataInv
  <2>3. q # First
    BY <2>1, <2>2 DEF ReplayLeaves
  <2> QED BY <2>1, <2>3 DEF ReplayLeaves
<1>4. Quietly \/ Local \/ Longer \/ Replays \/ ReplayDraw
  <2>1. (\E use, all : DrawsNow(use, all)) => Longer
    BY DrawsListed
  <2>2. PresentsNow => Longer
    BY PresentsListed
  <2> QED BY <2>1, <2>2 DEF Kinds, Adding, Undone
<1> QED BY <1>1, <1>2, <1>3, <1>4

LEMMA ByOwner ==
  ASSUME NEW p, NEW r, NEW x, NEW b,
         rec'[r] # NoRec, ~rec'[r].eager, addr'[r] = b, x \notin locked'[r]
  PROVE  Keeps(p, r, x, b)'
BY DEF Keeps

LEMMA ByRelease ==
  ASSUME NEW p, NEW r, NEW x, NEW b, NEW u, <<b, u>> \in deferred', u >= p
  PROVE  Keeps(p, r, x, b)'
<1>1. <<b, u>>[1] = b /\ <<b, u>>[2] >= p
  OBVIOUS
<1> QED BY <1>1 DEF Keeps

(* A lock of the resource itself: of what no draw on its way uploads       *)
LEMMA LockSpares ==
  ASSUME IInv, DataInv, ~failed, NEW p, NEW r, NEW x, NEW b, Uploading(p, r, x, b),
         NEW S \in SUBSET Parts, todo = <<>>, MayLock(r, S), rec[r] # NoRec, ~rec[r].eager
  PROVE  x \notin S
<1>1. /\ x \in Parts /\ r \in Resources /\ p \in Int /\ tail \in Nat /\ tail < p /\ p \in Way
      /\ Reads(p, r) /\ ~\E c : Alive(r, c) /\ c.slot # NoSlot /\ ack[c.slot] = c.gen
  BY UploadingFacts
<1>2. ~(LastRefOf(r) <= tail)
  <2>1. p <= LastRefOf(r) /\ LastRefOf(r) \in Nat
    BY <1>1, RefCovers
  <2> HIDE DEF LastRefOf
  <2> QED BY <1>1, <2>1
<1>3. ~Acknowledged(r)
  BY <1>1 DEF Acknowledged, Alive
<1>4. ~(wait # NoWait /\ wait.kind = "fence" /\ wait.r = r /\ wait.until <= tail)
  <2> SUFFICES ASSUME wait # NoWait, wait.kind = "fence", wait.r = r, wait.until <= tail
               PROVE  FALSE
    OBVIOUS
  <2>1. p <= wait.until /\ wait.until \in Nat
    BY <1>1 DEF DataInv, FenceInv
  <2> QED BY <1>1, <2>1
<1>5. x \in PendingParts(r)
  <2>1. p <= produced /\ Cmd[p] = ring[p - Consumed] /\ p - Consumed \in 1..Len(ring)
    <3>1. p <= produced
      BY <1>1, NoFrees DEF DataInv
    <3>2. /\ Way = (Consumed + 1)..(End - 1) /\ Consumed \in Int /\ End \in Int /\ produced \in Nat
          /\ Len(ring) \in Nat /\ Consumed = produced - Len(ring)
          /\ Cmd[p] = IF p <= produced THEN ring[p - Consumed] ELSE todo[p - produced]
      BY <1>1, WayFacts DEF IInv
    <3> HIDE DEF Consumed, Cmd
    <3> QED BY <1>1, <3>1, <3>2
  <2>2. x \in Cmd[p].use[r]
    BY DEF Uploading
  <2> HIDE DEF Consumed, Cmd
  <2> QED BY <1>1, <2>1, <2>2 DEF PendingParts, Reads
<1> QED BY <1>2, <1>3, <1>4, <1>5 DEF MayLock

LEMMA OwnerKeeps ==
  ASSUME IInv, DataInv, ~failed, Kinds, NEW p, NEW r, NEW x, NEW b, Uploading(p, r, x, b),
         rec[r] # NoRec, ~rec[r].eager, addr[r] = b, x \notin locked[r]
  PROVE  Keeps(p, r, x, b)'
<1>0. /\ x \in Parts /\ r \in Resources /\ p \in Int /\ tail \in Nat /\ tail < p /\ p \in Way
      /\ Reads(p, r) /\ b # NoBlock /\ TypesInv
      /\ locked \in [Resources -> SUBSET Parts] /\ addr \in [Resources -> Blocks \cup {NoBlock}]
  BY UploadingFacts, TypesFacts DEF DataInv
<1>1. ASSUME UNCHANGED <<rec, addr, locked>>
      PROVE  Keeps(p, r, x, b)'
  BY <1>1, ByOwner
<1>2. CASE Quietly
  BY <1>1, <1>2 DEF Quietly
<1>3. CASE Local /\ \E s \in Resources : LocalStep(s)
  <2>0. PICK s \in Resources : LocalStep(s)
    BY <1>3
  <2>1. rec' = rec
    BY <1>3 DEF Local
  <2>2. CASE Idle \/ Writes(s)
    BY <1>1, <2>1, <2>2 DEF Idle, Writes
  <2>3. CASE Gains(s)
    <3>1. r # s
      BY <2>3 DEF Gains
    <3>2. addr'[r] = b /\ locked'[r] = locked[r]
      BY <1>0, <2>3, <3>1 DEF Gains
    <3> QED BY <2>1, <3>2, ByOwner
  <2>4. CASE Locks(s)
    <3>1. PICK S \in SUBSET Parts : MayLock(s, S) /\ locked' = [locked EXCEPT ![s] = S]
      BY <2>4 DEF Locks
    <3>2. x \notin locked'[r]
      <4>1. CASE r # s
        BY <1>0, <3>1, <4>1
      <4>2. CASE r = s
        <5>1. x \notin S
          BY <2>4, <3>1, <4>2, LockSpares DEF Locks
        <5> QED BY <1>0, <3>1, <4>2, <5>1
      <4> QED BY <4>1, <4>2
    <3> QED BY <2>1, <2>4, <3>2, ByOwner DEF Locks
  <2>5. CASE Unlocks(s)
    <3>1. x \notin locked'[r] /\ addr' = addr
      BY <1>0, <2>5 DEF Unlocks
    <3> QED BY <2>1, <3>1, ByOwner
  <2>6. CASE Drops(s)
    <3>1. r # s /\ locked' = locked
      BY <2>6 DEF Drops
    <3>2. addr'[r] = b
      BY <1>0, <2>6, <3>1 DEF Drops
    <3> QED BY <2>1, <3>1, <3>2, ByOwner
  <2> QED BY <2>0, <2>2, <2>3, <2>4, <2>5, <2>6 DEF LocalStep
<1>4. ASSUME Adding, NEW s \in Resources, NEW c \in Blocks, Moves(s, c)
      PROVE  Keeps(p, r, x, b)'
  <2>1. CASE r # s
    <3>1. addr'[r] = b /\ locked'[r] = locked[r] /\ rec' = rec
      BY <1>0, <1>4, <2>1 DEF Moves
    <3> QED BY <3>1, ByOwner
  <2>2. CASE r = s
    <3>1. <<b, LastRefOf(r)>> \in deferred'
      BY <1>0, <1>4, <2>2 DEF Moves
    <3>2. p <= LastRefOf(r) /\ LastRefOf(r) \in Nat
      BY <1>0, <1>4, RefCovers DEF Adding
    <3> HIDE DEF LastRefOf
    <3>3. LastRefOf(r) >= p
      BY <1>0, <3>2
    <3> QED BY <3>1, <3>3, ByRelease
  <2> QED BY <2>1, <2>2
<1>5. ASSUME Adding, NEW s \in Resources, Dirties(s)
      PROVE  Keeps(p, r, x, b)'
  <2>1. /\ rec'[s] # NoRec /\ rec'[s].eager = rec[s].eager
        /\ \A q \in Resources : q # s => rec'[q] = rec[q]
    BY <1>0, <1>5, DirtiedRecord
  <2>2. addr' = addr /\ x \notin locked'[r]
    BY <1>0, <1>5 DEF Dirties
  <2> QED BY <1>0, <2>1, <2>2, ByOwner
<1>6. ASSUME Adding, NEW s \in Resources, Changes(s)
      PROVE  Keeps(p, r, x, b)'
  <2>1. r # s
    <3> SUFFICES ASSUME r = s
                 PROVE  FALSE
      OBVIOUS
    <3>1. wait # NoWait /\ wait.kind = "fence" /\ wait.r = r /\ wait.until <= tail
      BY <1>6 DEF Changes
    <3>2. p <= wait.until /\ wait.until \in Nat
      BY <1>0, <3>1 DEF DataInv, FenceInv
    <3> QED BY <1>0, <3>1, <3>2
  <2>2. rec'[r] = rec[r] /\ addr' = addr /\ locked'[r] = locked[r]
    <3>1. \A q \in Resources : q # s => rec'[q] = rec[q]
      BY <1>0, <1>6, ChangedRecord
    <3> QED BY <1>0, <1>6, <2>1, <3>1 DEF Changes
  <2> QED BY <2>2, ByOwner
<1>7. ASSUME NEW s \in Resources, Undone(s)
      PROVE  Keeps(p, r, x, b)'
  <2>1. CASE r # s
    <3>1. rec'[r] = rec[r]
      BY <1>0, <1>7, <2>1, UndoneRecord
    <3>2. addr'[r] = b /\ locked' = locked
      BY <1>0, <1>7, <2>1 DEF Undone, Destroys
    <3> QED BY <3>1, <3>2, ByOwner
  <2>2. CASE r = s
    <3>1. p <= LastRefOf(r) /\ LastRefOf(r) \in Nat
      BY <1>0, <1>7, RefCovers DEF Undone
    <3>2. End \in Int
      BY WayFacts DEF IInv
    <3>3. PICK q \in Int : q = End + 1
      BY <3>2
    <3>4. /\ q \in Way' /\ Cmd'[q].op = "FREE" /\ Cmd'[q].r = r /\ Cmd'[q].block = b
          /\ Cmd'[q].rec = rec[r] /\ Cmd'[q].until = LastRefOf(r)
      BY <1>7, <2>2, <3>3, DestroyAdded
    <3> HIDE DEF LastRefOf
    <3>5. Cmd'[q].until >= p
      BY <1>0, <3>1, <3>4
    <3> QED BY <3>4, <3>5 DEF Keeps, Is
  <2> QED BY <2>1, <2>2
<1>8. CASE (\E use, all : DrawsNow(use, all)) \/ PresentsNow
  <2>1. Flush /\ addr' = addr /\ locked' = locked
    BY <1>8, DrawsListed, PresentsListed
  <2>2. rec'[r] # NoRec /\ rec'[r].eager = rec[r].eager
    BY <1>0, <2>1, BatchRecord
  <2> QED BY <2>1, <2>2, ByOwner
<1>9. CASE Free /\ Freed
  BY <1>1, <1>9 DEF Free, recordVars
<1>10. CASE Replays \/ ReplayDraw
  <2>1. ReplayLeaves
    BY <1>10, ReplayLeft DEF Replays, ReplayDraw
  <2> QED BY <1>1, <2>1 DEF ReplayLeaves
<1> QED BY <1>2, <1>3, <1>4, <1>5, <1>6, <1>7, <1>8, <1>9, <1>10 DEF Kinds

LEMMA UploadKept ==
  ASSUME IInv, DataInv, ~failed, Kinds, NEW p, NEW r, NEW x, NEW b, Uploading(p, r, x, b)
  PROVE  Keeps(p, r, x, b)'
<1>0. /\ r \in Resources /\ p \in Int /\ tail \in Nat /\ tail < p
      /\ Keeps(p, r, x, b) /\ b # NoBlock /\ TypesInv
      /\ ~\E c : Alive(r, c) /\ c.slot # NoSlot /\ ack[c.slot] = c.gen
  BY UploadingFacts DEF DataInv
<1>1. CASE rec[r] # NoRec /\ ~rec[r].eager /\ addr[r] = b /\ x \notin locked[r]
  BY <1>1, OwnerKeeps
<1>2. CASE \E d \in deferred : d[1] = b /\ d[2] >= p
  <2>1. PICK d \in deferred : d[1] = b /\ d[2] >= p
    BY <1>2
  <2>2. tail < d[2]
    <3>1. d[2] \in Nat
      BY <1>0 DEF TypesInv, CountTypes
    <3> QED BY <1>0, <2>1, <3>1
  <2>3. d \in deferred'
    BY <2>2, DeferredStays
  <2> QED BY <2>1, <2>3 DEF Keeps
<1>3. CASE \E q \in Way : Is(q, "FREE", r) /\ Cmd[q].block = b /\ Cmd[q].until >= p
                          /\ ~Cmd[q].rec.eager
  <2>1. PICK q \in Way : Is(q, "FREE", r) /\ Cmd[q].block = b /\ Cmd[q].until >= p
                         /\ ~Cmd[q].rec.eager
    BY <1>3
  <2>2. Cmd[q].op = "FREE" /\ Alive(r, Cmd[q].rec)
    BY <2>1 DEF Is, Alive
  <2>3. CASE ~(Free /\ Freed)
    <3>1. q \in Way' /\ Cmd'[q] = Cmd[q]
      BY <2>2, <2>3, FreeStays
    <3> QED BY <2>1, <3>1 DEF Keeps, Is
  <2>4. CASE Free /\ Freed
    <3>1. ~(Cmd[q].until <= tail)
      <4>1. Cmd[q].until \in Nat
        BY <1>0, <2>2 DEF TypesInv, CommandTypes, CommandOK
      <4> QED BY <1>0, <2>1, <4>1
    <3>2. deferred' = deferred \cup {<<Cmd[q].block, Cmd[q].until>>}
      BY <1>0, <2>1, <2>2, <2>4, <3>1, FreedWhen
    <3> QED BY <2>1, <3>2, ByRelease
  <2> QED BY <2>3, <2>4
<1> QED BY <1>0, <1>1, <1>2, <1>3 DEF Keeps

----------------------------------------------------------------------------
(* DrawShows and MemoryKeeps: what a draw on its way will show of a part   *)
(* it reads.                                                               *)
DrawFits(p, r, x) ==
  /\ At(p, r) # NoRec /\ Shows(At(p, r), x) = Cmd[p].want[r][x]
  /\ Stale(At(p, r), x) /\ At(p, r).shadow = NoBytes /\ At(p, r).block # NoBlock
     => Keeps(p, r, x, At(p, r).block)

LEMMA DrawsFit ==
  ASSUME TypesInv', \A p \in Way', r \in Resources : Reads(p, r)' =>
           \A x \in Cmd'[p].use[r] : DrawFits(p, r, x)'
  PROVE  DrawShows' /\ MemoryKeeps'
<1>1. DrawShows'
  BY DEF DrawShows, DrawFits
<1>2. MemoryKeeps'
  BY DEF MemoryKeeps, DrawFits
<1> QED BY <1>1, <1>2

(* A draw that was on its way, of a resource that stays as it was          *)
LEMMA DrawPast ==
  ASSUME IInv, DataInv, ~failed, Kinds, NEW p \in Way, NEW r \in Resources, Reads(p, r),
         Cmd'[p] = Cmd[p], At(p, r)' = At(p, r), NEW x \in Cmd[p].use[r]
  PROVE  DrawFits(p, r, x)'
<1>1. At(p, r) # NoRec /\ Shows(At(p, r), x) = Cmd[p].want[r][x]
  BY DEF DataInv, DrawShows
<1>2. PICK m : m = At(p, r)
  OBVIOUS
<1>3. m = At(p, r)'
  BY <1>2
<1>4. ASSUME Stale(m, x), m.shadow = NoBytes, m.block # NoBlock
      PROVE  Uploading(p, r, x, m.block)
  BY <1>1, <1>2, <1>4 DEF Uploading
<1>5. Shows(m, x)' = Shows(m, x)
  <2>1. Stale(m, x) /\ m.shadow = NoBytes /\ m.block # NoBlock => Intact(m.block, x)
    BY <1>4, UploadIntact
  <2> QED BY <2>1, ShowsKept
<1>6. Stale(m, x) /\ m.shadow = NoBytes /\ m.block # NoBlock => Keeps(p, r, x, m.block)'
  BY <1>4, UploadKept
<1>7. At(p, r)' # NoRec /\ Shows(At(p, r), x)' = Cmd'[p].want[r][x]
  BY <1>1, <1>2, <1>3, <1>5
<1>8. Stale(At(p, r), x)' /\ At(p, r)'.shadow = NoBytes /\ At(p, r)'.block # NoBlock
      => Keeps(p, r, x, At(p, r).block)'
  BY <1>3, <1>6 DEF Stale
<1> QED BY <1>7, <1>8 DEF DrawFits

(* ... when a draw before it is replayed                                   *)
LEMMA DrawDrawn ==
  ASSUME IInv, IInv', DataInv, ~failed, Kinds, ReplayDraw, NEW p \in Way', NEW r \in Resources,
         Reads(p, r), NEW x \in Cmd[p].use[r]
  PROVE  DrawFits(p, r, x)'
<1>0. /\ p \in Way /\ Cmd'[p] = Cmd[p] /\ p \in (First + 1)..End /\ First < p /\ mem' = mem
      /\ TypesInv /\ MoveInv
  <2>1. /\ Way' = (First + 1)..(End - 1) /\ First + 1 \in Int /\ End \in Int /\ ReplayLeaves
    BY DrawnStart
  <2> QED BY <2>1 DEF ReplayLeaves, DataInv
<1>1. At(p, r) # NoRec /\ Shows(At(p, r), x) = Cmd[p].want[r][x]
  BY <1>0 DEF DataInv, DrawShows
<1>2. x \in Parts
  <2>1. CommandOK(Cmd[p], gen, lastWorkEnd)
    BY <1>0 DEF TypesInv, CommandTypes
  <2> QED BY <2>1 DEF CommandOK, Reads
<1>3. PICK a, b : a = At(p, r) /\ b = At(p, r)'
  OBVIOUS
<1>4. Same(a, b) /\ (Differs(a, b, x) => Unsettled(r, p))
  BY <1>0, <1>2, <1>3, DrawnAhead
<1>5. ~Unsettled(r, p)
  <2>1. \A q \in Way : Is(q, "MEM", r) /\ q < p => Settled(q, r, p)
    BY <1>0 DEF MoveInv
  <2> QED BY <2>1 DEF Unsettled
<1>6. b # NoRec /\ Shows(b, x) = Shows(a, x)
  BY <1>1, <1>2, <1>3, <1>4, <1>5, ShowsSame
<1>7. Shows(b, x)' = Shows(b, x)
  BY <1>0 DEF Shows, Source, Stale
<1>8. ASSUME Stale(b, x), b.shadow = NoBytes, b.block # NoBlock
      PROVE  Keeps(p, r, x, b.block)'
  <2>1. Stale(a, x) /\ a.shadow = NoBytes /\ a.block = b.block
    BY <1>1, <1>2, <1>3, <1>4, <1>8 DEF Same
  <2>2. Uploading(p, r, x, b.block)
    BY <1>0, <1>1, <1>3, <1>8, <2>1 DEF Uploading
  <2> QED BY <2>2, UploadKept
<1>9. At(p, r)' # NoRec /\ Shows(At(p, r), x)' = Cmd'[p].want[r][x]
  BY <1>0, <1>1, <1>3, <1>6, <1>7
<1>10. Stale(At(p, r), x)' /\ At(p, r)'.shadow = NoBytes /\ At(p, r)'.block # NoBlock
       => Keeps(p, r, x, At(p, r).block)'
  BY <1>3, <1>8 DEF Stale
<1> QED BY <1>9, <1>10 DEF DrawFits

(* The draw a call adds                                                    *)
LEMMA DrawNew ==
  ASSUME IInv, IInv', DataInv, TypesInv', ~failed, Kinds, NEW use, NEW all, DrawsNow(use, all),
         NEW l \in Int, Listed(Unbinds \cup Binds \cup Datas(use, all), DrawCommand(use), l),
         NEW r \in bound, NEW x \in use[r]
  PROVE  DrawFits(l, r, x)'
<1>0. /\ use \in Uses /\ Adding /\ Longer /\ Flush /\ Sends(Datas(use, all)) /\ TypesInv
      /\ UNCHANGED <<mem, addr, locked>>
      /\ lazy' = [q \in Resources |->
                IF q \in Taken(use, all) THEN lazy[q] \ Take(q, use, all) ELSE lazy[q]]
      /\ r \in Resources
      /\ DrawCommand(use).op \in {"DRAW", "PRESENT"}
  BY DrawsListed, TypesFacts DEF DataInv, DrawsNow
<1>1. /\ use[r] \subseteq Parts /\ use[r] \cap locked[r] = {} /\ Seen(use)[r][x] = Value(r, x)
  BY <1>0, DrawOK
<1>2. At(l, r)' = Final(r)'
  BY <1>0, BatchLast
<1>3. rec'[r] # NoRec
  <2>1. CASE r \in Fresh
    <3>1. rec'[r] = NewRec(r) /\ NewRec(r) \in Records
      <4>1. bound \subseteq Resources /\ sync \subseteq Resources /\ gen \in Nat
        BY <1>0, TypesFacts
      <4> QED BY <1>0, <2>1, <4>1, BatchRecord, NewRecFacts
    <3> QED BY <3>1, RenderLinkAssumption
  <2>2. CASE r \notin Fresh
    BY <1>0, <2>2, BatchRecord DEF Fresh
  <2> QED BY <2>1, <2>2
<1>4. x \in Parts /\ x \notin locked'[r] /\ x \notin lazy'[r]
  <2>1. x \notin lazy'[r]
    <3>1. CASE r \in Taken(use, all)
      <4>1. lazy[r] \cap use[r] \subseteq Take(r, use, all)
        BY <1>0, <3>1, TakenFacts
      <4>2. lazy'[r] = lazy[r] \ Take(r, use, all)
        BY <1>0, <3>1
      <4> HIDE DEF Take
      <4> QED BY <4>1, <4>2
    <3>2. CASE r \notin Taken(use, all)
      <4>1. use[r] \cap lazy[r] = {}
        BY <1>0, <3>2, TakenFacts
      <4> QED BY <1>0, <3>2, <4>1
    <3> QED BY <3>1, <3>2
  <2> QED BY <1>0, <1>1, <2>1
<1>5. WorldInv' /\ EndShows'
  BY WorldStep, EndStep
<1>6. /\ Final(r)' # NoRec /\ Final(r)'.block = addr'[r]
      /\ (Final(r)'.shadow # NoBytes <=> rec'[r].eager)
      /\ Shows(Final(r), x)' = Value(r, x)'
  BY <1>0, <1>3, <1>4, <1>5 DEF WorldInv, EndsAsRecorded, EndShows
<1>7. PICK m : m = Final(r)'
  OBVIOUS
<1>8. Value(r, x)' = Value(r, x)
  BY <1>0 DEF Value
<1>9. Cmd'[l].want[r][x] = Value(r, x)
  BY <1>1 DEF Listed, DrawCommand
<1>10. Shows(At(l, r), x)' = Shows(m, x)' /\ Shows(Final(r), x)' = Shows(m, x)'
  BY <1>2, <1>7
<1>11. At(l, r)' # NoRec /\ Shows(At(l, r), x)' = Cmd'[l].want[r][x]
  BY <1>2, <1>6, <1>8, <1>9, <1>10
<1>12. ASSUME At(l, r)'.shadow = NoBytes
       PROVE  Keeps(l, r, x, m.block)'
  <2>1. ~rec'[r].eager /\ addr'[r] = m.block
    BY <1>2, <1>6, <1>7, <1>12
  <2> QED BY <1>3, <1>4, <2>1, ByOwner
<1>13. Stale(At(l, r), x)' /\ At(l, r)'.shadow = NoBytes /\ At(l, r)'.block # NoBlock
       => Keeps(l, r, x, At(l, r).block)'
  BY <1>2, <1>7, <1>12
<1> QED BY <1>11, <1>13 DEF DrawFits

LEMMA DrawStep ==
  ASSUME IInv, IInv', DataInv, TypesInv', ~failed, Kinds
  PROVE  DrawShows' /\ MemoryKeeps'
<1>0. TypesInv
  BY DEF DataInv
<1>1. ASSUME NEW p \in Way', p \in Way, Cmd'[p] = Cmd[p], Ahead'[p] = Ahead[p],
             NEW r \in Resources, Reads(p, r)', NEW x \in Cmd'[p].use[r]
      PROVE  DrawFits(p, r, x)'
  <2>1. At(p, r)' = At(p, r) /\ Reads(p, r) /\ x \in Cmd[p].use[r]
    BY <1>1 DEF At, Reads
  <2> QED BY <1>1, <2>1, DrawPast
<1>2. ASSUME \A p \in Way' : Cmd'[p].op = "DRAW" =>
               p \in Way /\ Cmd'[p] = Cmd[p] /\ Ahead'[p] = Ahead[p]
      PROVE  DrawShows' /\ MemoryKeeps'
  <2>1. ASSUME NEW p \in Way', NEW r \in Resources, Reads(p, r)', NEW x \in Cmd'[p].use[r]
        PROVE  DrawFits(p, r, x)'
    BY <1>1, <1>2, <2>1 DEF Reads
  <2> QED BY <2>1, DrawsFit
<1>3. CASE Quietly \/ Local
  <2>1. Way' = Way /\ Cmd' = Cmd /\ Ahead' = Ahead
    BY <1>3 DEF Quietly, Local, Steady
  <2> QED BY <1>2, <2>1
<1>4. ASSUME NEW op \in {"MEM", "DIRTY", "DATA"}, NEW r, AddedOne(op, r)
      PROVE  DrawShows' /\ MemoryKeeps'
  <2>1. \A p \in Way' : Cmd'[p].op = "DRAW" =>
          p \in Way /\ Cmd'[p] = Cmd[p] /\ Ahead'[p] = Ahead[p]
    BY <1>4 DEF AddedOne, Past
  <2> QED BY <1>2, <2>1
<1>5. CASE Adding /\ \E r \in Resources : (\E b \in Blocks : Moves(r, b)) \/ Dirties(r) \/ Changes(r)
  BY <1>4, <1>5, MovesAdded, DirtiesAdded, ChangesAdded
<1>6. ASSUME NEW s \in Resources, Undone(s)
      PROVE  DrawShows' /\ MemoryKeeps'
  <2>1. Past
    BY <1>6, LongerPast DEF Undone
  <2>2. \A p \in Way' : p \in Way \/ Cmd'[p].op \in {"DESTROY", "FREE"}
    BY <1>6, DestroyAdded
  <2> QED BY <1>2, <2>1, <2>2 DEF Past
<1>7. CASE \E use, all : DrawsNow(use, all)
  <2> PICK use, all : DrawsNow(use, all)
    BY <1>7
  <2>0. /\ use \in Uses /\ Longer /\ Sends(Datas(use, all))
    BY DrawsListed
  <2>1. PICK l \in Int : Listed(Unbinds \cup Binds \cup Datas(use, all), DrawCommand(use), l)
    BY DrawsListed
  <2>2. Past
    BY <2>0, LongerPast
  <2>3. ASSUME NEW p \in Way', NEW r \in Resources, Reads(p, r)', NEW x \in Cmd'[p].use[r]
        PROVE  DrawFits(p, r, x)'
    <3>1. p \in Way \/ p = l
      <4>1. Cmd'[p].op = "DRAW"
        BY <2>3 DEF Reads
      <4>2. p \in Way \/ p = l \/ Cmd'[p].op \in {"BIND", "UNBIND", "DATA"}
        BY <1>0, <2>0, <2>1, ListedOps
      <4> QED BY <4>1, <4>2
    <3>2. CASE p \in Way
      BY <1>1, <2>2, <2>3, <3>2 DEF Past
    <3>3. CASE p = l
      <4>1. Cmd'[l].use = use /\ DOMAIN use = bound
        BY <2>0, <2>1 DEF Listed, DrawCommand, Uses
      <4>2. r \in bound /\ x \in use[r]
        BY <2>3, <3>3, <4>1 DEF Reads
      <4> QED BY <2>1, <3>3, <4>2, DrawNew
    <3> QED BY <3>1, <3>2, <3>3
  <2> QED BY <2>3, DrawsFit
<1>8. CASE PresentsNow
  <2>0. Longer /\ Sends({})
    BY <1>8, PresentsListed
  <2>1. PICK l \in Int : Listed(Unbinds \cup Binds \cup {}, [op |-> "PRESENT"], l)
    BY <1>8, PresentsListed
  <2>2. Past /\ Cmd'[l].op = "PRESENT"
    BY <2>0, <2>1, LongerPast DEF Listed
  <2>3. \A p \in Way' : p \in Way \/ p = l \/ Cmd'[p].op \in {"BIND", "UNBIND", "DATA"}
    BY <1>0, <2>0, <2>1, ListedOps
  <2> QED BY <1>2, <2>2, <2>3 DEF Past
<1>9. CASE Free /\ Freed
  BY <1>2, <1>9, FreedPast
<1>10. CASE Shorter /\ Replays
  BY <1>2, <1>10, ShorterPast
<1>11. CASE ReplayDraw
  <2>1. \A p \in Way' : p \in Way /\ Cmd'[p] = Cmd[p]
    BY <1>11, DrawnStart DEF ReplayLeaves
  <2>2. ASSUME NEW p \in Way', NEW r \in Resources, Reads(p, r)', NEW x \in Cmd'[p].use[r]
        PROVE  DrawFits(p, r, x)'
    BY <1>11, <2>1, <2>2, DrawDrawn DEF Reads
  <2> QED BY <2>2, DrawsFit
<1> QED BY <1>3, <1>5, <1>6, <1>7, <1>8, <1>9, <1>10, <1>11 DEF Kinds

----------------------------------------------------------------------------
(* The invariant holds of every reachable state.                           *)
LEMMA DataInit ==
  ASSUME Init
  PROVE  DataInv
<1>1. IInv
  BY InvInit
<1>2. /\ produced = 0 /\ Len(ring) = 0 /\ Len(todo) = 0 /\ lastWorkEnd = 0 /\ gen = 0
      /\ rec = [r \in Resources |-> NoRec] /\ mirror = [r \in Resources |-> NoRec]
      /\ lazy = [r \in Resources |-> {}] /\ staged = {} /\ sync = {} /\ bound = {} /\ live = {}
      /\ ack = [s \in Slots |-> -1] /\ deferred = {} /\ shown = 0 /\ frames = 0
      /\ failed = FALSE /\ crashed = FALSE /\ stalled = FALSE /\ wait = NoWait
  BY EmptyIsSequence DEF Init
<1>3. Consumed = 0 /\ End = 1 /\ Way = {}
  <2>1. Consumed = 0 /\ End = 1
    BY <1>2 DEF Consumed, End
  <2>2. Way = (Consumed + 1)..(End - 1)
    BY <1>1, WayFacts DEF IInv
  <2> QED BY <2>1, <2>2
<1>4. TypesInv
  <2>1. RecordInv /\ MirrorTypes /\ GuestTypes
    BY <1>2 DEF RecordInv, MirrorTypes, MirrorOK, GuestTypes
  <2>2. CommandTypes
    BY <1>3 DEF CommandTypes
  <2>3. CountTypes
    <3>1. failed \in BOOLEAN /\ crashed \in BOOLEAN /\ stalled \in BOOLEAN
      BY DEF Init
    <3> QED BY <1>2, <3>1 DEF CountTypes
  <2> QED BY <2>1, <2>2, <2>3 DEF TypesInv
<1>5. StagedAt(End) = sync
  <2>1. StagedAt(Consumed + 1) = staged
    BY <1>1, AheadFacts DEF IInv
  <2> QED BY <1>2, <1>3, <2>1
<1>6. FreeInv /\ MoveInv /\ ChangeInv /\ RefInv /\ FenceInv /\ DrawShows /\ MemoryKeeps
  BY <1>2, <1>3 DEF FreeInv, MoveInv, ChangeInv, RefInv, FenceInv, DrawShows, MemoryKeeps
<1>7. GenInv
  BY <1>2, <1>3 DEF GenInv, Alive
<1>8. WorldInv /\ EndShows
  BY <1>2, <1>3, <1>5 DEF WorldInv, EndsAsRecorded, EndShows
<1> QED BY <1>4, <1>6, <1>7, <1>8 DEF DataInv

LEMMA DataStep ==
  ASSUME IInv, DataInv, [Next]_vars
  PROVE  DataInv'
<1>1. IInv' /\ TypesInv'
  BY InvStep, TypesStep
<1>2. ASSUME ~failed'
      PROVE  /\ FreeInv' /\ GenInv' /\ WorldInv' /\ MoveInv' /\ ChangeInv' /\ RefInv' /\ FenceInv'
             /\ EndShows' /\ DrawShows' /\ MemoryKeeps'
  <2>1. ~failed /\ Kinds
    BY <1>1, <1>2, KindsAre
  <2> QED BY <1>1, <2>1, FreeStep, GenStep, WorldStep, MoveStep, ChangeStep, RefStep, FenceStep,
             EndStep, DrawStep
<1> QED BY <1>1, <1>2 DEF DataInv

LEMMA DataTypes ==
  ASSUME IInv, DataInv
  PROVE  TypeOK
<1>0. TypesInv
  BY DEF DataInv
<1>1. /\ mem \in [Blocks -> Contents \cup {NoBytes}] /\ addr \in [Resources -> Blocks \cup {NoBlock}]
      /\ locked \in [Resources -> SUBSET Parts] /\ live \subseteq Resources
      /\ \A d \in deferred : d[1] \in Blocks
  BY DEF IInv, MemoryInv, MemoryTypes
<1>2. /\ bound \subseteq live /\ lazy \in [Resources -> SUBSET Parts] /\ staged \subseteq Resources
      /\ sync \subseteq Resources
      /\ failed \in BOOLEAN /\ crashed \in BOOLEAN /\ stalled \in BOOLEAN /\ shown <= frames
  BY <1>0 DEF TypesInv, GuestTypes, MirrorTypes, CountTypes, IInv, ShapeInv
<1>3. ack \in [Slots -> -1..gen]
  BY <1>0 DEF TypesInv, MirrorTypes, CountTypes
<1>4. \A d \in deferred : d[2] <= produced
  BY <1>0 DEF TypesInv, CountTypes, IInv, CursorInv
<1>5. /\ 0 <= tail /\ published <= produced /\ produced <= tail + Size
      /\ ~failed => tail <= Consumed /\ Consumed <= published
  BY DEF IInv, CursorInv
<1> QED BY <1>1, <1>2, <1>3, <1>4, <1>5 DEF TypeOK

LEMMA DataAcks ==
  ASSUME IInv, DataInv
  PROVE  AckMeansUploaded
<1>0. TypesInv
  BY DEF DataInv
<1>1. ASSUME NEW r \in live, Recording(r), Acknowledged(r), ~rec[r].eager,
             NEW x \in Parts \ locked[r]
      PROVE  mirror[r].gpu[x] = Value(r, x)
  <2>1. ~failed /\ rec[r] # NoRec /\ r \in Resources /\ Alive(r, rec[r])
    BY <1>0, <1>1, TypesFacts DEF Recording, Alive
  <2>2. UsedOnce(r, rec[r].gen) /\ Uploads(r, rec[r])
    BY <2>1 DEF DataInv, GenInv
  <2>3. /\ Known(r) /\ mirror[r].gen = rec[r].gen /\ mirror[r].gpu # NoBytes
        /\ mirror[r].shadow = NoBytes => mirror[r].dirty = {}
    BY <1>1, <2>2 DEF Uploads, Acknowledged
  <2>4. \A q \in Way : ~Renews(q, r)
    BY <2>1, <2>2, <2>3 DEF UsedOnce
  <2>5. End \in (Consumed + 1)..End
    BY WayFacts DEF IInv
  <2>6. AsNow(Final(r), mirror[r])
    BY <1>0, <2>1, <2>4, <2>5, Still DEF Final
  <2>7. Final(r) # NoRec /\ Final(r).shadow = NoBytes
    BY <1>1, <2>1 DEF DataInv, WorldInv, EndsAsRecorded
  <2>8. Final(r).gpu = mirror[r].gpu /\ ~Stale(Final(r), x)
    BY <2>3, <2>6, <2>7 DEF AsNow, Stale
  <2>9. x \notin lazy[r]
    BY <1>0, <1>1, <2>1 DEF TypesInv, GuestTypes
  <2>10. Shows(Final(r), x) = Value(r, x)
    BY <1>1, <2>1, <2>9 DEF DataInv, EndShows
  <2> QED BY <2>8, <2>10 DEF Shows
<1> QED BY <1>1 DEF AckMeansUploaded, Value

----------------------------------------------------------------------------
(* The refinement of DrawQueue.  Wants gathers the pictures of the draws   *)
(* on their way: up to position p of the way from a to e, f[p].            *)
Gathers(f, a, e, C) ==
  /\ f[a] = <<>>
  /\ \A p \in a..(e - 1) :
       f[p + 1] = IF C[p].op = "DRAW" THEN Append(f[p], C[p].want) ELSE f[p]

LEMMA GathersTyped ==
  ASSUME NEW f, NEW a \in Int, NEW e \in Int, NEW C, Gathers(f, a, e, C),
         NEW T, \A p \in a..(e - 1) : C[p].op = "DRAW" => C[p].want \in T
  PROVE  \A p \in a..e : f[p] \in Seq(T)
<1> DEFINE Bad == {p \in a..e : f[p] \notin Seq(T)}
<1> SUFFICES ASSUME Bad # {} PROVE FALSE
  OBVIOUS
<1>1. PICK p \in Bad : \A y \in Bad : p <= y
  <2>1. \A x \in Bad : x \in Int /\ a <= x
    OBVIOUS
  <2> HIDE DEF Bad
  <2> QED BY <2>1, Least
<1>2. p \in a..e /\ f[p] \notin Seq(T) /\ p # a
  <2>1. <<>> \in Seq(T) /\ f[a] = <<>>
    BY DEF Gathers
  <2>2. p \in a..e /\ f[p] \notin Seq(T)
    OBVIOUS
  <2> HIDE DEF Bad
  <2> QED BY <2>1, <2>2
<1>3. p - 1 \in a..(e - 1) /\ (p - 1) + 1 = p /\ p - 1 \in a..e /\ ~(p <= p - 1)
  BY <1>2
<1>4. f[p - 1] \in Seq(T)
  BY <1>1, <1>3
<1>5. f[p] = IF C[p - 1].op = "DRAW" THEN Append(f[p - 1], C[p - 1].want) ELSE f[p - 1]
  BY <1>3 DEF Gathers
<1>6. C[p - 1].op = "DRAW" => Append(f[p - 1], C[p - 1].want) \in Seq(T)
  BY <1>3, <1>4
<1> QED BY <1>2, <1>4, <1>5, <1>6

(* The same commands give the same pictures.                               *)
LEMMA GathersAgree ==
  ASSUME NEW f, NEW g, NEW C, NEW D, NEW a \in Int, NEW e \in Int, NEW b \in Int, NEW d \in Int,
         b <= e, b <= d, Gathers(f, a, e, C), Gathers(g, a, d, D),
         \A p \in a..(b - 1) : C[p] = D[p]
  PROVE  \A p \in a..b : f[p] = g[p]
<1> DEFINE Bad == {p \in a..b : f[p] # g[p]}
<1> SUFFICES ASSUME Bad # {} PROVE FALSE
  OBVIOUS
<1>1. PICK p \in Bad : \A y \in Bad : p <= y
  <2>1. \A x \in Bad : x \in Int /\ a <= x
    OBVIOUS
  <2> HIDE DEF Bad
  <2> QED BY <2>1, Least
<1>2. p \in a..b /\ f[p] # g[p] /\ p # a
  BY DEF Gathers
<1>3. p - 1 \in a..(b - 1) /\ (p - 1) + 1 = p /\ p - 1 \in a..b /\ ~(p <= p - 1)
  BY <1>2
<1>4. f[p - 1] = g[p - 1]
  BY <1>1, <1>3
<1>5. p - 1 \in a..(e - 1) /\ p - 1 \in a..(d - 1)
  BY <1>3
<1>6. /\ f[p] = IF C[p - 1].op = "DRAW" THEN Append(f[p - 1], C[p - 1].want) ELSE f[p - 1]
      /\ g[p] = IF D[p - 1].op = "DRAW" THEN Append(g[p - 1], D[p - 1].want) ELSE g[p - 1]
  BY <1>3, <1>5 DEF Gathers
<1> QED BY <1>2, <1>3, <1>4, <1>6

(* Commands that draw nothing add none.                                    *)
LEMMA GathersNone ==
  ASSUME NEW f, NEW C, NEW a \in Int, NEW e \in Int, Gathers(f, a, e, C),
         NEW b \in a..e, NEW d \in a..e, \A p \in b..(d - 1) : C[p].op # "DRAW"
  PROVE  \A p \in b..d : f[p] = f[b]
<1> DEFINE Bad == {p \in b..d : f[p] # f[b]}
<1> SUFFICES ASSUME Bad # {} PROVE FALSE
  OBVIOUS
<1>1. PICK p \in Bad : \A y \in Bad : p <= y
  <2>1. \A x \in Bad : x \in Int /\ b <= x
    OBVIOUS
  <2> HIDE DEF Bad
  <2> QED BY <2>1, Least
<1>2. p \in b..d /\ f[p] # f[b] /\ p # b
  BY DEF Gathers
<1>3. p - 1 \in b..(d - 1) /\ (p - 1) + 1 = p /\ p - 1 \in b..d /\ ~(p <= p - 1)
  BY <1>2
<1>4. f[p - 1] = f[b]
  BY <1>1, <1>3
<1>5. p - 1 \in a..(e - 1)
  BY <1>3
<1>6. f[p] = f[p - 1]
  BY <1>3, <1>5 DEF Gathers
<1> QED BY <1>2, <1>4, <1>6

Behind(h, s) == h \o s
Grown(s, w) == Append(s, w)
DrawnBy(c) == IF c.op = "DRAW" THEN <<c.want>> ELSE <<>>

LEMMA GrownBehind ==
  ASSUME NEW T, NEW h \in Seq(T), NEW s \in Seq(T), NEW w \in T
  PROVE  Grown(Behind(h, s), w) = Behind(h, Grown(s, w))
<1>1. Append(h \o s, w) = h \o Append(s, w)
  OBVIOUS
<1> QED BY <1>1 DEF Grown, Behind

Pictured(a, e, C) == {C[p].want : p \in a..(e - 1)}

(* The first command's picture comes first.                                *)
LEMMA GathersFront ==
  ASSUME NEW f, NEW g, NEW C, NEW D, NEW a \in Int, NEW e \in Int, a < e,
         Gathers(f, a, e, C), NEW b, b = a + 1, Gathers(g, b, e, D),
         \A p \in b..(e - 1) : C[p] = D[p], NEW T, T = Pictured(a, e, C)
  PROVE  f[e] = Behind(DrawnBy(C[a]), g[e])
<1>11. \A p \in a..(e - 1) : C[p].want \in T
  BY DEF Pictured
<1>0. PICK h : h = DrawnBy(C[a])
  OBVIOUS
<1> DEFINE Bad == {p \in (a + 1)..e : f[p] # Behind(h, g[p])}
<1>1. h \in Seq(T)
  <2>1. C[a].want \in T
    BY <1>11
  <2> QED BY <1>0, <2>1 DEF DrawnBy
<1>2. \A p \in (a + 1)..e : g[p] \in Seq(T)
  <2>1. \A p \in (a + 1)..(e - 1) : D[p].op = "DRAW" => D[p].want \in T
    BY <1>11
  <2>2. b \in Int
    OBVIOUS
  <2> QED BY <2>1, <2>2, GathersTyped
<1> SUFFICES ASSUME Bad # {} PROVE FALSE
  <2>1. e \in (a + 1)..e
    OBVIOUS
  <2> QED BY <1>0, <2>1
<1>3. PICK p \in Bad : \A y \in Bad : p <= y
  <2>1. \A x \in Bad : x \in Int /\ a <= x
    OBVIOUS
  <2> HIDE DEF Bad
  <2> QED BY <2>1, Least
<1>4. p \in (a + 1)..e /\ f[p] # Behind(h, g[p])
  OBVIOUS
<1>5. p # a + 1
  <2>1. f[a + 1] = IF C[a].op = "DRAW" THEN Append(f[a], C[a].want) ELSE f[a]
    <3>1. a \in a..(e - 1)
      OBVIOUS
    <3> QED BY <3>1 DEF Gathers
  <2>2. f[a] = <<>> /\ g[a + 1] = <<>>
    BY DEF Gathers
  <2>3. Append(<<>>, C[a].want) = <<C[a].want>>
    OBVIOUS
  <2>4. f[a + 1] = h
    BY <1>0, <2>1, <2>2, <2>3 DEF DrawnBy
  <2>5. Behind(h, <<>>) = h
    BY <1>1 DEF Behind
  <2> QED BY <1>4, <2>2, <2>4, <2>5
<1>6. p - 1 \in (a + 1)..(e - 1) /\ (p - 1) + 1 = p /\ p - 1 \in (a + 1)..e /\ ~(p <= p - 1)
      /\ p - 1 \in a..(e - 1)
  BY <1>4, <1>5
<1>7. f[p - 1] = Behind(h, g[p - 1])
  BY <1>3, <1>6
<1>8. /\ f[p] = IF C[p - 1].op = "DRAW" THEN Grown(f[p - 1], C[p - 1].want) ELSE f[p - 1]
      /\ g[p] = IF D[p - 1].op = "DRAW" THEN Grown(g[p - 1], D[p - 1].want) ELSE g[p - 1]
      /\ C[p - 1] = D[p - 1]
  BY <1>6 DEF Gathers, Grown
<1>9. C[p - 1].want \in T /\ g[p - 1] \in Seq(T)
  BY <1>2, <1>6, <1>11
<1>10. Grown(Behind(h, g[p - 1]), C[p - 1].want) = Behind(h, Grown(g[p - 1], C[p - 1].want))
  BY <1>1, <1>9, GrownBehind
<1> QED BY <1>4, <1>7, <1>8, <1>10

(* Wants is what the commands on their way gather up to the end.           *)
WantsIn(s) ==
  LET wants[i \in 0..Len(s)] ==
        IF i = 0 THEN <<>>
        ELSE IF s[i].op = "DRAW" THEN Append(wants[i - 1], s[i].want) ELSE wants[i - 1]
  IN  wants[Len(s)]

IsWants(f, s, n) ==
  f = [i \in 0..n |-> IF i = 0 THEN <<>>
                      ELSE IF s[i].op = "DRAW" THEN Append(f[i - 1], s[i].want) ELSE f[i - 1]]

LEMMA WantsExist ==
  ASSUME NEW s, NEW m \in Nat
  PROVE  \E f : IsWants(f, s, m)
<1> DEFINE Bad == {n \in 0..m : ~(\E f : IsWants(f, s, n))}
<1> SUFFICES ASSUME Bad # {} PROVE FALSE
  <2>1. m \in 0..m
    OBVIOUS
  <2> QED BY <2>1
<1>1. PICK n \in Bad : \A y \in Bad : n <= y
  <2>1. \A x \in Bad : x \in Int /\ 0 <= x
    OBVIOUS
  <2>2. 0 \in Int
    OBVIOUS
  <2> HIDE DEF Bad
  <2> QED BY <2>1, <2>2, Least
<1>2. n # 0
  <2>1. IsWants([i \in 0..0 |-> <<>>], s, 0)
    BY DEF IsWants
  <2> QED BY <2>1
<1>3. n - 1 \in 0..m /\ n \in Int /\ n \in 0..m
  BY <1>2
<1>4. PICK f : IsWants(f, s, n - 1)
  BY <1>1, <1>3
<1> DEFINE v == IF s[n].op = "DRAW" THEN Append(f[n - 1], s[n].want) ELSE f[n - 1]
           g == [i \in 0..n |-> IF i = n THEN v ELSE f[i]]
<1>5. \A i \in 0..(n - 1) : g[i] = f[i]
  BY <1>3
<1>6. g[n] = v
  BY <1>3
<1>7. g = [i \in 0..n |-> g[i]]
  OBVIOUS
<1> HIDE DEF g
<1>8. ASSUME NEW i \in 0..n
      PROVE  g[i] = IF i = 0 THEN <<>>
                    ELSE IF s[i].op = "DRAW" THEN Append(g[i - 1], s[i].want) ELSE g[i - 1]
  <2>1. CASE i = n
    <3>1. g[n - 1] = f[n - 1]
      BY <1>2, <1>3, <1>5
    <3> QED BY <2>1, <1>2, <1>6, <3>1
  <2>2. CASE i \in 0..(n - 1)
    <3>1. f[i] = IF i = 0 THEN <<>>
                 ELSE IF s[i].op = "DRAW" THEN Append(f[i - 1], s[i].want) ELSE f[i - 1]
      BY <1>4, <2>2 DEF IsWants
    <3>2. i # 0 => i - 1 \in 0..(n - 1)
      BY <1>3, <2>2
    <3> QED BY <1>5, <2>2, <3>1, <3>2
  <2> QED BY <1>3, <2>1, <2>2
<1>9. IsWants(g, s, n)
  BY <1>7, <1>8 DEF IsWants
<1> QED BY <1>9

LEMMA WantsGathered ==
  ASSUME NEW s, NEW a \in Int, NEW C, Len(s) \in Nat,
         \A i \in 1..Len(s) : s[i] = C[a + i - 1]
  PROVE  \E G : Gathers(G, a, a + Len(s), C) /\ WantsIn(s) = G[a + Len(s)]
<1> DEFINE n == Len(s)
           f == CHOOSE x : IsWants(x, s, n)
           G == [p \in a..(a + n) |-> f[p - a]]
<1>1. WantsIn(s) = f[n]
  BY DEF WantsIn, IsWants
<1>2. IsWants(f, s, n)
  BY WantsExist
<1>3. a \in a..(a + n) /\ a + n \in a..(a + n) /\ a - a = 0 /\ (a + n) - a = n
  OBVIOUS
<1>4. \A p \in a..(a + n) : G[p] = f[p - a]
  OBVIOUS
<1> HIDE DEF f, G
<1>5. f[0] = <<>>
  BY <1>2 DEF IsWants
<1>6. ASSUME NEW p \in a..(a + n - 1)
      PROVE  G[p + 1] = IF C[p].op = "DRAW" THEN Append(G[p], C[p].want) ELSE G[p]
  <2>1. PICK i \in 1..n : i = p - a + 1
    OBVIOUS
  <2>2. f[i] = IF s[i].op = "DRAW" THEN Append(f[i - 1], s[i].want) ELSE f[i - 1]
    <3>1. \A j \in 0..n : f[j] = IF j = 0 THEN <<>>
                           ELSE IF s[j].op = "DRAW" THEN Append(f[j - 1], s[j].want) ELSE f[j - 1]
      BY <1>2 DEF IsWants
    <3>2. i \in 0..n /\ i # 0
      OBVIOUS
    <3> QED BY <3>1, <3>2
  <2>3. s[i] = C[p]
    BY <2>1
  <2>4. G[p + 1] = f[i] /\ G[p] = f[i - 1]
    BY <1>4, <2>1
  <2> QED BY <2>2, <2>3, <2>4
<1>7. Gathers(G, a, a + n, C)
  BY <1>3, <1>4, <1>5, <1>6 DEF Gathers
<1> QED BY <1>1, <1>3, <1>4, <1>7

LEMMA WantsAre ==
  ASSUME ShapeInv, CursorInv
  PROVE  \E G : Gathers(G, First, End, Cmd) /\ Wants = G[End]
<1> DEFINE s == ring \o todo
<1>0. IsSequence(ring) /\ IsSequence(todo)
  BY DEF ShapeInv, CursorInv
<1>1. /\ Len(s) = Len(ring) + Len(todo) /\ Len(ring) \in Nat /\ Len(todo) \in Nat
      /\ \A i \in 1..Len(s) : s[i] = IF i <= Len(ring) THEN ring[i] ELSE todo[i - Len(ring)]
  BY <1>0, ConcatSequence
<1>2. Wants = WantsIn(s)
  BY DEF Wants, WantsIn
<1> HIDE DEF s
<1>3. /\ First \in Int /\ produced \in Nat /\ End = First + Len(s)
      /\ Len(s) \in Nat /\ Consumed = produced - Len(ring) /\ First = Consumed + 1 /\ Way = First..(End - 1)
  BY <1>1, WayFacts DEF First, End
<1>4. ASSUME NEW i \in 1..Len(s)
      PROVE  s[i] = Cmd[First + i - 1]
  <2>1. PICK p \in Way : p = First + i - 1
    <3>1. First + i - 1 \in First..(End - 1)
      BY <1>3
    <3> QED BY <1>3, <3>1
  <2>2. Cmd[p] = IF p <= produced THEN ring[p - Consumed] ELSE todo[p - produced]
    BY WayFacts
  <2>3. p - Consumed = i /\ (p <= produced <=> i <= Len(ring)) /\ p - produced = i - Len(ring)
    BY <1>1, <1>3, <2>1
  <2> QED BY <1>1, <2>1, <2>2, <2>3
<1> QED BY ZenonT(60), <1>2, <1>3, <1>4, WantsGathered

LEMMA WantsAreNext ==
  ASSUME ShapeInv', CursorInv'
  PROVE  \E G : Gathers(G, First', End', Cmd') /\ Wants' = G[End']
<1>0. IsSequence(ring') /\ IsSequence(todo')
  BY DEF ShapeInv, CursorInv
<1>1. PICK s : s = ring' \o todo'
  OBVIOUS
<1>2. Wants' = WantsIn(s)
  BY <1>1 DEF Wants, WantsIn
<1>3. /\ Len(s) = Len(ring') + Len(todo') /\ Len(ring') \in Nat /\ Len(todo') \in Nat
      /\ \A i \in 1..Len(s) : s[i] = IF i <= Len(ring') THEN ring'[i] ELSE todo'[i - Len(ring')]
  BY <1>0, <1>1, ConcatSequence
<1>4. PICK m \in Nat, l \in Nat, k \in Nat : m = Len(ring') /\ l = Len(todo') /\ k = produced'
  BY <1>3 DEF CursorInv
<1>5. /\ Len(s) = m + l
      /\ \A i \in 1..(m + l) : s[i] = IF i <= m THEN ring'[i] ELSE todo'[i - m]
  BY <1>3, <1>4
<1>6. First' = k - m + 1 /\ End' = k + l + 1 /\ Consumed' = k - m /\ Way' = (k - m + 1)..(k + l)
  BY <1>4 DEF Consumed, First, End, Way
<1>7. PICK a \in Int : a = k - m + 1
  OBVIOUS
<1>8. ASSUME NEW i \in 1..(m + l)
      PROVE  s[i] = Cmd'[a + i - 1]
  <2>1. PICK p \in Int : p = a + i - 1
    OBVIOUS
  <2>2. p \in (k - m + 1)..(k + l) /\ p - (k - m) = i /\ (p <= k <=> i <= m) /\ p - k = i - m
    BY <1>7, <2>1
  <2>3. Cmd'[p] = IF p <= produced' THEN ring'[p - Consumed'] ELSE todo'[p - produced']
    BY <1>6, <2>2 DEF Cmd
  <2> QED BY <1>4, <1>5, <1>6, <2>1, <2>2, <2>3
<1>9. \E G : Gathers(G, a, a + Len(s), Cmd') /\ WantsIn(s) = G[a + Len(s)]
  <2>1. Len(s) \in Nat
    BY <1>5
  <2> QED BY <1>5, <1>8, <2>1, WantsGathered
<1>10. a = First' /\ a + Len(s) = End'
  BY <1>5, <1>6, <1>7
<1> QED BY <1>2, <1>9, <1>10

(* Nothing new is drawn: commands put, released or added.                  *)
LEMMA WantsSteady ==
  ASSUME IInv, IInv', Steady
  PROVE  Wants' = Wants
<1>1. First \in Int /\ End \in Int /\ First <= End
  BY WayFacts DEF IInv, First
<1>2. First' = First /\ End' = End /\ Cmd' = Cmd
  BY DEF Steady, First
<1>3. PICK G : Gathers(G, First, End, Cmd) /\ Wants = G[End]
  BY WantsAre DEF IInv
<1>4. PICK H : Gathers(H, First, End, Cmd) /\ Wants' = H[End]
  BY <1>2, WantsAreNext DEF IInv
<1>5. \A p \in First..End : G[p] = H[p]
  BY <1>1, <1>3, <1>4, GathersAgree
<1> QED BY <1>1, <1>3, <1>4, <1>5

LEMMA WantsFreed ==
  ASSUME IInv, IInv', Freed
  PROVE  Wants' = Wants
<1>1. First \in Int /\ End \in Int /\ Way = First..(End - 1) /\ First' = First
  BY WayFacts DEF IInv, First, Freed
<1>2. PICK e \in Int : e = End'
  BY DEF Freed
<1>3. e = End - 1 /\ e \in Way /\ First <= e /\ Cmd[e].op = "FREE" /\ Way' = Way \ {e}
  BY <1>2 DEF Freed, First
<1>4. \A p \in First..(e - 1) : Cmd'[p] = Cmd[p]
  <2>1. ASSUME NEW p \in First..(e - 1)
        PROVE  p \in Way'
    BY <1>1, <1>3
  <2> QED BY <2>1 DEF Freed
<1>5. PICK G : Gathers(G, First, End, Cmd) /\ Wants = G[End]
  BY WantsAre DEF IInv
<1>6. PICK H : Gathers(H, First, e, Cmd') /\ Wants' = H[e]
  BY <1>1, <1>2, WantsAreNext DEF IInv
<1>7. G[e] = H[e]
  <2>1. e <= End /\ e \in First..e
    BY <1>1, <1>3
  <2>2. \A p \in First..e : G[p] = H[p]
    BY <1>1, <1>4, <1>5, <1>6, <2>1, GathersAgree
  <2> QED BY <2>1, <2>2
<1>8. G[e + 1] = G[e] /\ e + 1 = End
  <2>1. e \in First..(End - 1)
    BY <1>1, <1>3
  <2>2. G[e + 1] = IF Cmd[e].op = "DRAW" THEN Append(G[e], Cmd[e].want) ELSE G[e]
    BY <1>5, <2>1 DEF Gathers
  <2> QED BY <1>1, <1>3, <2>2
<1> QED BY <1>5, <1>6, <1>7, <1>8

(* What the commands added to those on their way gather                    *)
LEMMA WantsLonger ==
  ASSUME IInv, IInv', Longer
  PROVE  \E H : Gathers(H, First, End', Cmd') /\ Wants' = H[End'] /\ Wants = H[End]
<1>1. First \in Int /\ End \in Int /\ First <= End /\ Way = First..(End - 1) /\ First' = First
  BY WayFacts DEF IInv, First, Longer
<1>2. PICK e \in Int : e = End'
  BY DEF Longer
<1>3. End <= e
  BY <1>2 DEF Longer
<1>4. \A p \in First..(End - 1) : Cmd'[p] = Cmd[p]
  BY <1>1 DEF Longer
<1>5. PICK G : Gathers(G, First, End, Cmd) /\ Wants = G[End]
  BY WantsAre DEF IInv
<1>6. PICK H : Gathers(H, First, e, Cmd') /\ Wants' = H[e]
  BY <1>1, <1>2, WantsAreNext DEF IInv
<1>7. \A p \in First..End : G[p] = H[p]
  BY <1>1, <1>3, <1>4, <1>5, <1>6, GathersAgree
<1> QED BY <1>1, <1>2, <1>5, <1>6, <1>7

LEMMA WantsNone ==
  ASSUME IInv, IInv', Longer, \A p \in Way' : p \notin Way => Cmd'[p].op # "DRAW"
  PROVE  Wants' = Wants
<1>1. First \in Int /\ End \in Int /\ First <= End
  BY WayFacts DEF IInv, First
<1>2. PICK e \in Int : e = End'
  BY DEF Longer
<1>3. PICK H : Gathers(H, First, e, Cmd') /\ Wants' = H[e] /\ Wants = H[End]
  BY <1>2, WantsLonger
<1>4. End <= e /\ \A p \in End..(e - 1) : Cmd'[p].op # "DRAW"
  BY <1>2 DEF Longer
<1>5. End \in First..e /\ e \in First..e /\ e \in End..e
  BY <1>1, <1>4
<1>6. \A p \in End..e : H[p] = H[End]
  BY <1>1, <1>3, <1>4, <1>5, GathersNone
<1> QED BY <1>3, <1>5, <1>6

(* A draw is the last of the commands its call adds.                       *)
LEMMA WantsDrawn ==
  ASSUME IInv, IInv', Longer, NEW l \in Int, End <= l, End' = l + 1, Cmd'[l].op = "DRAW",
         \A p \in End..(l - 1) : Cmd'[p].op # "DRAW"
  PROVE  Wants' = Append(Wants, Cmd'[l].want)
<1>1. First \in Int /\ End \in Int /\ First <= End
  BY WayFacts DEF IInv, First
<1>2. PICK e \in Int : e = l + 1
  OBVIOUS
<1>3. PICK H : Gathers(H, First, e, Cmd') /\ Wants' = H[e] /\ Wants = H[End]
  BY <1>2, WantsLonger
<1>4. End \in First..e /\ l \in First..e /\ l \in End..l /\ l \in First..(e - 1)
  BY <1>1, <1>2
<1>5. \A p \in End..l : H[p] = H[End]
  BY <1>1, <1>3, <1>4, GathersNone
<1>6. H[l + 1] = IF Cmd'[l].op = "DRAW" THEN Append(H[l], Cmd'[l].want) ELSE H[l]
  BY <1>3, <1>4 DEF Gathers
<1> QED BY <1>2, <1>3, <1>4, <1>5, <1>6

LEMMA FrontOf ==
  ASSUME NEW S, NEW t \in Seq(S), NEW w \in S
  PROVE  /\ Behind(<<>>, t) = t
         /\ Behind(<<w>>, t) # <<>> /\ Head(Behind(<<w>>, t)) = w /\ Tail(Behind(<<w>>, t)) = t
<1>1. <<>> \o t = t
  OBVIOUS
<1>2. Len(<<w>> \o t) = Len(t) + 1 /\ <<w>> \o t \in Seq(S) /\ (<<w>> \o t)[1] = w
  OBVIOUS
<1>3. Tail(<<w>> \o t) = t
  OBVIOUS
<1> QED BY <1>1, <1>2, <1>3 DEF Behind

(* The first command is replayed.                                          *)
LEMMA WantsReplayed ==
  ASSUME IInv, IInv', ReplayLeaves
  PROVE  /\ Cmd[First].op # "DRAW" => Wants' = Wants
         /\ Cmd[First].op = "DRAW" =>
              Wants # <<>> /\ Head(Wants) = Cmd[First].want /\ Wants' = Tail(Wants)
<1>1. First \in Int /\ End \in Int /\ Way = First..(End - 1) /\ First \in Way
  BY WayFacts DEF IInv, First, ReplayLeaves
<1>2. PICK f \in Int : f = First
  BY <1>1
<1>3. First' = f + 1 /\ End' = End /\ f < End /\ Way' = Way \ {f}
  BY <1>1, <1>2 DEF ReplayLeaves
<1>4. \A p \in (f + 1)..(End - 1) : Cmd[p] = Cmd'[p]
  <2>1. ASSUME NEW p \in (f + 1)..(End - 1)
        PROVE  p \in Way'
    BY <1>1, <1>2, <1>3
  <2> QED BY <2>1 DEF ReplayLeaves
<1>5. PICK G : Gathers(G, f, End, Cmd) /\ Wants = G[End]
  BY <1>2, WantsAre DEF IInv
<1>6. PICK H : Gathers(H, f + 1, End, Cmd') /\ Wants' = H[End]
  BY <1>3, WantsAreNext DEF IInv
<1> DEFINE T == Pictured(f, End, Cmd)
<1>7. \A p \in f..(End - 1) : Cmd[p].want \in T
  BY DEF Pictured
<1>8. Cmd[f].want \in T
  <2>1. f \in f..(End - 1)
    BY <1>1, <1>3
  <2> HIDE DEF T
  <2> QED BY <1>7, <2>1
<1> HIDE DEF T
<1>9. PICK S : S = T
  OBVIOUS
<1>10. G[End] = Behind(DrawnBy(Cmd[f]), H[End])
  <2>1. PICK e \in Int : e = End
    BY <1>1
  <2>2. S = Pictured(f, e, Cmd)
    BY <1>9, <2>1 DEF T
  <2>3. PICK b \in Int : b = f + 1
    OBVIOUS
  <2>4. Gathers(G, f, e, Cmd) /\ Gathers(H, b, e, Cmd') /\ f < e
    BY <1>3, <1>5, <1>6, <2>1, <2>3
  <2>5. \A p \in b..(e - 1) : Cmd[p] = Cmd'[p]
    BY <1>4, <2>1, <2>3
  <2>6. G[e] = Behind(DrawnBy(Cmd[f]), H[e])
    BY <2>2, <2>3, <2>4, <2>5, GathersFront
  <2> QED BY <2>1, <2>6
<1>11. H[End] \in Seq(S)
  <2>1. \A p \in (f + 1)..(End - 1) : Cmd'[p].op = "DRAW" => Cmd'[p].want \in S
    BY <1>1, <1>4, <1>7, <1>9
  <2>2. PICK b \in Int : b = f + 1
    OBVIOUS
  <2>3. \A p \in b..End : H[p] \in Seq(S)
    BY <1>1, <1>6, <2>1, <2>2, GathersTyped
  <2>4. End \in b..End
    BY <1>1, <1>3, <2>2
  <2> QED BY <2>3, <2>4
<1>12. PICK t \in Seq(S) : t = H[End]
  BY <1>11
<1>13. PICK w \in S : w = Cmd[f].want
  BY <1>8, <1>9
<1>14. /\ Behind(<<>>, t) = t
       /\ Behind(<<w>>, t) # <<>> /\ Head(Behind(<<w>>, t)) = w /\ Tail(Behind(<<w>>, t)) = t
  BY FrontOf
<1>15. CASE Cmd[f].op = "DRAW"
  <2>1. DrawnBy(Cmd[f]) = <<w>>
    BY <1>13, <1>15 DEF DrawnBy
  <2>2. G[End] = Behind(<<w>>, t)
    BY <1>10, <1>12, <2>1
  <2> QED BY <1>2, <1>5, <1>6, <1>12, <1>13, <1>14, <1>15, <2>2
<1>16. CASE Cmd[f].op # "DRAW"
  <2>1. DrawnBy(Cmd[f]) = <<>>
    BY <1>16 DEF DrawnBy
  <2>2. G[End] = Behind(<<>>, t)
    BY <1>10, <1>12, <2>1
  <2> QED BY <1>2, <1>5, <1>6, <1>12, <1>14, <1>16, <2>2
<1> QED BY <1>15, <1>16

(* No draw on its way                                                      *)
LEMMA WantsEmpty ==
  ASSUME IInv, \A p \in Way : Cmd[p].op # "DRAW"
  PROVE  Wants = <<>>
<1>1. First \in Int /\ End \in Int /\ First <= End /\ Way = First..(End - 1)
  BY WayFacts DEF IInv, First
<1>2. PICK G : Gathers(G, First, End, Cmd) /\ Wants = G[End]
  BY WantsAre DEF IInv
<1>3. First \in First..End /\ End \in First..End
  BY <1>1
<1>4. \A p \in First..End : G[p] = G[First]
  BY <1>1, <1>2, <1>3, GathersNone
<1>5. G[First] = <<>>
  BY <1>2 DEF Gathers
<1> QED BY <1>2, <1>3, <1>4, <1>5

LEMMA WantsEmptyNext ==
  ASSUME IInv', \A p \in Way' : Cmd'[p].op # "DRAW"
  PROVE  Wants' = <<>>
<1>1. Len(ring') \in Nat /\ Len(todo') \in Nat /\ produced' \in Nat
  BY LengthsNext DEF IInv
<1>2. PICK m \in Nat, l \in Nat, k \in Nat : m = Len(ring') /\ l = Len(todo') /\ k = produced'
  BY <1>1
<1>3. First' = k - m + 1 /\ End' = k + l + 1 /\ Way' = (k - m + 1)..(k + l)
  BY <1>2 DEF Consumed, First, End, Way
<1>4. PICK a \in Int, e \in Int : a = First' /\ e = End' /\ a <= e /\ Way' = a..(e - 1)
  BY <1>3
<1>5. PICK G : Gathers(G, a, e, Cmd') /\ Wants' = G[e]
  BY <1>4, WantsAreNext DEF IInv
<1>6. a \in a..e /\ e \in a..e
  BY <1>4
<1>7. \A p \in a..e : G[p] = G[a]
  <2>1. PICK C : C = Cmd'
    OBVIOUS
  <2>2. Gathers(G, a, e, C) /\ \A p \in a..(e - 1) : C[p].op # "DRAW"
    BY <1>4, <1>5, <2>1
  <2>3. ASSUME NEW b \in a..e, NEW d \in a..e, \A p \in b..(d - 1) : C[p].op # "DRAW"
        PROVE  \A p \in b..d : G[p] = G[b]
    BY <2>2, <2>3, GathersNone
  <2> QED BY <1>6, <2>2, <2>3
<1>8. G[a] = <<>>
  BY <1>5 DEF Gathers
<1> QED BY <1>5, <1>6, <1>7, <1>8

LEMMA WantsSequence ==
  ASSUME IInv
  PROVE  IsSequence(Wants)
<1>1. First \in Int /\ End \in Int /\ First <= End
  BY WayFacts DEF IInv, First
<1>2. PICK G : Gathers(G, First, End, Cmd) /\ Wants = G[End]
  BY WantsAre DEF IInv
<1>3. PICK T : T = Pictured(First, End, Cmd)
  OBVIOUS
<1>4. \A p \in First..(End - 1) : Cmd[p].op = "DRAW" => Cmd[p].want \in T
  BY <1>3 DEF Pictured
<1>5. G[End] \in Seq(T)
  <2>1. \A p \in First..End : G[p] \in Seq(T)
    BY <1>1, <1>2, <1>4, GathersTyped
  <2>2. End \in First..End
    BY <1>1
  <2> QED BY <2>1, <2>2
<1> QED BY <1>2, <1>5, SequenceOfSet

(* Only the replay of a draw changes the picture.                          *)
LEMMA PictureKept ==
  ASSUME [Next]_vars, ~ReplayDraw
  PROVE  picture' = picture
<1>1. CASE UNCHANGED vars
  BY <1>1 DEF vars, workerVars
<1>2. ASSUME NEW r \in Resources, GuestCall(r)
      PROVE  picture' = picture
  BY <1>2 DEF GuestCall, Create, LockCopied, LockFenced, LockFree, LockBuffer, StartFence, Write,
              Unlock, Destroy, Bind, workerVars
<1>3. CASE EmulatorStep
  <2>1. CASE \E use \in [bound -> SUBSET Parts], all \in BOOLEAN : Draw(use, all)
    BY <2>1 DEF Draw, workerVars
  <2>2. CASE Present \/ AfterSlice \/ EndFence \/ Free \/ EndFrame \/ RingFull
    BY <2>2 DEF Present, AfterSlice, EndFence, Free, EndFrame, RingFull, workerVars
  <2>3. CASE PutState \/ PutDraw \/ PutPresent
    BY <2>3 DEF PutState, PutDraw, PutPresent, PutNext, workerVars
  <2>4. CASE Fail \/ WorkerError
    BY <2>4 DEF Fail, WorkerError, GiveUp
  <2> QED BY <1>3, <2>1, <2>2, <2>3, <2>4 DEF EmulatorStep
<1>4. CASE Replay
  BY <1>4 DEF Replay, ReplayBind, ReplayUnbind, ReplayMemory, ReplayDirty, ReplayData,
              ReplayDestroy, ReplayPresent
<1>5. CASE PublishTail \/ Stall
  BY <1>5 DEF PublishTail, Stall
<1> QED BY <1>1, <1>2, <1>3, <1>4, <1>5 DEF Next

(* Once the worker is given up, nothing but a release is on its way.       *)
LostInv == failed => ring = <<>> /\ \A i \in 1..Len(todo) : todo[i].op = "FREE"

LEMMA LostEmpty == \A i \in 1..Len(<<>>) : <<>>[i].op = "FREE"
  BY EmptyIsSequence

LEMMA LostInit ==
  ASSUME Init
  PROVE  LostInv
  BY DEF Init, LostInv

LEMMA LostStep ==
  ASSUME IInv, LostInv, [Next]_vars
  PROVE  LostInv'
<1>1. CASE GiveUp
  <2>1. ring' = <<>>
    BY <1>1 DEF GiveUp
  <2>2. CASE todo # <<>> /\ Last(todo).op = "FREE"
    <3>1. todo' = <<Last(todo)>>
      BY <1>1, <2>2 DEF GiveUp
    <3>2. PICK c : c = Last(todo)
      OBVIOUS
    <3>3. Len(<<c>>) = 1 /\ <<c>>[1] = c
      BY OneIsSequence
    <3> QED BY <2>1, <2>2, <3>1, <3>2, <3>3 DEF LostInv
  <2>3. CASE ~(todo # <<>> /\ Last(todo).op = "FREE")
    <3>1. todo' = <<>>
      BY <1>1, <2>3 DEF GiveUp
    <3> QED BY <2>1, <3>1, LostEmpty DEF LostInv
  <2> QED BY <2>2, <2>3
<1> SUFFICES ASSUME ~GiveUp, failed' PROVE LostInv'
  BY <1>1 DEF LostInv
<1>2. CASE UNCHANGED vars
  BY <1>2 DEF vars, emulatorVars, LostInv
<1>3. ASSUME NEW r \in Resources, GuestCall(r)
      PROVE  LostInv'
  <2>1. UNCHANGED <<ring, failed>>
    BY <1>3 DEF GuestCall, Create, LockCopied, LockFenced, LockFree, LockBuffer, StartFence, Write,
                Unlock, Destroy, Bind, emulatorVars
  <2>2. todo' = todo \/ todo' = <<>>
    <3>1. ~Recording(r)
      BY <2>1 DEF Recording
    <3>2. CASE Create(r) \/ LockFenced(r) \/ Bind(r)
      BY <3>2 DEF Create, LockFenced, StartFence, Bind, emulatorVars
    <3>3. CASE \E S \in (SUBSET Parts) \ {{}}, b \in BOOLEAN : LockBuffer(r, S, b)
      BY <3>3 DEF LockBuffer, StartFence, emulatorVars
    <3>4. CASE \E x \in Parts : Write(r, x)
      BY <3>4 DEF Write, emulatorVars
    <3>5. ~LockCopied(r)
      BY <3>1 DEF LockCopied, InUse
    <3>6. CASE LockFree(r)
      BY <3>1, <3>6 DEF LockFree, GiveMemory, Call
    <3>7. CASE Unlock(r) \/ Destroy(r)
      BY <3>1, <3>7 DEF Unlock, Destroy
    <3> QED BY <1>3, <3>2, <3>3, <3>4, <3>5, <3>6, <3>7 DEF GuestCall
  <2> QED BY <2>1, <2>2, LostEmpty DEF LostInv
<1>4. CASE EmulatorStep
  <2>1. CASE AfterSlice \/ EndFrame \/ RingFull
    BY <2>1 DEF AfterSlice, EndFrame, RingFull, LostInv
  <2>2. CASE EndFence
    BY <2>2 DEF EndFence, LostInv
  <2>3. CASE Free
    <3>1. UNCHANGED <<ring, failed>> /\ todo' = Tail(todo) /\ todo # <<>>
      BY <2>3 DEF Free, Freeing
    <3>2. /\ Len(todo) \in Nat \ {0} /\ Len(Tail(todo)) = Len(todo) - 1
          /\ \A i \in 1..Len(Tail(todo)) : Tail(todo)[i] = todo[i + 1]
      BY <3>1, TailSequence DEF IInv, ShapeInv
    <3>3. \A i \in 1..Len(todo') : todo'[i].op = "FREE"
      <4> TAKE i \in 1..Len(todo')
      <4>1. i + 1 \in 1..Len(todo) /\ todo'[i] = todo[i + 1]
        BY <3>1, <3>2
      <4> QED BY <3>1, <4>1 DEF LostInv
    <3> QED BY <3>1, <3>3 DEF LostInv
  <2>4. ~(\E use, all : Draw(use, all)) /\ ~Present /\ ~PutState /\ ~PutDraw /\ ~PutPresent
    BY DEF Draw, Present, CanRecord, PutState, PutDraw, PutPresent, PutNext
  <2>5. ~Fail /\ ~WorkerError
    BY DEF Fail, WorkerError
  <2> QED BY <1>4, <2>1, <2>2, <2>3, <2>4, <2>5 DEF EmulatorStep
<1>5. CASE Replay
  <2>1. \E op : Replaying(op)
    BY <1>5 DEF Replay, ReplayBind, ReplayUnbind, ReplayMemory, ReplayDirty, ReplayData,
                ReplayDestroy, ReplayDraw, ReplayPresent
  <2>2. ~failed /\ failed' = failed
    BY <2>1, ReplayLives DEF Replaying, emulatorVars
  <2> QED BY <2>2
<1>6. CASE PublishTail \/ Stall
  BY <1>6 DEF PublishTail, Stall, emulatorVars, LostInv
<1> QED BY <1>2, <1>3, <1>4, <1>5, <1>6 DEF Next

LEMMA LostWants ==
  ASSUME IInv, LostInv, failed
  PROVE  Wants = <<>>
<1>1. Len(ring) = 0
  BY EmptyIsSequence DEF LostInv
<1>2. \A p \in Way : Cmd[p].op # "DRAW"
  <2> TAKE p \in Way
  <2>1. /\ produced \in Nat /\ Len(todo) \in Nat /\ p \in (produced + 1)..(produced + Len(todo))
        /\ p \in Int /\ Cmd[p] = IF p <= produced THEN ring[p - Consumed] ELSE todo[p - produced]
    BY <1>1, WayFacts DEF IInv, Way, Consumed
  <2>2. p - produced \in 1..Len(todo) /\ ~(p <= produced)
    BY <2>1
  <2> QED BY <2>1, <2>2 DEF LostInv
<1> QED BY <1>2, WantsEmpty

LEMMA LostWantsNext ==
  ASSUME IInv', LostInv', failed'
  PROVE  Wants' = <<>>
<1>1. Len(ring') = 0
  BY EmptyIsSequence DEF LostInv
<1>2. PICK k \in Nat, l \in Nat : k = produced' /\ l = Len(todo')
  <2>1. Len(todo') \in Nat /\ produced' \in Nat
    BY DEF IInv, ShapeInv, CursorInv, IsSequence
  <2> QED BY <2>1
<1>3. Way' = (k + 1)..(k + l) /\ \A p \in Way' : Cmd'[p] = IF p <= k THEN ring'[p - Consumed'] ELSE todo'[p - k]
  BY <1>1, <1>2 DEF Way, Consumed, Cmd
<1>4. \A p \in Way' : Cmd'[p].op # "DRAW"
  <2> TAKE p \in Way'
  <2>1. p \in (k + 1)..(k + l)
    BY <1>3
  <2>2. p - k \in 1..l /\ ~(p <= k)
    BY <2>1
  <2>3. Cmd'[p] = todo'[p - k]
    BY <1>3, <2>2
  <2> QED BY <1>2, <2>2, <2>3 DEF LostInv
<1> QED BY <1>4, WantsEmptyNext

(* The picture a draw has when it is issued                                *)
LEMMA SeenPictures ==
  ASSUME NEW use, NEW g, NEW n, CommandOK(DrawCommand(use), g, n)
  PROVE  Seen(use) \in Pictures
<1> DEFINE c == DrawCommand(use)
           V == UNION {[u -> 0..1] : u \in SUBSET Parts}
<1>1. c.op = "DRAW" /\ c.use = use /\ c.want = Seen(use)
  BY DEF DrawCommand
<1>2. /\ DOMAIN use \subseteq Resources /\ Seen(use) = [r \in DOMAIN use |-> Seen(use)[r]]
      /\ \A r \in DOMAIN use : use[r] \subseteq Parts /\ Seen(use)[r] \in [use[r] -> 0..1]
  BY <1>1 DEF CommandOK
<1>3. \A r \in DOMAIN use : Seen(use)[r] \in V
  BY <1>2
<1>4. Seen(use) \in [DOMAIN use -> V]
  <2> HIDE DEF V
  <2> QED BY <1>2, <1>3
<1> HIDE DEF V
<1>5. DOMAIN use \in SUBSET Resources
  BY <1>2
<1> QED BY <1>4, <1>5 DEF Pictures, V

LEMMA IssueStep ==
  ASSUME IInv, IInv', DataInv, TypesInv', ~failed, failed' = failed, picture' = picture,
         NEW use, NEW all, DrawsNow(use, all)
  PROVE  Queue!Issue
<1>0. TypesInv
  BY DEF DataInv
<1>1. /\ use \in Uses /\ Longer /\ Sends(Datas(use, all)) /\ DrawCommand(use).op = "DRAW"
      /\ \E l \in Int : Listed(Unbinds \cup Binds \cup Datas(use, all), DrawCommand(use), l)
  BY DrawsListed
<1>2. PICK l \in Int : Listed(Unbinds \cup Binds \cup Datas(use, all), DrawCommand(use), l)
  BY <1>1
<1>3. End \in Int /\ End <= l /\ End' = l + 1 /\ Cmd'[l] = DrawCommand(use)
  BY <1>2 DEF Listed
<1>4. \A p \in End..(l - 1) : Cmd'[p].op # "DRAW"
  <2> TAKE p \in End..(l - 1)
  <2>1. PICK X : X = Datas(use, all)
    OBVIOUS
  <2>2. Cmd'[p] \in Unbinds \cup Binds \cup X
    BY <1>2, <2>1 DEF Listed
  <2>3. Sends(X)
    BY <1>1, <2>1
  <2>4. CASE Cmd'[p] \in X
    BY <2>3, <2>4 DEF Sends
  <2>5. CASE Cmd'[p] \in Unbinds \cup Binds
    <3>1. \A n : CommandOK(Cmd'[p], gen + Cardinality(Fresh), n) /\ Cmd'[p].op \in {"UNBIND", "BIND"}
      BY <1>0, <2>5, BatchOK
    <3> QED BY <3>1
  <2> QED BY <2>2, <2>4, <2>5
<1>5. PICK w : w = Seen(use)
  OBVIOUS
<1>6. Wants' = Append(Wants, w)
  <2>1. Cmd'[l].op = "DRAW" /\ Cmd'[l].want = w
    BY <1>3, <1>5 DEF DrawCommand
  <2>2. Wants' = Append(Wants, Cmd'[l].want)
    BY <1>1, <1>3, <1>4, <2>1, WantsDrawn
  <2> QED BY <2>1, <2>2
<1>7. w \in Pictures
  <2>1. \A g, n : CommandOK(DrawCommand(use), g, n)
    BY <1>0, <1>1, DrawOK
  <2> QED BY <1>5, <2>1, SeenPictures
<1>8. PICK s : s = Wants
  OBVIOUS
<1>9. IsSequence(s)
  BY <1>8, WantsSequence
<1>10. Len(Append(s, w)) = Len(s) + 1 /\ Append(s, w)[Len(s) + 1] = w
  BY <1>9, AppendSequence
<1>11. PICK t : t = Wants'
  OBVIOUS
<1>12. t = Append(s, w)
  BY <1>6, <1>8, <1>11
<1>13. Len(t) = Len(s) + 1 /\ t[Len(t)] = w
  BY <1>10, <1>12
<1>14. t = Append(s, t[Len(t)])
  BY <1>12, <1>13
<1> QED BY <1>7, <1>8, <1>11, <1>13, <1>14 DEF Queue!Issue

(* A draw replayed shows what it was issued with.                          *)
LEMMA ReplayShows ==
  ASSUME IInv, IInv', DataInv, ~failed, ReplayDraw
  PROVE  picture' = Cmd[First].want
<1>0. TypesInv /\ WorldInv /\ DrawShows
  BY DEF DataInv
<1>1. /\ First \in Way /\ Cmd[First].op = "DRAW" /\ Cmd[First] = Head(ring)
      /\ \A r \in Resources : At(First, r) = mirror[r]
      /\ \A r \in Resources : mirror'[r] = IF r \in ReadNow THEN Uploaded(mirror[r]) ELSE mirror[r]
      /\ \A r \in ReadNow : mirror[r] \in MirrorRecords
  BY DrawnStart DEF ReplayLeaves
<1>2. PICK c : c = Cmd[First]
  OBVIOUS
<1>3. /\ DOMAIN c.use \subseteq Resources /\ c.want = [r \in DOMAIN c.use |-> c.want[r]]
      /\ \A r \in DOMAIN c.use : c.use[r] \subseteq Parts /\ c.want[r] \in [c.use[r] -> 0..1]
  <2>1. CommandOK(c, gen, lastWorkEnd) /\ c.op = "DRAW"
    BY <1>0, <1>1, <1>2 DEF TypesInv, CommandTypes
  <2> QED BY <2>1 DEF CommandOK
<1>4. staged = DOMAIN c.use
  <2>1. StagedAt(First) = DOMAIN c.use
    BY <1>0, <1>1, <1>2 DEF WorldInv, Finds
  <2>2. StagedAt(First) = staged
    BY AheadFacts DEF IInv, First
  <2> QED BY <2>1, <2>2
<1>5. picture' = [r \in staged |->
                    [x \in IF r \in DOMAIN c.use THEN c.use[r] ELSE {} |->
                       IF Known(r) THEN mirror'[r].gpu[x] ELSE NoBytes]]
  BY <1>1, <1>2, ReplayDrawMeans
<1>6. ASSUME NEW r \in DOMAIN c.use, NEW x \in c.use[r]
      PROVE  Known(r) /\ mirror'[r].gpu[x] = c.want[r][x]
  <2>1. Reads(First, r) /\ r \in Resources /\ x \in Parts
    BY <1>1, <1>2, <1>3 DEF Reads
  <2>2. At(First, r) # NoRec /\ Shows(At(First, r), x) = c.want[r][x]
    BY <1>0, <1>1, <1>2, <2>1 DEF DrawShows
  <2>3. PICK m : m = mirror[r]
    OBVIOUS
  <2>4. m # NoRec /\ Shows(m, x) = c.want[r][x]
    BY <1>1, <2>1, <2>2, <2>3
  <2>5. r \in ReadNow
    BY <1>1, <1>2, <1>4, <2>3, <2>4 DEF ReadNow, Known
  <2>6. m \in MirrorRecords /\ mirror'[r] = Uploaded(m)
    BY <1>1, <2>1, <2>3, <2>5
  <2>7. Uploaded(m).gpu[x] = IF m.gpu = NoBytes \/ x \in m.dirty THEN Source(m)[x] ELSE m.gpu[x]
    <3>1. MemoryTypes
      BY DEF IInv, MemoryInv
    <3> QED BY <2>1, <2>6, <3>1, UploadedTyped
  <2>8. Shows(m, x) = IF m.gpu = NoBytes \/ x \in m.dirty THEN Source(m)[x] ELSE m.gpu[x]
    BY DEF Shows, Stale
  <2> QED BY <2>3, <2>4, <2>6, <2>7, <2>8 DEF Known
<1>7. ASSUME NEW r \in DOMAIN c.use
      PROVE  [x \in c.use[r] |-> IF Known(r) THEN mirror'[r].gpu[x] ELSE NoBytes] = c.want[r]
  <2>1. c.want[r] = [x \in c.use[r] |-> c.want[r][x]]
    BY <1>3
  <2>2. \A x \in c.use[r] : (IF Known(r) THEN mirror'[r].gpu[x] ELSE NoBytes) = c.want[r][x]
    BY <1>6
  <2>3. [x \in c.use[r] |-> IF Known(r) THEN mirror'[r].gpu[x] ELSE NoBytes]
        = [x \in c.use[r] |-> c.want[r][x]]
    BY <2>2
  <2> QED BY <2>1, <2>3
<1>8. picture' = [r \in DOMAIN c.use |->
                    [x \in c.use[r] |-> IF Known(r) THEN mirror'[r].gpu[x] ELSE NoBytes]]
  BY <1>4, <1>5
<1>9. picture' = [r \in DOMAIN c.use |-> c.want[r]]
  BY <1>7, <1>8
<1> QED BY <1>2, <1>3, <1>9

LEMMA RenderStep ==
  ASSUME IInv, IInv', DataInv, ~failed, failed' = failed, ReplayDraw
  PROVE  Queue!Render
<1>1. ReplayLeaves /\ Cmd[First].op = "DRAW"
  BY DrawnStart
<1>2. Wants # <<>> /\ Head(Wants) = Cmd[First].want /\ Wants' = Tail(Wants)
  BY <1>1, WantsReplayed
<1>3. picture' = Cmd[First].want
  BY ReplayShows
<1> QED BY <1>2, <1>3 DEF Queue!Render

(* A call that adds a command or two, none of them a draw                  *)
LEMMA WantsOne ==
  ASSUME IInv, IInv', Longer, NEW op \in {"MEM", "DIRTY", "DATA"}, NEW r, AddedOne(op, r)
  PROVE  Wants' = Wants
<1>1. \A p \in Way' : p \notin Way => Cmd'[p].op # "DRAW"
  BY DEF AddedOne
<1> QED BY <1>1, WantsNone

LEMMA WantsUndone ==
  ASSUME IInv, IInv', DataInv, NEW r \in Resources, Undone(r)
  PROVE  Wants' = Wants
<1>1. \A p \in Way' : p \notin Way => Cmd'[p].op # "DRAW"
  BY DestroyAdded
<1>2. Longer
  BY DEF Undone
<1> QED BY <1>1, <1>2, WantsNone

LEMMA WantsPresented ==
  ASSUME IInv, IInv', DataInv, PresentsNow
  PROVE  Wants' = Wants
<1>0. TypesInv
  BY DEF DataInv
<1>1. Longer /\ Sends({}) /\ \E l \in Int : Listed(Unbinds \cup Binds \cup {}, [op |-> "PRESENT"], l)
  BY PresentsListed
<1>2. PICK l \in Int : Listed(Unbinds \cup Binds \cup {}, [op |-> "PRESENT"], l)
  BY <1>1
<1>3. PICK w : w = [op |-> "PRESENT"]
  OBVIOUS
<1>4. PICK X : X = {} /\ Sends(X) /\ Listed(Unbinds \cup Binds \cup X, w, l)
  BY <1>1, <1>2, <1>3
<1>5. Cmd'[l].op = "PRESENT"
  BY <1>3, <1>4 DEF Listed
<1>6. \A p \in Way' : \/ p \in Way \/ p = l
                      \/ Cmd'[p].op \in {"BIND", "UNBIND", "DATA"}
                         /\ Cmd'[p] \in Unbinds \cup Binds \cup X /\ End <= p /\ p < l
  BY <1>0, <1>4, ListedOps
<1>7. \A p \in Way' : p \notin Way => Cmd'[p].op # "DRAW"
  BY <1>5, <1>6
<1> QED BY <1>1, <1>7, WantsNone

absVars == <<Wants, picture, failed>>

LEMMA AliveStep ==
  ASSUME IInv, IInv', DataInv, ~failed', [Next]_vars
  PROVE  [Queue!Next]_absVars
<1>1. ~failed /\ TypesInv' /\ Kinds
  BY KindsAre
<1>2. TypesInv /\ failed \in BOOLEAN /\ failed' \in BOOLEAN
  BY <1>1 DEF DataInv, TypesInv, CountTypes
<1>3. failed' = failed
  BY <1>1, <1>2
<1>4. CASE ReplayDraw
  <2>1. Queue!Render
    BY <1>1, <1>3, <1>4, RenderStep
  <2> QED BY <2>1 DEF Queue!Next
<1> SUFFICES ASSUME ~ReplayDraw PROVE [Queue!Next]_absVars
  BY <1>4
<1>5. picture' = picture
  BY PictureKept
<1>6. Wants' = Wants => [Queue!Next]_absVars
  BY <1>3, <1>5 DEF absVars
<1>7. CASE Quietly \/ Local
  <2>1. Steady
    BY <1>7 DEF Quietly, Local
  <2> QED BY <1>6, <2>1, WantsSteady
<1>8. ASSUME Adding, NEW r \in Resources, (\E b \in Blocks : Moves(r, b)) \/ Dirties(r) \/ Changes(r)
      PROVE  [Queue!Next]_absVars
  <2>1. Longer
    BY <1>8 DEF Adding
  <2>2. AddedOne("MEM", r) \/ AddedOne("DIRTY", r) \/ AddedOne("DATA", r)
    BY <1>8, MovesAdded, DirtiesAdded, ChangesAdded
  <2>3. Wants' = Wants
    BY <2>1, <2>2, WantsOne
  <2> QED BY <1>6, <2>3
<1>9. ASSUME NEW r \in Resources, Undone(r)
      PROVE  [Queue!Next]_absVars
  BY <1>6, <1>9, WantsUndone
<1>10. ASSUME NEW use, NEW all, DrawsNow(use, all)
       PROVE  [Queue!Next]_absVars
  <2>1. Queue!Issue
    BY <1>1, <1>3, <1>5, <1>10, IssueStep
  <2> QED BY <2>1 DEF Queue!Next
<1>11. CASE PresentsNow
  BY <1>6, <1>11, WantsPresented
<1>12. CASE Free /\ Freed
  BY <1>6, <1>12, WantsFreed
<1>13. CASE Shorter /\ Replays
  <2>1. PICK op \in Plain : Replaying(op)
    BY <1>13 DEF Replays
  <2>2. ReplayLeaves /\ Cmd[First].op = op
    BY <2>1, ReplayLeft
  <2>3. op # "DRAW"
    BY DEF Plain
  <2>4. Wants' = Wants
    BY <2>2, <2>3, WantsReplayed
  <2> QED BY <1>6, <2>4
<1> QED BY <1>1, <1>7, <1>8, <1>9, <1>10, <1>11, <1>12, <1>13 DEF Kinds

(* The worker given up loses the draws on their way; nothing follows.      *)
LEMMA LostQueue ==
  ASSUME IInv, IInv', DataInv, DataInv', LostInv, LostInv', failed', [Next]_vars
  PROVE  [Queue!Next]_absVars
<1>1. failed \in BOOLEAN /\ failed' \in BOOLEAN
  BY DEF DataInv, TypesInv, CountTypes
<1>2. Wants' = <<>>
  BY LostWantsNext
<1>3. CASE failed
  <2>1. ~ReplayDraw
    <3>1. ReplayDraw => Replaying("DRAW")
      BY DEF ReplayDraw
    <3> QED BY <1>3, <3>1, ReplayLives
  <2>2. picture' = picture
    BY <2>1, PictureKept
  <2>3. Wants = <<>>
    BY <1>3, LostWants
  <2> QED BY <1>1, <1>2, <1>3, <2>2, <2>3 DEF absVars
<1>4. CASE ~failed
  <2>1. ~ReplayDraw
    BY <1>4 DEF ReplayDraw, Replaying, emulatorVars
  <2>2. picture' = picture
    BY <2>1, PictureKept
  <2>3. Queue!Lose
    BY <1>1, <1>2, <1>4, <2>2 DEF Queue!Lose
  <2> QED BY <2>3 DEF Queue!Next
<1> QED BY <1>3, <1>4

LEMMA QueueInit ==
  ASSUME Init
  PROVE  Queue!Init
<1>1. IInv
  BY InvInit
<1>2. Len(ring) = 0 /\ Len(todo) = 0 /\ failed = FALSE /\ picture = <<>>
  BY EmptyIsSequence DEF Init
<1>3. Way = {}
  BY <1>1, <1>2, WayFacts DEF IInv, Way, Consumed
<1>4. Wants = <<>>
  BY <1>1, <1>3, WantsEmpty
<1> QED BY <1>2, <1>4 DEF Queue!Init

LEMMA QueueStep ==
  ASSUME IInv, IInv', DataInv, DataInv', LostInv, LostInv', [Next]_vars
  PROVE  [Queue!Next]_absVars
<1>1. CASE failed'
  BY <1>1, LostQueue
<1>2. CASE ~failed'
  BY <1>2, AliveStep
<1> QED BY <1>1, <1>2

----------------------------------------------------------------------------
THEOREM DataAlways == Spec => []DataInv
<1>1. Init => DataInv
  BY DataInit
<1>2. IInv /\ DataInv /\ [Next]_vars => DataInv'
  BY DataStep
<1> QED BY <1>1, <1>2, InvAlways, PTL DEF Spec

(* Whatever the program draws, locks, writes and destroys and whenever the *)
(* worker dies, the recorder's, ring's and mirror's data have their types, *)
(* and their positions keep the order that the ring needs (cmd-ring.js,    *)
(* d3d-recorder.js waitSpace, publish; render-loop.js).                    *)
THEOREM TypesAlways == Spec => []TypeOK
<1>1. IInv /\ DataInv => TypeOK
  BY DataTypes
<1> QED BY <1>1, InvAlways, DataAlways, PTL

(* A resource acknowledged in its current generation is in the worker's    *)
(* copy as it is in guest memory, but for what is being written: skipping  *)
(* the fence (d3d-recorder.js mayRead) and the upload (d3d-mirror.js       *)
(* glTexture, glBuffer) is right, for any number of resources and slots.   *)
THEOREM AcksAlways == Spec => []AckMeansUploaded
<1>1. IInv /\ DataInv => AckMeansUploaded
  BY DataAcks
<1> QED BY <1>1, InvAlways, DataAlways, PTL

(* Every draw replayed later shows what its resources held when it was     *)
(* issued, in the order of the draws, and only a worker given up loses     *)
(* any: the fences, copies on write, deferred releases, acknowledgements   *)
(* and ring copies of d3d-recorder.js and d3d-mirror.js together implement *)
(* DrawQueue.                                                              *)
THEOREM DrawsImplemented == Spec => DrawsAsRecorded
<1>1. Init => Queue!Init
  BY QueueInit
<1>2. Init => LostInv
  BY LostInit
<1>3. IInv /\ LostInv /\ [Next]_vars => LostInv'
  BY LostStep
<1>4. /\ IInv /\ DataInv /\ LostInv /\ [Next]_vars /\ IInv' /\ DataInv' /\ LostInv'
      => [Queue!Next]_absVars
  BY QueueStep
<1>5. Spec => []LostInv
  BY <1>2, <1>3, InvAlways, PTL DEF Spec
<1> QED BY <1>1, <1>4, <1>5, InvAlways, DataAlways, PTL
        DEF Spec, DrawsAsRecorded, Queue!Spec, absVars
===============================================================================
