---------------------------- MODULE ProfileSaveProofs ----------------------------
(***************************************************************************)
(* Theorems about module ProfileSave, for any paths, objects and moves,    *)
(* any number of changes, failures and crashes, and any number of flushes  *)
(* under way at once: a path whose file in the storage is not the          *)
(* profile's is due, but for the changes that DifferentMeansDue names; and *)
(* a flush that runs on its own does not remove the last copy the storage  *)
(* has of a file.                                                          *)
(*                                                                         *)
(* The invariant compares each flush with the profile it was started from: *)
(* where the game went another way since, at a path the flush still has to *)
(* write or to remove, the next flush knows of it, or one that began since *)
(* left the path adrift.  For the last copies it also says where the       *)
(* storage has, or gets, each file when the flush removes files, and that  *)
(* a change of the game's is in the storage nowhere before it is written.  *)
(***************************************************************************)
EXTENDS ProfileSave, FiniteSetTheorems, TLAPS

Job ==
  [dirty: UNION {[S -> Objects] : S \in SUBSET Paths}, gone: SUBSET Paths,
   at: Paths \cup {NoFile}, taken: Int \cup {NoFile}, failed: BOOLEAN]

(* Objects enough for every path, and values that are not each other.      *)
Constants ==
  /\ IsFiniteSet(Paths) /\ OldFiles \subseteq Paths /\ Moves \subseteq Paths \X Paths
  /\ \E o \in [Paths -> Objects] : IsInjective(o)
  /\ NoFile \notin Paths \cup Objects \cup Int
  /\ NoFlush \notin Job

TypeInv ==
  /\ up \in BOOLEAN /\ made \in Int
  /\ files \in [Paths -> Objects \cup {NoFile}]
  /\ bytes \in [Objects -> Int]
  /\ newer \subseteq Objects /\ changes \subseteq Paths /\ unseen \subseteq Objects
  /\ disk \in [Paths -> Int \cup {NoFile}]
  /\ flush \in [Flushes -> Job \cup {NoFlush}]

Running(f) == f \in Flushes /\ flush[f] # NoFlush

JobInv ==
  \A f \in Flushes : Running(f) =>
    /\ up
    /\ flush[f].at # NoFile => flush[f].at \in DOMAIN flush[f].dirty
    /\ flush[f].at = NoFile => flush[f].taken = NoFile
    /\ flush[f].gone \cap DOMAIN flush[f].dirty = {}

(* The next flush sees that the file at p changed.                         *)
Noted(p) == p \in changes \/ files[p] \in newer \cup unseen

(* What a flush has at p is the profile's, or the next flush sees it, or   *)
(* one that began meanwhile found it so.                                   *)
JobFollows(r) ==
  /\ \A p \in DOMAIN r.dirty : r.dirty[p] = files[p] \/ p \in changes \cup adrift
  /\ \A p \in r.gone : files[p] = NoFile \/ p \in changes \cup adrift
  /\ r.taken # NoFile => r.taken = Content(r.at) \/ Noted(r.at) \/ r.at \in adrift
FlushFollows == \A f \in Flushes : Running(f) => JobFollows(flush[f])

IInv == TypeInv /\ JobInv /\ FlushFollows /\ DifferentMeansDue

(* The record of a flush without a path that it is done with.              *)
LEMMA JobLeaves ==
  ASSUME NEW r \in Job, NEW p
  PROVE  /\ Leave(r, p) \in Job
         /\ Leave(r, p).at = NoFile /\ Leave(r, p).taken = NoFile
         /\ Leave(r, p).gone = r.gone /\ Leave(r, p).failed = r.failed
         /\ DOMAIN Leave(r, p).dirty = DOMAIN r.dirty \ {p}
         /\ \A q \in DOMAIN r.dirty \ {p} : Leave(r, p).dirty[q] = r.dirty[q]
<1>1. PICK S \in SUBSET Paths : r.dirty \in [S -> Objects]
  BY DEF Job
<1>2. Restrict(r.dirty, S \ {p}) \in [S \ {p} -> Objects]
  BY <1>1 DEF Restrict
<1>3. Leave(r, p) = [dirty |-> Restrict(r.dirty, S \ {p}), gone |-> r.gone, at |-> NoFile,
                     taken |-> NoFile, failed |-> r.failed]
  <2>1. DOMAIN r.dirty = S
    BY <1>1
  <2>2. r = [dirty |-> r.dirty, gone |-> r.gone, at |-> r.at, taken |-> r.taken,
             failed |-> r.failed]
    BY DEF Job
  <2>3. Leave(r, p) = [r EXCEPT !.dirty = Restrict(r.dirty, S \ {p}), !.at = NoFile,
                                !.taken = NoFile]
    BY <2>1 DEF Leave
  <2> QED BY <2>2, <2>3
<1>4. S \ {p} \in SUBSET Paths
  BY <1>1
<1>5. Restrict(r.dirty, S \ {p}) \in UNION {[T -> Objects] : T \in SUBSET Paths}
  BY <1>2, <1>4
<1>6. Leave(r, p) \in Job
  BY SMTT(30), <1>3, <1>5 DEF Job
<1> QED BY <1>1, <1>3, <1>6 DEF Restrict

(* The game's steps: they leave the flushes and the storage alone.         *)
LEMMA GameChanges ==
  ASSUME Constants, IInv, up, UNCHANGED <<up, disk, flush>>, TypeInv',
         changes \subseteq changes', adrift \subseteq adrift',
         NEW touched \in SUBSET Paths,
         (* elsewhere the file is the same, and so is what the flush sees  *)
         \A p \in Paths \ touched :
           /\ files'[p] = files[p]
           /\ Noted(p) => Noted(p)'
           /\ Content(p)' = Content(p) \/ Noted(p)',
         touched \subseteq changes'
  PROVE  IInv'
<1>1. JobInv' /\ (\A f : Running(f)' <=> Running(f))
  BY DEF IInv, JobInv, Running, Flushes
<1>2. FlushFollows'
  <2>1. ASSUME NEW f \in Flushes, Running(f), NEW r, r = flush[f]
        PROVE  JobFollows(r)'
    <3>1. r \in Job /\ r.gone \subseteq Paths /\ JobFollows(r)
      BY <2>1 DEF IInv, TypeInv, FlushFollows, Running, Job
    <3>2. DOMAIN r.dirty \subseteq Paths
      BY <3>1 DEF Job
    <3>3. \A p \in DOMAIN r.dirty : r.dirty[p] = files'[p] \/ p \in changes' \cup adrift'
      BY <3>1, <3>2 DEF JobFollows
    <3>4. \A p \in r.gone : files'[p] = NoFile \/ p \in changes' \cup adrift'
      BY <3>1 DEF JobFollows
    <3>5. r.taken # NoFile => r.at \in Paths
      BY <2>1, <3>2 DEF IInv, JobInv
    <3>6. r.taken # NoFile => r.taken = Content(r.at)' \/ Noted(r.at)' \/ r.at \in adrift'
      BY <3>1, <3>5 DEF JobFollows, Noted
    <3> QED BY <3>3, <3>4, <3>6 DEF JobFollows
  <2> QED BY <1>1, <2>1 DEF FlushFollows, Flushes
<1>3. DifferentMeansDue'
  <2> SUFFICES ASSUME NEW p \in Paths, p \notin adrift
               PROVE  disk[p] = Content(p)' \/ Due(p)' \/ files'[p] \in unseen'
    BY DEF DifferentMeansDue
  <2>1. CASE Noted(p)'
    BY <2>1 DEF Noted, Due
  <2>2. CASE ~Noted(p)'
    <3>1. p \notin touched /\ Content(p)' = Content(p) /\ files'[p] = files[p] /\ ~Noted(p)
      BY <2>2 DEF Noted
    <3>2. disk[p] = Content(p) \/ Due(p)
      BY <3>1 DEF IInv, DifferentMeansDue, Noted
    <3>3. CASE disk[p] = Content(p)
      BY <3>1, <3>3
    <3>4. CASE Due(p)
      <4>1. PICK f \in Flushes : Follows(f, p)
        BY <3>1, <3>4 DEF Due, Noted
      <4>2. Follows(f, p)'
        BY <3>1, <4>1 DEF Follows
      <4> QED BY <4>2 DEF Due, Flushes
    <3> QED BY <3>2, <3>3, <3>4
  <2> QED BY <2>1, <2>2
<1> QED BY <1>1, <1>2, <1>3 DEF IInv

(* Each version the game writes is a number.                               *)
LEMMA VersionTypes ==
  ASSUME Constants, TypeInv
  PROVE  NextVersion \in Int /\ Empty \in Int
<1>1. IsFiniteSet(OldFiles)
  BY FS_Subset DEF Constants
<1>2. Cardinality(OldFiles) \in Nat
  BY <1>1, FS_CardinalityType
<1> QED BY <1>2 DEF TypeInv, NextVersion, Empty

LEMMA CreateStep ==
  ASSUME Constants, IInv, NEW p \in Paths, Create(p)
  PROVE  IInv'
<1> DEFINE o == CHOOSE o \in Unused : TRUE
<1>1. o \in Objects /\ o \notin Held
  BY DEF Create, Unused
<1>2. /\ up /\ UNCHANGED <<up, disk, flush>> /\ made' = made + 1
      /\ files' = [files EXCEPT ![p] = o] /\ bytes' = [bytes EXCEPT ![o] = Empty]
      /\ newer' = (newer \ {o}) \cup (IF sameMs THEN {} ELSE {o})
      /\ unseen' = unseen \ {o} /\ changes' = changes \cup {p} /\ adrift \subseteq adrift'
  BY DEF Create, Change, NoteChange
<1>3. TypeInv'
  <2>1. Empty \in Int /\ TypeInv
    BY VersionTypes DEF IInv
  <2>2. bytes' \in [Objects -> Int]
    BY <2>1, <1>2 DEF TypeInv
  <2>3. files' \in [Paths -> Objects \cup {NoFile}]
    BY <2>1, <1>1, <1>2 DEF TypeInv
  <2>4. newer' \subseteq Objects /\ changes' \subseteq Paths /\ unseen' \subseteq Objects
    BY <2>1, <1>1, <1>2 DEF TypeInv
  <2>5. made' \in Int /\ UNCHANGED <<up, disk, flush>>
    BY <2>1, <1>2 DEF TypeInv
  <2> QED BY <2>1, <2>2, <2>3, <2>4, <2>5 DEF TypeInv, Flushes
<1>4. ASSUME NEW q \in Paths \ {p}
      PROVE  files'[q] = files[q] /\ (Noted(q) => Noted(q)') /\ Content(q)' = Content(q)
  <2>1. files'[q] = files[q] /\ (files[q] # NoFile => files[q] # o)
    BY <1>1, <1>2 DEF IInv, TypeInv, Held
  <2>2. files[q] # NoFile => files[q] \in Objects
    BY DEF IInv, TypeInv
  <2>3. Content(q)' = Content(q)
    BY <2>1, <2>2, <1>2 DEF Content, IInv, TypeInv
  <2>4. Noted(q) => Noted(q)'
    BY <2>1, <2>2, <1>2 DEF Noted, IInv, TypeInv, Constants
  <2> QED BY <2>1, <2>3, <2>4
<1> QED BY <1>2, <1>3, <1>4, GameChanges

(* A change of the bytes of the file at p that the next flush sees, or     *)
(* that unseen tells of.                                                   *)
LEMMA BytesChange ==
  ASSUME Constants, IInv, NEW p \in Paths, up, files[p] # NoFile,
         UNCHANGED <<up, disk, flush, files, changes, adrift>>, made' = made + 1,
         bytes' = [bytes EXCEPT ![files[p]] = NextVersion],
         newer \subseteq newer', newer' \subseteq newer \cup {files[p]},
         unseen' \subseteq unseen \cup {files[p]}, unseen \subseteq unseen' \cup {files[p]},
         files[p] \in newer' \cup unseen'
  PROVE  IInv'
<1>1. files[p] \in Objects
  BY DEF IInv, TypeInv
<1>2. TypeInv'
  BY <1>1, VersionTypes DEF IInv, TypeInv, Flushes
<1>3. ASSUME NEW q \in Paths
      PROVE  (Noted(q) => Noted(q)') /\ (Content(q)' = Content(q) \/ Noted(q)')
  <2>1. CASE files[q] = files[p]
    BY <2>1 DEF Noted
  <2>2. CASE files[q] # files[p]
    <3>1. Content(q)' = Content(q)
      BY <2>2 DEF Content, IInv, TypeInv
    <3> QED BY <3>1, <2>2 DEF Noted
  <2> QED BY <2>1, <2>2
<1>4. {} \in SUBSET Paths /\ {} \subseteq changes'
  OBVIOUS
<1> QED BY <1>2, <1>3, <1>4, GameChanges

LEMMA GameSteps ==
  ASSUME Constants, IInv,
         \/ \E p \in Paths : Create(p) \/ Write(p) \/ Shrink(p) \/ Unlink(p)
         \/ \E p, q \in Paths : Rename(p, q)
         \/ Tick
  PROVE  IInv'
<1>1. ASSUME NEW p \in Paths, Create(p)
      PROVE  IInv'
  BY <1>1, CreateStep
<1>2. ASSUME NEW p \in Paths, Write(p)
      PROVE  IInv'
  <2>1. /\ up /\ files[p] # NoFile /\ made' = made + 1
        /\ UNCHANGED <<up, disk, flush, files, changes, adrift>>
        /\ bytes' = [bytes EXCEPT ![files[p]] = NextVersion]
        /\ newer \subseteq newer' /\ newer' \subseteq newer \cup {files[p]}
        /\ unseen' \subseteq unseen \cup {files[p]} /\ unseen \subseteq unseen' \cup {files[p]}
        /\ files[p] \in newer' \cup unseen'
    BY <1>2 DEF Write, Change, Dated
  <2> QED BY <2>1, BytesChange
<1>3. ASSUME NEW p \in Paths, Shrink(p)
      PROVE  IInv'
  <2>1. /\ up /\ files[p] # NoFile /\ made' = made + 1
        /\ UNCHANGED <<up, disk, flush, files, changes, newer, adrift>>
        /\ bytes' = [bytes EXCEPT ![files[p]] = NextVersion]
        /\ unseen' \subseteq unseen \cup {files[p]} /\ unseen \subseteq unseen' \cup {files[p]}
        /\ files[p] \in newer' \cup unseen'
    BY <1>3 DEF Shrink, Change
  <2> QED BY <2>1, BytesChange
<1>4. ASSUME NEW p \in Paths, Unlink(p)
      PROVE  IInv'
  <2>1. /\ up /\ UNCHANGED <<up, disk, flush, bytes, newer, unseen, adrift>> /\ made' = made + 1
        /\ files' = [files EXCEPT ![p] = NoFile] /\ changes' = changes \cup {p}
    BY <1>4 DEF Unlink, Change, NoteChange
  <2>2. TypeInv'
    BY <2>1 DEF IInv, TypeInv, Flushes
  <2>3. \A q \in Paths \ {p} :
          files'[q] = files[q] /\ (Noted(q) => Noted(q)') /\ Content(q)' = Content(q)
    BY <2>1 DEF IInv, TypeInv, Noted, Content
  <2> QED BY <2>1, <2>2, <2>3, GameChanges
<1>5. ASSUME NEW p \in Paths, NEW q \in Paths, Rename(p, q)
      PROVE  IInv'
  <2>1. /\ up /\ UNCHANGED <<up, disk, flush, bytes, newer, unseen>> /\ made' = made + 1
        /\ files' = [files EXCEPT ![p] = NoFile, ![q] = files[p]]
        /\ changes' = changes \cup {p, q} /\ {p, q} \in SUBSET Paths
        /\ adrift \subseteq adrift'
    BY <1>5 DEF Rename, Change, NoteChange
  <2>2. TypeInv'
    BY <2>1 DEF IInv, TypeInv, Flushes
  <2>3. \A x \in Paths \ {p, q} :
          files'[x] = files[x] /\ (Noted(x) => Noted(x)') /\ Content(x)' = Content(x)
    BY <2>1 DEF IInv, TypeInv, Noted, Content
  <2> QED BY <2>1, <2>2, <2>3, GameChanges
<1>6. CASE Tick
  <2>1. UNCHANGED <<up, files, bytes, newer, changes, disk, flush, made, unseen, adrift>>
    BY <1>6 DEF Tick
  <2>2. \A f, p : Follows(f, p)' <=> Follows(f, p)
    BY <2>1 DEF Follows, Content
  <2> QED BY <2>1, <2>2 DEF IInv, TypeInv, JobInv, FlushFollows, JobFollows, DifferentMeansDue, Due, Noted,
              Content, Running, Flushes
<1> QED BY <1>1, <1>2, <1>3, <1>4, <1>5, <1>6

(* The flush f has become r: what it still has to do is some of what it    *)
(* had, and what it does at path p is right, or the next flush sees it, or *)
(* it leaves the path adrift.                                              *)
Fits(f, r) ==
  /\ r.at # NoFile => r.at \in DOMAIN r.dirty
  /\ r.at = NoFile => r.taken = NoFile
  /\ r.taken # NoFile => r.taken = Content(r.at) \/ Noted(r.at)' \/ r.at \in adrift'
  /\ r.gone \subseteq flush[f].gone
  /\ DOMAIN r.dirty \subseteq DOMAIN flush[f].dirty
  /\ \A p \in DOMAIN r.dirty : r.dirty[p] = flush[f].dirty[p]

Handled(f, r, p) ==
  \/ Noted(p)' \/ p \in adrift' \/ disk'[p] = Content(p)
  \/ /\ disk'[p] = disk[p]
     /\ p \in flush[f].gone => p \in r.gone
     /\ p \in DOMAIN flush[f].dirty => p \in DOMAIN r.dirty
  \/ /\ p \in DOMAIN r.dirty /\ r.dirty[p] = files[p]
     /\ r.at = p => r.taken \in {NoFile, Content(p)}

LEMMA FlushMoves ==
  ASSUME Constants, IInv, NEW f \in Flushes, Running(f),
         NEW r \in Job, flush' = [flush EXCEPT ![f] = r],
         UNCHANGED <<up, files, bytes, newer, made, unseen>>,
         changes \subseteq changes', changes' \subseteq Paths, adrift \subseteq adrift',
         disk' \in [Paths -> Int \cup {NoFile}],
         Fits(f, r), \A p \in Paths : Handled(f, r, p)
  PROVE  IInv'
<1>. TypeInv /\ JobInv /\ FlushFollows /\ DifferentMeansDue
  BY DEF IInv
<1>1. flush'[f] = r /\ r # NoFlush /\ Flushes' = Flushes
  BY DEF Constants, TypeInv, Flushes
<1>2. \A g \in Flushes : g # f => flush'[g] = flush[g]
  BY DEF TypeInv
<1>3. TypeInv'
  BY <1>1 DEF TypeInv, Flushes
<1>4. JobInv'
  <2> SUFFICES ASSUME NEW g \in Flushes, Running(g)'
               PROVE  /\ up
                      /\ flush'[g].at # NoFile => flush'[g].at \in DOMAIN flush'[g].dirty
                      /\ flush'[g].at = NoFile => flush'[g].taken = NoFile
                      /\ flush'[g].gone \cap DOMAIN flush'[g].dirty = {}
    BY <1>1 DEF JobInv
  <2>1. CASE g = f
    BY <1>1, <2>1 DEF JobInv, Fits
  <2>2. CASE g # f
    BY <1>2, <2>2 DEF JobInv, Running
  <2> QED BY <2>1, <2>2
<1>5. \A p : Content(p)' = Content(p) /\ (Noted(p) => Noted(p)')
  BY DEF Content, Noted
<1>6. FlushFollows'
  <2>1. JobFollows(r)'
    <3>1. JobFollows(flush[f])
      BY DEF FlushFollows
    <3>2. \A p \in DOMAIN r.dirty : r.dirty[p] = files'[p] \/ p \in changes' \cup adrift'
      BY <3>1 DEF JobFollows, Fits
    <3>3. \A p \in r.gone : files'[p] = NoFile \/ p \in changes' \cup adrift'
      BY <3>1 DEF JobFollows, Fits
    <3>4. r.taken # NoFile => r.taken = Content(r.at)' \/ Noted(r.at)' \/ r.at \in adrift'
      BY <1>5 DEF Fits
    <3> QED BY <3>2, <3>3, <3>4 DEF JobFollows
  <2>2. ASSUME NEW g \in Flushes, g # f, Running(g), NEW k, k = flush[g]
        PROVE  JobFollows(k)'
    <3>1. JobFollows(k)
      BY <2>2 DEF FlushFollows
    <3> QED BY <1>5, <3>1 DEF JobFollows
  <2> QED BY <1>1, <1>2, <2>1, <2>2 DEF FlushFollows, Running
<1>7. ASSUME NEW p \in Paths, p \notin adrift'
      PROVE  disk'[p] = Content(p)' \/ Due(p)' \/ files'[p] \in unseen'
  <2>1. CASE Noted(p)' \/ disk'[p] = Content(p)
    BY <2>1, <1>5 DEF Noted, Due
  <2>2. CASE p \in DOMAIN r.dirty /\ r.dirty[p] = files[p]
             /\ (r.at = p => r.taken \in {NoFile, Content(p)})
    <3>1. Follows(f, p)'
      BY <2>2, <1>1, <1>5 DEF Follows
    <3> QED BY <1>1, <3>1 DEF Due
  <2>3. CASE /\ ~Noted(p)' /\ disk'[p] = disk[p]
             /\ p \in flush[f].gone => p \in r.gone
             /\ p \in DOMAIN flush[f].dirty => p \in DOMAIN r.dirty
    <3>1. disk[p] = Content(p) \/ Due(p)
      BY <1>7, <2>3, <1>5 DEF DifferentMeansDue, Noted, JobInv
    <3>2. CASE Due(p)
      <4>1. PICK g \in Flushes : Follows(g, p)
        BY <2>3, <3>2, <1>5 DEF Due, Noted
      <4>2. CASE g # f
        <5>1. Follows(g, p)'
          BY <1>2, <1>5, <4>1, <4>2 DEF Follows
        <5> QED BY <1>1, <5>1 DEF Due
      <4>3. CASE g = f /\ p \in flush[f].gone /\ files[p] = NoFile
        <5>1. Follows(f, p)'
          BY <4>3, <2>3, <1>1 DEF Follows
        <5> QED BY <1>1, <5>1 DEF Due
      <4>4. CASE g = f /\ p \in DOMAIN flush[f].dirty /\ flush[f].dirty[p] = files[p]
        <5>1. p \in DOMAIN r.dirty /\ r.dirty[p] = files[p]
          BY <4>4, <2>3 DEF Fits
        <5>2. r.at = p => r.taken \in {NoFile, Content(p)}
          BY <1>7, <2>3 DEF Fits
        <5>3. Follows(f, p)'
          BY <5>1, <5>2, <1>1, <1>5 DEF Follows
        <5> QED BY <1>1, <5>3 DEF Due
      <4> QED BY <4>1, <4>2, <4>3, <4>4 DEF Follows
    <3> QED BY <3>1, <3>2, <2>3, <1>5
  <2> QED BY <1>7, <2>1, <2>2, <2>3 DEF Handled
<1> QED BY <1>3, <1>4, <1>6, <1>7 DEF IInv, DifferentMeansDue

LEMMA FlushSteps ==
  ASSUME Constants, IInv, NEW f \in Flushes,
         FlushStep(f) \/ \E p \in Paths : WriteFails(f, p) \/ RemoveFails(f, p)
  PROVE  IInv'
<1>0. PICK j : j = flush[f]
  OBVIOUS
<1>. TypeInv /\ JobInv /\ FlushFollows /\ DifferentMeansDue
  BY DEF IInv
<1>1. /\ j # NoFlush /\ Running(f) /\ UNCHANGED <<up, files, bytes, newer, made, unseen>>
  BY <1>0 DEF FlushStep, OpenFile, WriteFile, CloseFile, WriteFails, Failing, RemoveFile,
         RemoveFails, EndFlush, Written, NoGame, Running
<1>2. j \in Job
  BY <1>0, <1>1 DEF TypeInv
<1>3. PICK S \in SUBSET Paths : j.dirty \in [S -> Objects]
  BY <1>2 DEF Job
<1>4. /\ DOMAIN j.dirty \subseteq Paths /\ j.gone \subseteq Paths
      /\ j.at \in Paths \cup {NoFile} /\ j.taken \in Int \cup {NoFile}
      /\ j = [dirty |-> j.dirty, gone |-> j.gone, at |-> j.at, taken |-> j.taken,
              failed |-> j.failed]
  BY <1>2, <1>3 DEF Job
<1>5. /\ j.at # NoFile => j.at \in DOMAIN j.dirty
      /\ j.at = NoFile => j.taken = NoFile
      /\ j.gone \cap DOMAIN j.dirty = {}
      /\ \A p \in DOMAIN j.dirty : j.dirty[p] = files[p] \/ p \in changes \cup adrift
      /\ \A p \in j.gone : files[p] = NoFile \/ p \in changes \cup adrift
      /\ j.taken # NoFile => j.taken = Content(j.at) \/ Noted(j.at) \/ j.at \in adrift
  BY <1>0, <1>1 DEF JobInv, FlushFollows, JobFollows
<1>6. NoFile \notin Paths \cup Objects \cup Int
  BY DEF Constants
<1>7. CASE \E p \in Paths : OpenFile(f, p)
  <2>1. PICK p \in Paths : OpenFile(f, p)
    BY <1>7
  <2> DEFINE r == [dirty |-> j.dirty, gone |-> j.gone, at |-> p, taken |-> j.taken,
                   failed |-> j.failed]
  <2>2. /\ j.at = NoFile /\ p \in DOMAIN j.dirty /\ changes' = changes /\ adrift' = adrift
        /\ flush' = [flush EXCEPT ![f].at = p]
        /\ disk' = IF disk[p] = NoFile THEN [disk EXCEPT ![p] = Empty] ELSE disk
    BY <1>0, <2>1 DEF OpenFile
  <2>3. flush' = [flush EXCEPT ![f] = r]
    <3>1. [j EXCEPT !.at = p] = r
      BY <1>4
    <3> QED BY <1>0, <2>2, <3>1
  <2>4. r \in Job
    BY <1>2 DEF Job
  <2>5. disk' \in [Paths -> Int \cup {NoFile}]
    BY <2>2, VersionTypes DEF TypeInv
  <2>6. \A q \in Paths : q # p => disk'[q] = disk[q]
    BY <2>2 DEF TypeInv
  <2>7. \A q \in Paths : Noted(q) => Noted(q)'
    BY <2>2, <1>1 DEF Noted
  <2>8. p \in changes \cup adrift \/ (p \in DOMAIN r.dirty /\ r.dirty[p] = files[p] /\ r.taken = NoFile)
    BY <2>2, <1>5
  <2>9. changes' \subseteq Paths
    BY <2>2 DEF TypeInv
  <2>10. p \in changes \cup adrift => Noted(p)' \/ p \in adrift'
    BY <2>2 DEF Noted
  <2>11. Fits(f, r)
    BY <1>0, <1>5, <2>2 DEF Fits
  <2>12. \A q \in Paths : Handled(f, r, q)
    BY <1>0, <2>6, <2>8, <2>10 DEF Handled
  <2> QED BY <1>1, <2>2, <2>3, <2>4, <2>5, <2>9, <2>11, <2>12, FlushMoves
<1>8. CASE WriteFile(f)
  <2>0. PICK v : v = bytes[j.dirty[j.at]]
    OBVIOUS
  <2> DEFINE r == [dirty |-> j.dirty, gone |-> j.gone, at |-> j.at, taken |-> v,
                   failed |-> j.failed]
  <2>1. /\ j.at # NoFile /\ j.at \in DOMAIN j.dirty /\ UNCHANGED <<changes, disk, adrift>>
        /\ flush' = [flush EXCEPT ![f].taken = v]
    BY <1>0, <2>0, <1>8, <1>5 DEF WriteFile
  <2>2. flush' = [flush EXCEPT ![f] = r]
    <3>1. [j EXCEPT !.taken = v] = r
      BY <1>4
    <3> QED BY <1>0, <2>1, <3>1
  <2>3. v \in Int
    BY <2>0, <2>1, <1>3 DEF TypeInv
  <2>4. r \in Job
    BY <2>3, <1>2 DEF Job
  <2>5. \/ j.dirty[j.at] = files[j.at] /\ v = Content(j.at)
        \/ j.at \in changes \cup adrift
    BY <2>0, <2>1, <1>3, <1>5, <1>6 DEF Content
  <2>6. j.at \in changes \cup adrift => Noted(j.at)' \/ j.at \in adrift'
    BY <2>1 DEF Noted
  <2>7. disk' \in [Paths -> Int \cup {NoFile}] /\ changes' \subseteq Paths
    BY <2>1 DEF TypeInv
  <2>8. r.at # NoFile /\ r.taken = v
    BY <2>1
  <2>9. Fits(f, r)
    BY <1>0, <2>1, <2>5, <2>6, <2>8 DEF Fits
  <2>10. \A q \in Paths : Handled(f, r, q)
    BY <1>0, <2>1 DEF Handled
  <2> QED BY <1>1, <2>1, <2>2, <2>4, <2>7, <2>9, <2>10, FlushMoves
<1>9. CASE CloseFile(f)
  <2> DEFINE r == Leave(j, j.at)
  <2>1. /\ j.taken # NoFile /\ j.at # NoFile /\ j.at \in DOMAIN j.dirty
        /\ changes' = changes /\ adrift' = adrift
        /\ disk' = [disk EXCEPT ![j.at] = j.taken]
        /\ flush' = [flush EXCEPT ![f] = r]
    BY <1>0, <1>9, <1>5 DEF CloseFile, TypeInv
  <2>2. /\ r \in Job /\ r.at = NoFile /\ r.taken = NoFile /\ r.gone = j.gone
        /\ DOMAIN r.dirty = DOMAIN j.dirty \ {j.at}
        /\ \A q \in DOMAIN j.dirty \ {j.at} : r.dirty[q] = j.dirty[q]
    BY <1>2, JobLeaves
  <2>3. disk' \in [Paths -> Int \cup {NoFile}] /\ changes' \subseteq Paths
    BY <2>1, <1>4 DEF TypeInv
  <2>4. disk'[j.at] = Content(j.at) \/ Noted(j.at)' \/ j.at \in adrift'
    <3>1. disk'[j.at] = j.taken
      BY <2>1, <1>4 DEF TypeInv
    <3>2. Noted(j.at) => Noted(j.at)'
      BY <2>1, <1>1 DEF Noted
    <3> QED BY <2>1, <3>1, <3>2, <1>5
  <2>5. \A q \in Paths : q # j.at => disk'[q] = disk[q]
    BY <2>1 DEF TypeInv
  <2>6. Fits(f, r)
    BY <1>0, <2>2 DEF Fits
  <2>7. \A q \in Paths : Handled(f, r, q)
    BY <1>0, <2>2, <2>4, <2>5 DEF Handled
  <2> QED BY <1>1, <2>1, <2>2, <2>3, <2>6, <2>7, FlushMoves
<1>10. CASE \E p \in Paths : WriteFails(f, p)
  <2>1. PICK p \in Paths : WriteFails(f, p)
    BY <1>10
  <2> DEFINE r == [Leave(j, p) EXCEPT !.failed = TRUE]
  <2>2. /\ p \in DOMAIN j.dirty /\ disk' = disk /\ changes' = changes \cup {p}
        /\ adrift' = adrift /\ flush' = [flush EXCEPT ![f] = r]
    BY <1>0, <2>1 DEF WriteFails, Failing, NoteChange, TypeInv
  <2>3. /\ Leave(j, p) \in Job /\ Leave(j, p).at = NoFile /\ Leave(j, p).taken = NoFile
        /\ Leave(j, p).gone = j.gone /\ DOMAIN Leave(j, p).dirty = DOMAIN j.dirty \ {p}
        /\ \A q \in DOMAIN j.dirty \ {p} : Leave(j, p).dirty[q] = j.dirty[q]
    BY <1>2, JobLeaves
  <2>4. r \in Job /\ r.at = NoFile /\ r.taken = NoFile /\ r.gone = j.gone /\ r.dirty = Leave(j, p).dirty
    BY <2>3 DEF Job
  <2>5. disk' \in [Paths -> Int \cup {NoFile}] /\ changes' \subseteq Paths
    BY <2>2 DEF TypeInv
  <2>6. Noted(p)' /\ changes \subseteq changes'
    BY <2>2 DEF Noted
  <2>7. Fits(f, r)
    BY <1>0, <2>3, <2>4 DEF Fits
  <2>8. \A q \in Paths : Handled(f, r, q)
    BY <1>0, <2>2, <2>3, <2>4, <2>6 DEF Handled
  <2> QED BY <1>1, <2>2, <2>4, <2>5, <2>6, <2>7, <2>8, FlushMoves
<1>11. CASE \E p \in Paths : RemoveFile(f, p)
  <2>1. PICK p \in Paths : RemoveFile(f, p)
    BY <1>11
  <2> DEFINE r == [dirty |-> j.dirty, gone |-> j.gone \ {p}, at |-> j.at, taken |-> j.taken,
                   failed |-> j.failed]
  <2>2. /\ p \in j.gone /\ UNCHANGED <<changes, adrift>> /\ disk' = [disk EXCEPT ![p] = NoFile]
        /\ flush' = [flush EXCEPT ![f].gone = @ \ {p}]
    BY <1>0, <2>1 DEF RemoveFile
  <2>3. flush' = [flush EXCEPT ![f] = r]
    <3>1. [j EXCEPT !.gone = j.gone \ {p}] = r
      BY <1>4
    <3> QED BY <1>0, <2>2, <3>1
  <2>4. r \in Job
    BY <1>2 DEF Job
  <2>5. disk' \in [Paths -> Int \cup {NoFile}] /\ changes' \subseteq Paths
    BY <2>2 DEF TypeInv
  <2>6. disk'[p] = Content(p) \/ Noted(p)' \/ p \in adrift'
    BY <2>2, <1>5 DEF TypeInv, Content, Noted
  <2>7. \A q \in Paths : q # p => disk'[q] = disk[q]
    BY <2>2 DEF TypeInv
  <2>8. \A q : Noted(q) => Noted(q)'
    BY <2>2, <1>1 DEF Noted
  <2>9. Fits(f, r)
    <3>1. j.at = NoFile \/ j.at \in Paths
      BY <1>4
    <3> QED BY <1>0, <2>2, <2>8, <1>5 DEF Fits
  <2>10. \A q \in Paths : Handled(f, r, q)
    BY <1>0, <2>6, <2>7 DEF Handled
  <2> QED BY <1>1, <2>2, <2>3, <2>4, <2>5, <2>9, <2>10, FlushMoves
<1>12. CASE \E p \in Paths : RemoveFails(f, p)
  <2>1. PICK p \in Paths : RemoveFails(f, p)
    BY <1>12
  <2> DEFINE r == [dirty |-> j.dirty, gone |-> j.gone \ {p}, at |-> j.at, taken |-> j.taken,
                   failed |-> j.failed]
  <2>2. /\ p \in j.gone /\ UNCHANGED <<changes, disk>> /\ adrift' = adrift \cup {p}
        /\ flush' = [flush EXCEPT ![f].gone = @ \ {p}]
    BY <1>0, <2>1 DEF RemoveFails
  <2>3. flush' = [flush EXCEPT ![f] = r]
    <3>1. [j EXCEPT !.gone = j.gone \ {p}] = r
      BY <1>4
    <3> QED BY <1>0, <2>2, <3>1
  <2>4. r \in Job
    BY <1>2 DEF Job
  <2>5. disk' \in [Paths -> Int \cup {NoFile}] /\ changes' \subseteq Paths
    BY <2>2 DEF TypeInv
  <2>6. \A q : Noted(q) => Noted(q)'
    BY <2>2, <1>1 DEF Noted
  <2>7. Fits(f, r)
    BY <1>0, <2>2, <2>6, <1>5 DEF Fits
  <2>8. \A q \in Paths : Handled(f, r, q)
    BY <1>0, <2>2 DEF Handled
  <2>9. changes \subseteq changes' /\ adrift \subseteq adrift'
    BY <2>2
  <2> QED BY <1>1, <2>3, <2>4, <2>5, <2>7, <2>8, <2>9, FlushMoves
<1>13. CASE EndFlush(f)
  <2>1. /\ DOMAIN j.dirty = {} /\ changes' = changes \cup j.gone /\ disk' = disk
        /\ flush' = [flush EXCEPT ![f] = NoFlush] /\ adrift' = adrift
    BY <1>0, <1>13 DEF EndFlush, Written, NoteChange
  <2>2. /\ flush'[f] = NoFlush /\ Flushes' = Flushes
        /\ \A g \in Flushes : g # f => flush'[g] = flush[g]
    BY <2>1 DEF TypeInv, Flushes
  <2>3. TypeInv'
    BY <2>1, <1>1, <1>4 DEF TypeInv, Flushes
  <2>4. \A p : Content(p)' = Content(p) /\ (Noted(p) => Noted(p)')
    BY <1>1, <2>1 DEF Content, Noted
  <2>5. ASSUME NEW g \in Flushes, Running(g)'
        PROVE  Running(g) /\ g # f /\ flush'[g] = flush[g]
    BY <2>2, <2>5 DEF Running
  <2>6. JobInv'
    BY <1>1, <2>2, <2>5 DEF JobInv
  <2>7. FlushFollows'
    <3>1. ASSUME NEW g \in Flushes, Running(g), NEW k, k = flush[g]
          PROVE  JobFollows(k)'
      <4>1. JobFollows(k) /\ changes \subseteq changes'
        BY <2>1, <3>1 DEF FlushFollows
      <4> QED BY <1>1, <2>1, <2>4, <4>1 DEF JobFollows
    <3> QED BY <2>2, <2>5, <3>1 DEF FlushFollows
  <2>8. ASSUME NEW p \in Paths, p \notin adrift
        PROVE  disk'[p] = Content(p)' \/ Due(p)' \/ files'[p] \in unseen'
    <3>1. disk[p] = Content(p) \/ Due(p) \/ files[p] \in unseen
      BY <1>1, <2>8 DEF DifferentMeansDue, JobInv
    <3>2. CASE p \in changes \/ files[p] \in newer
      BY <1>1, <2>1, <3>2 DEF Due
    <3>3. CASE \E g \in Flushes : Follows(g, p)
      <4>1. PICK g \in Flushes : Follows(g, p)
        BY <3>3
      <4>2. CASE g = f
        BY <1>0, <2>1, <4>1, <4>2 DEF Follows, Due
      <4>3. CASE g # f
        <5>1. Follows(g, p)'
          BY <1>1, <2>2, <2>4, <4>1, <4>3 DEF Follows
        <5> QED BY <2>2, <5>1 DEF Due
      <4> QED BY <4>2, <4>3
    <3> QED BY <1>1, <2>1, <2>4, <3>1, <3>2, <3>3 DEF Due
  <2> QED BY <2>1, <2>3, <2>6, <2>7, <2>8 DEF IInv, DifferentMeansDue
<1> QED BY <1>7, <1>8, <1>9, <1>10, <1>11, <1>12, <1>13 DEF FlushStep

(* A flush begins: everything the game changed is its own from here on,    *)
(* and what another one has of it that is older is adrift.                 *)
LEMMA FlushBegins ==
  ASSUME Constants, IInv, NEW f \in Flushes, FlushProfile(f)
  PROVE  IInv'
<1>. TypeInv /\ JobInv /\ FlushFollows /\ DifferentMeansDue
  BY DEF IInv
<1>1. PICK seen : seen = {p \in Present : files[p] \in newer} \cup (changes \cap Present)
  OBVIOUS
<1>2. PICK r : r = [dirty |-> Restrict(files, seen), gone |-> changes \ Present,
                    at |-> NoFile, taken |-> NoFile, failed |-> FALSE]
  OBVIOUS
<1>3. PICK mine : mine = seen \cup changes
  OBVIOUS
<1>4. /\ up /\ flush[f] = NoFlush /\ flush' = [flush EXCEPT ![f] = r]
      /\ changes' = {} /\ newer' = {}
      /\ adrift' = (adrift \ mine) \cup {p \in mine : \E g \in Flushes : Stale(g, p)}
      /\ UNCHANGED <<up, files, bytes, made, unseen, disk>>
  BY <1>1, <1>2, <1>3 DEF FlushProfile, NoGame
<1>5. NoFile \notin Objects
  BY DEF Constants
<1>6. seen \subseteq Paths /\ \A p \in seen : files[p] \in Objects
  BY <1>1 DEF Present, TypeInv
<1>7. r \in Job
  <2>1. Restrict(files, seen) \in UNION {[S -> Objects] : S \in SUBSET Paths}
    BY <1>6 DEF Restrict
  <2> QED BY <2>1, <1>2 DEF Job, TypeInv
<1>8. flush'[f] = r /\ r # NoFlush /\ Flushes' = Flushes
  BY <1>4, <1>7 DEF Constants, TypeInv, Flushes
<1>9. \A g \in Flushes : g # f => flush'[g] = flush[g]
  BY <1>4 DEF TypeInv
<1>10. /\ DOMAIN r.dirty = seen /\ (\A p \in seen : r.dirty[p] = files[p])
       /\ r.gone = changes \ Present /\ r.at = NoFile /\ r.taken = NoFile
  BY <1>2 DEF Restrict
<1>11. TypeInv'
  BY <1>4, <1>7 DEF TypeInv, Flushes
<1>12. JobInv'
  <2> SUFFICES ASSUME NEW g \in Flushes, Running(g)'
               PROVE  /\ up
                      /\ flush'[g].at # NoFile => flush'[g].at \in DOMAIN flush'[g].dirty
                      /\ flush'[g].at = NoFile => flush'[g].taken = NoFile
                      /\ flush'[g].gone \cap DOMAIN flush'[g].dirty = {}
    BY <1>4, <1>8 DEF JobInv
  <2>1. CASE g = f
    BY <1>1, <1>4, <1>8, <1>10, <2>1
  <2>2. CASE g # f
    BY <1>9, <2>2 DEF JobInv, Running
  <2> QED BY <2>1, <2>2
<1>13. \A p : Content(p)' = Content(p)
  BY <1>4 DEF Content
<1>14. \A p \in Paths : p \in changes \/ files[p] \in newer => p \in mine
  BY <1>1, <1>3, <1>5 DEF Present, TypeInv
<1>15. FlushFollows'
  <2>1. JobFollows(r)'
    BY <1>4, <1>10 DEF JobFollows, Present, TypeInv
  <2>2. ASSUME NEW g \in Flushes, g # f, Running(g), NEW k, k = flush[g]
        PROVE  JobFollows(k)'
    <3>1. JobFollows(k) /\ k # NoFlush /\ k \in Job
      BY <2>2 DEF FlushFollows, Running, TypeInv
    <3>2. /\ k.gone \cap DOMAIN k.dirty = {} /\ k.gone \subseteq Paths
          /\ DOMAIN k.dirty \subseteq Paths
          /\ k.taken # NoFile => k.at \in DOMAIN k.dirty
      BY <2>2, <3>1 DEF JobInv, Job
    <3>3. \A p \in mine : Stale(g, p) => p \in adrift'
      BY <1>4
    <3>4. ASSUME NEW p \in DOMAIN k.dirty, k.dirty[p] # files[p]
          PROVE  p \in adrift'
      <4>1. Stale(g, p)
        BY <2>2, <3>1, <3>2, <3>4 DEF Stale, InHand, Follows
      <4>2. p \in changes \cup adrift
        BY <3>1, <3>4 DEF JobFollows
      <4> QED BY <1>3, <1>4, <3>3, <4>1, <4>2
    <3>5. ASSUME NEW p \in k.gone, files[p] # NoFile
          PROVE  p \in adrift'
      <4>1. Stale(g, p)
        BY <2>2, <3>1, <3>2, <3>5 DEF Stale, InHand, Follows
      <4>2. p \in changes \cup adrift
        BY <3>1, <3>5 DEF JobFollows
      <4> QED BY <1>3, <1>4, <3>3, <4>1, <4>2
    <3>6. ASSUME k.taken # NoFile, k.taken # Content(k.at), ~Noted(k.at)'
          PROVE  k.at \in adrift'
      <4>1. PICK p \in Paths : p = k.at /\ p \in DOMAIN k.dirty
        BY <3>2, <3>6
      <4>2. Stale(g, p)
        BY <2>2, <3>1, <3>2, <3>6, <4>1 DEF Stale, InHand, Follows
      <4>3. p \in changes \/ files[p] \in newer \/ p \in adrift
        BY <1>4, <3>1, <3>6, <4>1 DEF JobFollows, Noted
      <4> QED BY <1>4, <1>14, <3>3, <4>1, <4>2, <4>3
    <3> QED BY <1>4, <1>13, <3>4, <3>5, <3>6 DEF JobFollows
  <2> QED BY <1>8, <1>9, <2>1, <2>2 DEF FlushFollows, Running
<1>16. ASSUME NEW p \in Paths, p \notin adrift'
       PROVE  disk'[p] = Content(p)' \/ Due(p)' \/ files'[p] \in unseen'
  <2>1. CASE p \in mine
    <3>1. p \in seen \/ (p \in changes \ Present /\ files[p] = NoFile)
      BY <1>1, <1>3, <2>1 DEF Present
    <3>2. r.at # p
      BY <1>10 DEF Constants
    <3>3. Follows(f, p)'
      BY <1>4, <1>8, <1>10, <3>1, <3>2 DEF Follows
    <3> QED BY <1>8, <3>3 DEF Due
  <2>2. CASE p \notin mine
    <3>1. disk[p] = Content(p) \/ Due(p) \/ files[p] \in unseen
      BY <1>4, <1>16, <2>2 DEF DifferentMeansDue
    <3>2. CASE Due(p)
      <4>1. PICK g \in Flushes : Follows(g, p)
        BY <1>14, <2>2, <3>2 DEF Due
      <4>2. g # f
        BY <1>4, <4>1 DEF Follows
      <4>3. Follows(g, p)'
        BY <1>4, <1>9, <1>13, <4>1, <4>2 DEF Follows
      <4> QED BY <1>8, <4>3 DEF Due
    <3> QED BY <1>4, <1>13, <3>1, <3>2
  <2> QED BY <2>1, <2>2
<1> QED BY <1>11, <1>12, <1>15, <1>16 DEF IInv, DifferentMeansDue

(* A start: the first flush takes every file read.                         *)
LEMMA StartStep ==
  ASSUME Constants, IInv, Start
  PROVE  IInv'
<1>. TypeInv /\ JobInv
  BY DEF IInv
<1>1. PICK o : o = CHOOSE f \in [Stored -> Objects] : IsInjective(f)
  OBVIOUS
<1>2. PICK moved : moved = {m \in Moves : Movable(m)}
  OBVIOUS
<1>3. PICK place : place = [p \in Paths |->
        IF \E m \in moved : m[2] = p THEN (CHOOSE m \in moved : m[2] = p)[1]
        ELSE IF \E m \in moved : m[1] = p THEN NoFile ELSE p]
  OBVIOUS
<1>4. /\ ~up /\ up' = TRUE
      /\ files' = [p \in Paths |-> IF place[p] \in Stored THEN o[place[p]] ELSE NoFile]
      /\ changes' = UNION {{m[1], m[2]} : m \in moved}
      /\ bytes' = [x \in Objects |->
           IF x \in Range(o) THEN disk[CHOOSE p \in Stored : o[p] = x] ELSE Empty]
      /\ newer' = Range(o) /\ unseen' = {} /\ adrift' = {}
      /\ UNCHANGED <<disk, flush, made>>
  BY <1>1, <1>2, <1>3 DEF Start
<1>5. o \in [Stored -> Objects]
  <2>1. PICK i \in [Paths -> Objects] : IsInjective(i)
    BY DEF Constants
  <2>2. Stored \subseteq Paths
    BY DEF Stored
  <2>3. Restrict(i, Stored) \in [Stored -> Objects] /\ IsInjective(Restrict(i, Stored))
    BY <2>1, <2>2 DEF Restrict, IsInjective
  <2> QED BY <2>3, <1>1
<1>6. \A x \in Range(o) : x \in Objects /\ disk[CHOOSE p \in Stored : o[p] = x] \in Int
  <2> SUFFICES ASSUME NEW x \in Range(o)
               PROVE  x \in Objects /\ disk[CHOOSE p \in Stored : o[p] = x] \in Int
    OBVIOUS
  <2>1. \E p \in Stored : o[p] = x
    BY <1>5 DEF Range
  <2>2. (CHOOSE p \in Stored : o[p] = x) \in Stored
    BY <2>1
  <2> QED BY <2>1, <2>2, <1>5 DEF Stored, TypeInv
<1>7. \A m \in moved : m[1] \in Paths /\ m[2] \in Paths
  BY <1>2 DEF Constants
<1>8. changes' \subseteq Paths
  BY <1>4, <1>7
<1>9. TypeInv'
  <2>1. files' \in [Paths -> Objects \cup {NoFile}]
    BY <1>4, <1>5
  <2>2. bytes' \in [Objects -> Int]
    BY <1>4, <1>6, VersionTypes
  <2> QED BY <2>1, <2>2, <1>4, <1>6, <1>8 DEF TypeInv, Flushes
<1>10. \A f : ~Running(f)'
  BY <1>4 DEF JobInv, Running, Flushes
<1>11. JobInv' /\ FlushFollows'
  BY <1>10 DEF JobInv, FlushFollows
<1>12. ASSUME NEW p \in Paths
       PROVE  disk'[p] = Content(p)' \/ Due(p)' \/ files'[p] \in unseen'
  <2>1. CASE place[p] \in Stored
    BY <2>1, <1>4, <1>5 DEF Due, Range
  <2>2. CASE place[p] \notin Stored
    <3>1. files'[p] = NoFile /\ Content(p)' = NoFile
      BY <2>2, <1>4 DEF Content
    <3>2. CASE \E m \in moved : m[2] = p \/ m[1] = p
      BY <3>2, <1>4 DEF Due
    <3>3. CASE ~\E m \in moved : m[2] = p \/ m[1] = p
      BY <3>1, <3>3, <2>2, <1>3, <1>4 DEF Stored
    <3> QED BY <3>2, <3>3
  <2> QED BY <2>1, <2>2
<1> QED BY <1>9, <1>11, <1>12 DEF IInv, DifferentMeansDue

LEMMA InitHolds ==
  ASSUME Constants, Init
  PROVE  IInv
<1>1. IsFiniteSet(OldFiles)
  BY FS_Subset DEF Constants
<1>2. Cardinality(OldFiles) \in Nat
  BY <1>1, FS_CardinalityType
<1>3. disk \in [Paths -> Int \cup {NoFile}]
  <2>1. PICK v \in [OldFiles -> 1..Cardinality(OldFiles)] :
          disk = [p \in Paths |-> IF p \in OldFiles THEN v[p] ELSE NoFile]
    BY DEF Init
  <2> QED BY <2>1, <1>2
<1>4. ~up /\ \A f \in Flushes : flush[f] = NoFlush
  BY DEF Init
<1>5. TypeInv
  <2>1. files \in [Paths -> Objects \cup {NoFile}] /\ bytes \in [Objects -> Int]
    BY DEF Init, Empty
  <2>2. flush \in [Flushes -> Job \cup {NoFlush}]
    BY DEF Init
  <2>3. up \in BOOLEAN
    BY DEF Init
  <2>4. made \in Int /\ newer \subseteq Objects /\ changes \subseteq Paths
        /\ unseen \subseteq Objects
    BY DEF Init
  <2> QED BY <2>1, <2>2, <2>3, <2>4, <1>3 DEF TypeInv
<1> QED BY <1>4, <1>5 DEF IInv, JobInv, FlushFollows, Running, DifferentMeansDue

LEMMA CrashStep ==
  ASSUME Constants, IInv, Crash
  PROVE  IInv'
<1>1. ~up' /\ \A f \in Flushes : flush'[f] = NoFlush
  BY DEF Crash
<1>2. TypeInv'
  <2>1. files' \in [Paths -> Objects \cup {NoFile}] /\ bytes' \in [Objects -> Int]
    BY DEF Crash, Empty
  <2>2. flush' \in [Flushes -> Job \cup {NoFlush}] /\ Flushes' = Flushes
    BY DEF Crash, Flushes
  <2> QED BY <2>1, <2>2 DEF Crash, IInv, TypeInv
<1> QED BY <1>1, <1>2 DEF IInv, JobInv, FlushFollows, Running, DifferentMeansDue, Flushes

LEMMA StepHolds ==
  ASSUME Constants, IInv, [Next]_vars
  PROVE  IInv'
<1>1. CASE UNCHANGED vars
  <2>1. \A f, p : Follows(f, p)' <=> Follows(f, p)
    BY <1>1 DEF vars, Follows, Content
  <2> QED BY <1>1, <2>1 DEF vars, IInv, TypeInv, JobInv, FlushFollows, JobFollows,
              DifferentMeansDue, Due, Noted, Content, Running, Flushes
<1>2. CASE Next
  BY <1>2, StartStep, CrashStep, GameSteps, FlushBegins, FlushSteps DEF Next
<1> QED BY <1>1, <1>2

(* A path whose file in the storage is not the profile's is due, however   *)
(* many flushes run, whatever the game does meanwhile and whichever writes *)
(* fail: no change falls between two flushes but the three kinds that the  *)
(* property names, a change the clock hides, a removal that failed and a   *)
(* path that two flushes had in hand (profile-opfs.js flushProfileOpfs,    *)
(* vfs.js MemBackend.noteChange, worker.js flushProfile).                  *)
THEOREM DifferentMeansDueAlways ==
  ASSUME Constants
  PROVE  Spec => []DifferentMeansDue
<1>1. Init => IInv
  BY InitHolds
<1>2. IInv /\ [Next]_vars => IInv'
  BY StepHolds
<1>3. IInv => DifferentMeansDue
  BY DEF IInv
<1> QED BY <1>1, <1>2, <1>3, PTL DEF Spec

----------------------------------------------------------------------------
(* The last copies.                                                        *)

AloneInv ==
  \A f \in Flushes : f \in alone /\ Running(f) => \A g \in Flushes : Running(g) => g = f

(* The version the game writes next is new to the storage.                 *)
FreshInv ==
  /\ made \in Nat
  /\ \A o \in Objects : bytes[o] < NextVersion
  /\ \A p \in Stored : disk[p] < NextVersion
  /\ \A f \in Flushes : Running(f) /\ flush[f].taken # NoFile => flush[f].taken < NextVersion

(* A flush whose record is r leaves o's bytes in the storage d, or writes  *)
(* them, before it removes anything.                                       *)
Secured(r, d, o) ==
  \/ \E q \in Paths \ (r.gone \cup DOMAIN r.dirty) : d[q] = bytes[o]
  \/ \E q \in DOMAIN r.dirty :
       r.dirty[q] = o /\ (r.at = q => r.taken \in {NoFile, bytes[o]})

(* The files whose last copies KeepsLastCopies speaks of.                  *)
Kept(p) == p \in Present \ adrift /\ files[p] \notin unseen /\ Content(p) # Empty
AllSecured(r, d) ==
  ~r.failed => \A p \in Paths : Kept(p) /\ Content(p) \in Range(d) => Secured(r, d, files[p])
AloneSecured == \A f \in Flushes : f \in alone /\ Running(f) => AllSecured(flush[f], disk)

KeepsInv == AloneInv /\ FreshInv /\ AloneSecured

LEMMA Versioned ==
  ASSUME Constants, FreshInv
  PROVE  /\ NextVersion \in Nat \ {0} /\ Empty = 0
         /\ made' = made + 1 => NextVersion' = NextVersion + 1
<1>1. IsFiniteSet(OldFiles)
  BY FS_Subset DEF Constants
<1>2. PICK n \in Nat : n = Cardinality(OldFiles)
  BY <1>1, FS_CardinalityType
<1>3. NextVersion = made + n + 1 /\ NextVersion' = made' + n + 1
  BY <1>2 DEF NextVersion
<1> QED BY <1>3 DEF FreshInv, Empty

(* What a file in memory is.                                               *)
LEMMA ContentFacts ==
  ASSUME Constants, TypeInv, NEW p \in Present
  PROVE  /\ p \in Paths /\ files[p] \in Objects /\ files[p] # NoFile
         /\ Content(p) = bytes[files[p]] /\ Content(p) \in Int /\ Content(p) # NoFile
<1>1. p \in Paths /\ files[p] \in Objects /\ files[p] # NoFile
  BY DEF Present, TypeInv
<1> QED BY <1>1 DEF Content, TypeInv, Constants

(* The version the game writes next is nowhere in the storage yet.         *)
LEMMA NextIsNew ==
  ASSUME Constants, IInv, KeepsInv
  PROVE  NextVersion \notin Range(disk)
<1>1. NextVersion \in Nat \ {0} /\ NextVersion # NoFile
  BY Versioned DEF KeepsInv, Constants
<1>2. ASSUME NEW p \in Paths, disk[p] = NextVersion
      PROVE  FALSE
  <2>1. disk[p] < NextVersion
    BY <1>1, <1>2 DEF KeepsInv, FreshInv, Stored
  <2> QED BY <1>1, <1>2, <2>1
<1> QED BY <1>2 DEF Range, IInv, TypeInv

(* The game's steps: each file that is kept afterwards was before, under   *)
(* some path, or its bytes are new.                                        *)
LEMMA GameKeeps ==
  ASSUME Constants, IInv, KeepsInv, UNCHANGED <<disk, flush, alone>>, TypeInv',
         made' = made + 1,
         \A o \in Objects : bytes'[o] \in {bytes[o], NextVersion, Empty},
         \A p \in Paths : Kept(p)' =>
           \/ Content(p)' = NextVersion
           \/ \E q \in Paths : Kept(q) /\ files[q] = files'[p] /\ Content(q) = Content(p)'
  PROVE  KeepsInv'
<1>1. NextVersion \in Nat \ {0} /\ Empty = 0 /\ NextVersion' = NextVersion + 1
  BY Versioned DEF KeepsInv
<1>2. TypeInv /\ Flushes' = Flushes /\ \A f : Running(f)' <=> Running(f)
  BY DEF IInv, Flushes, Running
<1>3. FreshInv'
  <2>1. made' \in Nat
    BY DEF KeepsInv, FreshInv
  <2>2. \A o \in Objects : bytes'[o] < NextVersion'
    <3>1. \A o \in Objects : bytes[o] \in Int /\ bytes[o] < NextVersion
      BY <1>2 DEF TypeInv, KeepsInv, FreshInv
    <3> QED BY <1>1, <3>1
  <2>3. \A p \in Stored' : disk'[p] < NextVersion'
    <3>1. Stored' = Stored
      BY DEF Stored
    <3>2. \A p \in Stored : disk[p] \in Int /\ disk[p] < NextVersion
      BY <1>2 DEF TypeInv, KeepsInv, FreshInv, Stored
    <3> QED BY <1>1, <3>1, <3>2
  <2>4. ASSUME NEW f \in Flushes, Running(f), flush[f].taken # NoFile
        PROVE  flush[f].taken < NextVersion'
    <3>1. flush[f].taken \in Int /\ flush[f].taken < NextVersion
      BY <1>2, <2>4 DEF TypeInv, Running, Job, KeepsInv, FreshInv
    <3> QED BY <1>1, <3>1
  <2> QED BY <1>2, <2>1, <2>2, <2>3, <2>4 DEF FreshInv
<1>4. AloneInv'
  BY <1>2 DEF KeepsInv, AloneInv
<1>5. ASSUME NEW f \in Flushes, f \in alone, Running(f), NEW r, r = flush[f]
      PROVE  AllSecured(r, disk)'
  <2> SUFFICES ASSUME ~r.failed, NEW p \in Paths, Kept(p)', Content(p)' \in Range(disk)
               PROVE  Secured(r, disk, files[p])'
    BY <1>5 DEF AllSecured
  <2>1. Content(p)' # NextVersion
    BY NextIsNew
  <2>2. PICK q \in Paths : Kept(q) /\ files[q] = files'[p] /\ Content(q) = Content(p)'
    BY <2>1
  <2>3. Secured(r, disk, files[q])
    BY <1>5, <2>2 DEF KeepsInv, AloneSecured, AllSecured
  <2>4. files[q] # NoFile
    BY <2>2 DEF Kept, Present
  <2>5. bytes'[files'[p]] = bytes[files[q]]
    BY <2>2, <2>4 DEF Content
  <2> QED BY <2>2, <2>3, <2>5 DEF Secured
<1>6. AloneSecured'
  BY <1>2, <1>5 DEF AloneSecured
<1> QED BY <1>3, <1>4, <1>6 DEF KeepsInv

LEMMA CreateKeeps ==
  ASSUME Constants, IInv, KeepsInv, NEW p \in Paths, Create(p)
  PROVE  KeepsInv'
<1>1. PICK o : o = CHOOSE x \in Unused : TRUE
  OBVIOUS
<1>2. o \in Objects /\ o \notin Held
  BY <1>1 DEF Create, Unused
<1>3. /\ UNCHANGED <<disk, flush, alone>> /\ made' = made + 1 /\ adrift \subseteq adrift'
      /\ files' = [files EXCEPT ![p] = o] /\ bytes' = [bytes EXCEPT ![o] = Empty]
      /\ unseen' = unseen \ {o}
  BY <1>1 DEF Create, Change
<1>4. TypeInv /\ TypeInv' /\ NoFile \notin Objects
  BY CreateStep DEF IInv, Constants
<1>5. \A x \in Objects : bytes'[x] = IF x = o THEN Empty ELSE bytes[x]
  BY <1>3, <1>4 DEF TypeInv
<1>6. \A q \in Paths : files'[q] = IF q = p THEN o ELSE files[q]
  BY <1>3, <1>4 DEF TypeInv
<1>7. ASSUME NEW q \in Paths, Kept(q)'
      PROVE  Kept(q) /\ files[q] = files'[q] /\ Content(q) = Content(q)'
  <2>1. q # p
    BY <1>2, <1>4, <1>5, <1>6, <1>7 DEF Kept, Content
  <2>2. files'[q] = files[q] /\ files[q] # NoFile /\ files[q] \in Objects /\ files[q] # o
    BY <1>2, <1>4, <1>6, <1>7, <2>1 DEF Kept, Present, TypeInv, Held
  <2>3. Content(q) = Content(q)'
    BY <1>5, <2>2 DEF Content
  <2> QED BY <1>3, <1>7, <2>2, <2>3 DEF Kept, Present
<1>8. \A x \in Objects : bytes'[x] \in {bytes[x], NextVersion, Empty}
  BY <1>5
<1> QED BY <1>3, <1>4, <1>7, <1>8, GameKeeps

(* The bytes of the file at p change.                                      *)
LEMMA BytesKeep ==
  ASSUME Constants, IInv, KeepsInv, NEW p \in Paths, files[p] # NoFile,
         UNCHANGED <<disk, flush, files, alone>>, made' = made + 1, TypeInv',
         adrift \subseteq adrift', unseen \subseteq unseen' \cup {files[p]},
         bytes' = [bytes EXCEPT ![files[p]] = NextVersion]
  PROVE  KeepsInv'
<1>1. PICK o \in Objects : o = files[p]
  BY DEF IInv, TypeInv
<1>2. \A x \in Objects : bytes'[x] = IF x = o THEN NextVersion ELSE bytes[x]
  BY <1>1 DEF IInv, TypeInv
<1>3. ASSUME NEW q \in Paths, Kept(q)', Content(q)' # NextVersion
      PROVE  Kept(q) /\ files[q] = files'[q] /\ Content(q) = Content(q)'
  <2>1. files'[q] = files[q] /\ files[q] # NoFile /\ files[q] \in Objects
    BY <1>3 DEF Kept, Present, IInv, TypeInv
  <2>2. files[q] # o
    BY <1>2, <1>3, <2>1 DEF Content
  <2>3. Content(q) = Content(q)'
    BY <1>2, <2>1, <2>2 DEF Content
  <2> QED BY <1>1, <1>3, <2>1, <2>2, <2>3 DEF Kept, Present
<1>4. \A x \in Objects : bytes'[x] \in {bytes[x], NextVersion, Empty}
  BY <1>2
<1> QED BY <1>3, <1>4, GameKeeps

LEMMA SameKeeps ==
  ASSUME KeepsInv, UNCHANGED <<files, bytes, disk, flush, made, unseen, adrift, alone>>
  PROVE  KeepsInv'
<1>1. /\ NextVersion' = NextVersion /\ Stored' = Stored /\ Flushes' = Flushes
      /\ \A p : Kept(p)' <=> Kept(p)
      /\ \A p : Content(p)' = Content(p)
  BY DEF NextVersion, Stored, Flushes, Kept, Present, Content
<1>2. \A f : Running(f)' <=> Running(f)
  BY <1>1 DEF Running
<1>3. AloneInv' /\ FreshInv'
  BY <1>1, <1>2 DEF KeepsInv, AloneInv, FreshInv
<1>4. \A f : AllSecured(flush[f], disk) => AllSecured(flush[f], disk)'
  BY <1>1 DEF AllSecured, Secured
<1>5. AloneSecured'
  BY <1>1, <1>2, <1>4 DEF KeepsInv, AloneSecured
<1> QED BY <1>3, <1>5 DEF KeepsInv

LEMMA GameStepsKeep ==
  ASSUME Constants, IInv, KeepsInv,
         \/ \E p \in Paths : Create(p) \/ Write(p) \/ Shrink(p) \/ Unlink(p)
         \/ \E p, q \in Paths : Rename(p, q)
         \/ Tick
  PROVE  KeepsInv'
<1>0. TypeInv /\ TypeInv'
  BY GameSteps DEF IInv
<1>1. ASSUME NEW p \in Paths, Write(p) \/ Shrink(p)
      PROVE  KeepsInv'
  <2>1. /\ files[p] # NoFile /\ made' = made + 1 /\ UNCHANGED <<disk, flush, files, alone>>
        /\ bytes' = [bytes EXCEPT ![files[p]] = NextVersion]
        /\ adrift \subseteq adrift' /\ unseen \subseteq unseen' \cup {files[p]}
    BY <1>1 DEF Write, Shrink, Change, Dated
  <2> QED BY <1>0, <2>1, BytesKeep
<1>2. ASSUME NEW p \in Paths, Unlink(p)
      PROVE  KeepsInv'
  <2>1. /\ UNCHANGED <<disk, flush, bytes, unseen, alone>> /\ made' = made + 1
        /\ files' = [files EXCEPT ![p] = NoFile] /\ adrift \subseteq adrift'
    BY <1>2 DEF Unlink, Change
  <2>2. \A q \in Paths : files'[q] = IF q = p THEN NoFile ELSE files[q]
    BY <1>0, <2>1 DEF TypeInv
  <2>3. ASSUME NEW q \in Paths, Kept(q)'
        PROVE  Kept(q) /\ files[q] = files'[q] /\ Content(q) = Content(q)'
    <3>1. files'[q] = files[q] /\ files[q] # NoFile
      BY <2>2, <2>3 DEF Kept, Present
    <3>2. Content(q) = Content(q)'
      BY <2>1, <3>1 DEF Content
    <3> QED BY <2>1, <2>3, <3>1, <3>2 DEF Kept, Present
  <2>4. \A x \in Objects : bytes'[x] \in {bytes[x], NextVersion, Empty}
    BY <2>1
  <2> QED BY <1>0, <2>1, <2>3, <2>4, GameKeeps
<1>3. ASSUME NEW p \in Paths, NEW q \in Paths, Rename(p, q)
      PROVE  KeepsInv'
  <2>1. /\ UNCHANGED <<disk, flush, bytes, unseen, alone>> /\ made' = made + 1
        /\ p # q /\ files[p] # NoFile
        /\ files' = [files EXCEPT ![p] = NoFile, ![q] = files[p]]
        /\ adrift' = adrift \cup (IF p \in adrift THEN {q} ELSE {})
    BY <1>3 DEF Rename, Change
  <2>2. \A x \in Paths : files'[x] = IF x = q THEN files[p] ELSE IF x = p THEN NoFile ELSE files[x]
    BY <1>0, <2>1 DEF TypeInv
  <2>3. ASSUME NEW x \in Paths, Kept(x)'
        PROVE  \E y \in Paths : Kept(y) /\ files[y] = files'[x] /\ Content(y) = Content(x)'
    <3>1. PICK y \in Paths : y = IF x = q THEN p ELSE x
      OBVIOUS
    <3>2. files'[x] = files[y] /\ files[y] # NoFile
      BY <2>2, <2>3, <3>1 DEF Kept, Present
    <3>3. y \notin adrift
      BY <2>1, <2>3, <3>1 DEF Kept
    <3>4. Content(y) = Content(x)'
      BY <2>1, <3>2 DEF Content
    <3>5. Kept(y)
      BY <2>1, <2>3, <3>2, <3>3, <3>4 DEF Kept, Present
    <3> QED BY <3>2, <3>4, <3>5
  <2>4. \A x \in Objects : bytes'[x] \in {bytes[x], NextVersion, Empty}
    BY <2>1
  <2> QED BY <1>0, <2>1, <2>3, <2>4, GameKeeps
<1>4. CASE Tick
  BY <1>4, SameKeeps DEF Tick
<1> QED BY <1>1, <1>2, <1>3, <1>4, CreateKeeps

(* A flush under way: what its record, j, is.                              *)
LEMMA JobFacts ==
  ASSUME Constants, IInv, KeepsInv, NEW f \in Flushes, Running(f), NEW j, j = flush[f]
  PROVE  /\ j \in Job /\ j.gone \subseteq Paths /\ DOMAIN j.dirty \subseteq Paths
         /\ \A p \in DOMAIN j.dirty : j.dirty[p] \in Objects
         /\ j.at \in Paths \cup {NoFile} /\ j.taken \in Int \cup {NoFile}
         /\ j = [dirty |-> j.dirty, gone |-> j.gone, at |-> j.at, taken |-> j.taken,
                 failed |-> j.failed]
         /\ j.at # NoFile => j.at \in DOMAIN j.dirty
         /\ j.at = NoFile => j.taken = NoFile
         /\ j.gone \cap DOMAIN j.dirty = {}
         /\ j.taken # NoFile => j.taken < NextVersion
         /\ f \in alone => AllSecured(j, disk)
         /\ disk \in [Paths -> Int \cup {NoFile}]
         /\ \A p \in Paths : disk[p] # NoFile => disk[p] < NextVersion
<1>1. j \in Job
  BY DEF IInv, TypeInv, Running
<1>2. PICK S \in SUBSET Paths : j.dirty \in [S -> Objects]
  BY <1>1 DEF Job
<1>3. /\ j.gone \subseteq Paths /\ DOMAIN j.dirty \subseteq Paths
      /\ \A p \in DOMAIN j.dirty : j.dirty[p] \in Objects
      /\ j.at \in Paths \cup {NoFile} /\ j.taken \in Int \cup {NoFile}
      /\ j = [dirty |-> j.dirty, gone |-> j.gone, at |-> j.at, taken |-> j.taken,
              failed |-> j.failed]
  BY <1>1, <1>2 DEF Job
<1>4. /\ j.at # NoFile => j.at \in DOMAIN j.dirty
      /\ j.at = NoFile => j.taken = NoFile
      /\ j.gone \cap DOMAIN j.dirty = {}
  BY DEF IInv, JobInv
<1>5. /\ j.taken # NoFile => j.taken < NextVersion
      /\ \A p \in Paths : disk[p] # NoFile => disk[p] < NextVersion
  BY DEF KeepsInv, FreshInv, Stored
<1>6. f \in alone => AllSecured(j, disk)
  BY DEF KeepsInv, AloneSecured
<1> QED BY <1>1, <1>3, <1>4, <1>5, <1>6 DEF IInv, TypeInv

(* The flush f becomes r, the storage d.                                   *)
LEMMA FlushKeeps ==
  ASSUME Constants, IInv, KeepsInv, NEW f \in Flushes, Running(f), NEW r \in Job,
         NEW d \in [Paths -> Int \cup {NoFile}],
         flush' = [flush EXCEPT ![f] = r], disk' = d, adrift \subseteq adrift',
         UNCHANGED <<files, bytes, made, unseen, alone>>,
         r.taken # NoFile => r.taken < NextVersion,
         \A p \in Paths : d[p] # NoFile => d[p] < NextVersion,
         f \in alone => AllSecured(r, d)
  PROVE  KeepsInv'
<1>1. /\ flush'[f] = r /\ r # NoFlush /\ Flushes' = Flushes /\ NextVersion' = NextVersion
      /\ \A g \in Flushes : g # f => flush'[g] = flush[g]
  BY DEF Constants, IInv, TypeInv, Flushes, NextVersion
<1>2. \A g \in Flushes : Running(g)' <=> Running(g)
  BY <1>1 DEF Running
<1>3. AloneInv'
  BY <1>1, <1>2 DEF KeepsInv, AloneInv
<1>4. FreshInv'
  <2>1. Stored' = {p \in Paths : d[p] # NoFile}
    BY DEF Stored
  <2>2. ASSUME NEW g \in Flushes, Running(g), flush'[g].taken # NoFile
        PROVE  flush'[g].taken < NextVersion
    BY <1>1, <2>2 DEF KeepsInv, FreshInv
  <2> QED BY <1>1, <1>2, <2>1, <2>2 DEF KeepsInv, FreshInv
<1>5. AllSecured(r, d) => AllSecured(r, d)'
  <2>1. \A p : (Kept(p)' => Kept(p)) /\ Content(p)' = Content(p)
    BY DEF Kept, Present, Content
  <2> QED BY <2>1 DEF AllSecured, Secured
<1>6. ASSUME NEW g \in Flushes, g \in alone, Running(g)
      PROVE  g = f
  BY <1>6 DEF KeepsInv, AloneInv
<1>7. AloneSecured'
  BY <1>1, <1>2, <1>5, <1>6 DEF AloneSecured
<1> QED BY <1>3, <1>4, <1>7 DEF KeepsInv

LEMMA OpenKeeps ==
  ASSUME Constants, IInv, KeepsInv, NEW f \in Flushes, NEW p \in Paths, OpenFile(f, p)
  PROVE  KeepsInv'
<1>0. PICK j : j = flush[f]
  OBVIOUS
<1>1. Running(f) /\ UNCHANGED <<files, bytes, made, unseen, adrift, alone>>
  BY DEF OpenFile, NoGame, Running
<1>2. /\ j \in Job /\ j.at = NoFile /\ j.taken = NoFile /\ p \in DOMAIN j.dirty
      /\ j = [dirty |-> j.dirty, gone |-> j.gone, at |-> j.at, taken |-> j.taken,
              failed |-> j.failed]
      /\ f \in alone => AllSecured(j, disk)
      /\ disk \in [Paths -> Int \cup {NoFile}]
      /\ \A q \in Paths : disk[q] # NoFile => disk[q] < NextVersion
  BY <1>0, <1>1, JobFacts DEF OpenFile
<1>3. PICK r : r = [dirty |-> j.dirty, gone |-> j.gone, at |-> p, taken |-> NoFile,
                    failed |-> j.failed]
  OBVIOUS
<1>4. flush' = [flush EXCEPT ![f] = r]
  <2>1. flush' = [flush EXCEPT ![f].at = p]
    BY DEF OpenFile
  <2>2. [j EXCEPT !.at = p] = r
    BY <1>2, <1>3
  <2> QED BY <1>0, <2>1, <2>2
<1>5. /\ r.dirty = j.dirty /\ r.gone = j.gone /\ r.at = p /\ r.taken = NoFile
      /\ r.failed = j.failed /\ r \in Job
  BY <1>2, <1>3 DEF Job
<1>6. Empty \in Int /\ Empty < NextVersion
  BY Versioned DEF KeepsInv
<1>7. PICK d : d = disk'
  OBVIOUS
<1>8. /\ d \in [Paths -> Int \cup {NoFile}]
      /\ \A q \in Paths : d[q] = disk[q] \/ (q = p /\ disk[q] = NoFile /\ d[q] = Empty)
  BY <1>2, <1>6, <1>7 DEF OpenFile
<1>9. \A v : v # Empty => (v \in Range(d) => v \in Range(disk))
  BY <1>2, <1>8 DEF Range
<1>10. \A q \in Paths : d[q] # NoFile => d[q] < NextVersion
  BY <1>2, <1>6, <1>8
<1>11. ASSUME f \in alone
       PROVE  AllSecured(r, d)
  <2> SUFFICES ASSUME ~r.failed, NEW q \in Paths, Kept(q), Content(q) \in Range(d)
               PROVE  Secured(r, d, files[q])
    BY DEF AllSecured
  <2>1. Secured(j, disk, files[q])
    BY <1>2, <1>5, <1>9, <1>11 DEF AllSecured, Kept
  <2>2. bytes[files[q]] # NoFile
    BY ContentFacts DEF Kept, IInv
  <2>3. CASE \E x \in Paths \ (j.gone \cup DOMAIN j.dirty) : disk[x] = bytes[files[q]]
    BY <1>5, <1>8, <2>2, <2>3 DEF Secured
  <2>4. CASE \E x \in DOMAIN j.dirty : j.dirty[x] = files[q]
    BY <1>5, <2>4 DEF Secured
  <2> QED BY <2>1, <2>3, <2>4 DEF Secured
<1> QED BY <1>1, <1>4, <1>5, <1>7, <1>8, <1>10, <1>11, FlushKeeps

LEMMA WriteKeeps ==
  ASSUME Constants, IInv, KeepsInv, NEW f \in Flushes, WriteFile(f)
  PROVE  KeepsInv'
<1>0. PICK j : j = flush[f]
  OBVIOUS
<1>1. Running(f) /\ UNCHANGED <<files, bytes, made, unseen, adrift, alone, disk>>
  BY DEF WriteFile, NoGame, Running
<1>2. /\ j \in Job /\ j.taken = NoFile /\ j.at \in DOMAIN j.dirty
      /\ j = [dirty |-> j.dirty, gone |-> j.gone, at |-> j.at, taken |-> j.taken,
              failed |-> j.failed]
      /\ j.dirty[j.at] \in Objects
      /\ f \in alone => AllSecured(j, disk)
      /\ disk \in [Paths -> Int \cup {NoFile}]
      /\ \A q \in Paths : disk[q] # NoFile => disk[q] < NextVersion
  BY <1>0, <1>1, JobFacts DEF WriteFile
<1>3. PICK o \in Objects : o = j.dirty[j.at]
  BY <1>2
<1>4. PICK r : r = [dirty |-> j.dirty, gone |-> j.gone, at |-> j.at, taken |-> bytes[o],
                    failed |-> j.failed]
  OBVIOUS
<1>5. flush' = [flush EXCEPT ![f] = r]
  <2>1. flush' = [flush EXCEPT ![f].taken = bytes[o]]
    BY <1>0, <1>3 DEF WriteFile
  <2>2. [j EXCEPT !.taken = bytes[o]] = r
    BY <1>2, <1>4
  <2> QED BY <1>0, <2>1, <2>2
<1>6. bytes[o] \in Int /\ bytes[o] < NextVersion
  BY DEF IInv, TypeInv, KeepsInv, FreshInv
<1>7. /\ r.dirty = j.dirty /\ r.gone = j.gone /\ r.at = j.at /\ r.taken = bytes[o]
      /\ r.failed = j.failed /\ r \in Job
  BY <1>2, <1>4, <1>6 DEF Job
<1>8. ASSUME f \in alone
      PROVE  AllSecured(r, disk)
  <2> SUFFICES ASSUME ~r.failed, NEW q \in Paths, Kept(q), Content(q) \in Range(disk)
               PROVE  Secured(r, disk, files[q])
    BY DEF AllSecured
  <2>1. Secured(j, disk, files[q])
    BY <1>2, <1>7, <1>8 DEF AllSecured
  <2>2. CASE \E x \in Paths \ (j.gone \cup DOMAIN j.dirty) : disk[x] = bytes[files[q]]
    BY <1>7, <2>2 DEF Secured
  <2>3. CASE \E x \in DOMAIN j.dirty : j.dirty[x] = files[q]
    BY <1>3, <1>7, <2>3 DEF Secured
  <2> QED BY <2>1, <2>2, <2>3 DEF Secured
<1>9. PICK d : d = disk
  OBVIOUS
<1> QED BY <1>1, <1>2, <1>5, <1>6, <1>7, <1>8, <1>9, FlushKeeps

LEMMA CloseKeeps ==
  ASSUME Constants, IInv, KeepsInv, NEW f \in Flushes, CloseFile(f)
  PROVE  KeepsInv'
<1>0. PICK j : j = flush[f]
  OBVIOUS
<1>1. Running(f) /\ UNCHANGED <<files, bytes, made, unseen, adrift, alone>>
  BY DEF CloseFile, NoGame, Running
<1>2. /\ j \in Job /\ j.taken \in Int /\ j.taken # NoFile /\ j.at \in DOMAIN j.dirty
      /\ DOMAIN j.dirty \subseteq Paths /\ j.gone \cap DOMAIN j.dirty = {}
      /\ j.taken < NextVersion
      /\ f \in alone => AllSecured(j, disk)
      /\ disk \in [Paths -> Int \cup {NoFile}]
      /\ \A q \in Paths : disk[q] # NoFile => disk[q] < NextVersion
  BY <1>0, <1>1, JobFacts DEF CloseFile
<1>3. PICK p \in DOMAIN j.dirty, t \in Int : p = j.at /\ t = j.taken
  BY <1>2
<1>4. PICK r : r = Leave(j, p)
  OBVIOUS
<1>5. /\ r \in Job /\ r.at = NoFile /\ r.taken = NoFile /\ r.gone = j.gone
      /\ r.failed = j.failed /\ DOMAIN r.dirty = DOMAIN j.dirty \ {p}
      /\ \A q \in DOMAIN j.dirty \ {p} : r.dirty[q] = j.dirty[q]
  BY <1>2, <1>4, JobLeaves
<1>6. flush' = [flush EXCEPT ![f] = r]
  BY <1>0, <1>3, <1>4 DEF CloseFile, IInv, TypeInv
<1>7. PICK d : d = disk'
  OBVIOUS
<1>8. /\ p \in Paths /\ d \in [Paths -> Int \cup {NoFile}] /\ d[p] = t
      /\ \A q \in Paths \ {p} : d[q] = disk[q]
  BY <1>0, <1>2, <1>3, <1>7 DEF CloseFile
<1>9. \A v : v \in Range(d) => v \in Range(disk) \/ v = t
  BY <1>2, <1>8 DEF Range
<1>10. \A q \in Paths : d[q] # NoFile => d[q] < NextVersion
  BY <1>2, <1>3, <1>8
<1>11. ASSUME f \in alone
       PROVE  AllSecured(r, d)
  <2> SUFFICES ASSUME ~r.failed, NEW x \in Paths, Kept(x), Content(x) \in Range(d)
               PROVE  Secured(r, d, files[x])
    BY DEF AllSecured
  <2>0. PICK o \in Objects : o = files[x] /\ Content(x) = bytes[o]
    BY ContentFacts DEF Kept, IInv
  <2>1. CASE bytes[o] = t
    <3>1. p \in Paths \ (r.gone \cup DOMAIN r.dirty)
      BY <1>2, <1>3, <1>5, <1>8
    <3> QED BY <1>8, <2>0, <2>1, <3>1 DEF Secured
  <2>2. CASE bytes[o] # t
    <3>1. Secured(j, disk, o)
      BY <1>2, <1>5, <1>9, <1>11, <2>0, <2>2 DEF AllSecured
    <3>2. CASE \E q \in Paths \ (j.gone \cup DOMAIN j.dirty) : disk[q] = bytes[o]
      <4>1. PICK q \in Paths \ (j.gone \cup DOMAIN j.dirty) : disk[q] = bytes[o]
        BY <3>2
      <4>2. q \in Paths \ (r.gone \cup DOMAIN r.dirty) /\ d[q] = bytes[o]
        BY <1>5, <1>8, <4>1
      <4> QED BY <2>0, <4>2 DEF Secured
    <3>3. CASE \E q \in DOMAIN j.dirty :
                 j.dirty[q] = o /\ (j.at = q => j.taken \in {NoFile, bytes[o]})
      <4>1. PICK q \in DOMAIN j.dirty :
              j.dirty[q] = o /\ (j.at = q => j.taken \in {NoFile, bytes[o]})
        BY <3>3
      <4>2. q # p
        BY <1>2, <1>3, <2>2, <4>1
      <4> QED BY <1>5, <2>0, <4>1, <4>2 DEF Secured
    <3> QED BY <3>1, <3>2, <3>3 DEF Secured
  <2> QED BY <2>1, <2>2
<1> QED BY <1>1, <1>5, <1>6, <1>7, <1>8, <1>10, <1>11, FlushKeeps

LEMMA FailKeeps ==
  ASSUME Constants, IInv, KeepsInv, NEW f \in Flushes, NEW p \in Paths, WriteFails(f, p)
  PROVE  KeepsInv'
<1>0. PICK j : j = flush[f]
  OBVIOUS
<1>1. Running(f) /\ UNCHANGED <<files, bytes, made, unseen, adrift, alone, disk>>
  BY DEF WriteFails, Failing, NoGame, Running
<1>2. /\ j \in Job /\ disk \in [Paths -> Int \cup {NoFile}]
      /\ \A q \in Paths : disk[q] # NoFile => disk[q] < NextVersion
  BY <1>0, <1>1, JobFacts
<1>3. PICK r : r = [Leave(j, p) EXCEPT !.failed = TRUE]
  OBVIOUS
<1>4. Leave(j, p) \in Job /\ Leave(j, p).taken = NoFile
  BY <1>2, JobLeaves
<1>5. r \in Job /\ r.taken = NoFile /\ r.failed = TRUE
  BY <1>3, <1>4 DEF Job
<1>6. flush' = [flush EXCEPT ![f] = r]
  BY <1>0, <1>3 DEF WriteFails, Failing, IInv, TypeInv
<1>7. AllSecured(r, disk)
  BY <1>5 DEF AllSecured
<1>8. PICK d : d = disk
  OBVIOUS
<1> QED BY <1>1, <1>2, <1>5, <1>6, <1>7, <1>8, FlushKeeps

(* A path that a flush is done with, removed or not: what is in another    *)
(* place stays there.                                                      *)
LEMMA RemoveKeeps ==
  ASSUME Constants, IInv, KeepsInv, NEW f \in Flushes, NEW p \in Paths,
         RemoveFile(f, p) \/ RemoveFails(f, p)
  PROVE  KeepsInv'
<1>0. PICK j : j = flush[f]
  OBVIOUS
<1>1. /\ Running(f) /\ UNCHANGED <<files, bytes, made, unseen, alone>>
      /\ adrift \subseteq adrift'
  BY DEF RemoveFile, RemoveFails, Written, NoGame, Running
<1>2. /\ j \in Job /\ DOMAIN j.dirty = {} /\ p \in j.gone
      /\ j.at = NoFile /\ j.taken = NoFile
      /\ j = [dirty |-> j.dirty, gone |-> j.gone, at |-> j.at, taken |-> j.taken,
              failed |-> j.failed]
      /\ f \in alone => AllSecured(j, disk)
      /\ disk \in [Paths -> Int \cup {NoFile}]
      /\ \A q \in Paths : disk[q] # NoFile => disk[q] < NextVersion
  BY <1>0, <1>1, JobFacts DEF RemoveFile, RemoveFails, Written
<1>3. PICK r : r = [dirty |-> j.dirty, gone |-> j.gone \ {p}, at |-> j.at, taken |-> j.taken,
                    failed |-> j.failed]
  OBVIOUS
<1>4. flush' = [flush EXCEPT ![f] = r]
  <2>1. flush' = [flush EXCEPT ![f].gone = @ \ {p}]
    BY DEF RemoveFile, RemoveFails
  <2>2. [j EXCEPT !.gone = j.gone \ {p}] = r
    BY <1>2, <1>3
  <2> QED BY <1>0, <2>1, <2>2
<1>5. /\ r.dirty = j.dirty /\ r.gone = j.gone \ {p} /\ r.taken = NoFile
      /\ r.failed = j.failed /\ r \in Job
  BY <1>2, <1>3 DEF Job
<1>6. PICK d : d = disk'
  OBVIOUS
<1>7. /\ d \in [Paths -> Int \cup {NoFile}] /\ \A q \in Paths \ {p} : d[q] = disk[q]
      /\ d[p] \in {disk[p], NoFile}
  BY <1>2, <1>6 DEF RemoveFile, RemoveFails
<1>8. \A v : v \in Range(d) => v \in Range(disk) \/ v = NoFile
  BY <1>2, <1>7 DEF Range
<1>9. \A q \in Paths : d[q] # NoFile => d[q] < NextVersion
  BY <1>2, <1>7
<1>10. ASSUME f \in alone
       PROVE  AllSecured(r, d)
  <2> SUFFICES ASSUME ~r.failed, NEW x \in Paths, Kept(x), Content(x) \in Range(d)
               PROVE  Secured(r, d, files[x])
    BY DEF AllSecured
  <2>1. Content(x) = bytes[files[x]] /\ Content(x) # NoFile
    BY ContentFacts DEF Kept, IInv
  <2>2. Secured(j, disk, files[x])
    BY <1>2, <1>5, <1>8, <1>10, <2>1 DEF AllSecured
  <2>3. PICK q \in Paths \ j.gone : disk[q] = bytes[files[x]]
    BY <1>2, <2>2 DEF Secured
  <2>4. q \in Paths \ (r.gone \cup DOMAIN r.dirty) /\ d[q] = bytes[files[x]]
    BY <1>2, <1>5, <1>7, <2>3
  <2> QED BY <2>4 DEF Secured
<1> QED BY <1>1, <1>4, <1>5, <1>6, <1>7, <1>9, <1>10, FlushKeeps

LEMMA EndKeeps ==
  ASSUME Constants, IInv, KeepsInv, NEW f \in Flushes, EndFlush(f)
  PROVE  KeepsInv'
<1>1. /\ Running(f) /\ UNCHANGED <<files, bytes, made, unseen, disk, adrift>>
      /\ flush' = [flush EXCEPT ![f] = NoFlush] /\ alone' = alone \ {f}
  BY DEF EndFlush, Written, NoGame, Running
<1>2. /\ flush'[f] = NoFlush /\ Flushes' = Flushes
      /\ \A g \in Flushes : g # f => flush'[g] = flush[g]
  BY <1>1 DEF IInv, TypeInv, Flushes
<1>3. \A g \in Flushes : Running(g)' => Running(g) /\ flush'[g] = flush[g]
  BY <1>2 DEF Running
<1>4. NextVersion' = NextVersion /\ Stored' = Stored
  BY <1>1 DEF NextVersion, Stored
<1>5. FreshInv'
  BY <1>1, <1>2, <1>3, <1>4 DEF KeepsInv, FreshInv
<1>6. AloneInv'
  BY <1>1, <1>2, <1>3 DEF KeepsInv, AloneInv
<1>7. \A g \in Flushes : ~(g \in alone' /\ Running(g)')
  BY <1>1, <1>3 DEF KeepsInv, AloneInv
<1>8. AloneSecured'
  BY <1>2, <1>7 DEF AloneSecured
<1> QED BY <1>5, <1>6, <1>8 DEF KeepsInv

(* A flush begins on its own: what is in the storage it does not remove,   *)
(* or it writes it.                                                        *)
LEMMA BeginKeeps ==
  ASSUME Constants, IInv, KeepsInv, NEW f \in Flushes, FlushProfile(f)
  PROVE  KeepsInv'
<1>1. PICK seen : seen = {p \in Present : files[p] \in newer} \cup (changes \cap Present)
  OBVIOUS
<1>2. PICK r : r = [dirty |-> Restrict(files, seen), gone |-> changes \ Present,
                    at |-> NoFile, taken |-> NoFile, failed |-> FALSE]
  OBVIOUS
<1>3. PICK mine : mine = seen \cup changes
  OBVIOUS
<1>4. /\ up /\ flush[f] = NoFlush /\ flush' = [flush EXCEPT ![f] = r]
      /\ adrift' = (adrift \ mine) \cup {p \in mine : \E g \in Flushes : Stale(g, p)}
      /\ alone' = IF \E g \in Flushes : flush[g] # NoFlush THEN {} ELSE {f}
      /\ UNCHANGED <<files, bytes, made, unseen, disk>>
  BY <1>1, <1>2, <1>3 DEF FlushProfile, NoGame
<1>5. /\ DOMAIN r.dirty = seen /\ (\A p \in seen : r.dirty[p] = files[p])
      /\ r.gone = changes \ Present /\ r.at = NoFile /\ r.taken = NoFile
  BY <1>2 DEF Restrict
<1>6. /\ flush'[f] = r /\ Flushes' = Flushes
      /\ \A g \in Flushes : g # f => flush'[g] = flush[g]
  BY <1>4 DEF IInv, TypeInv, Flushes
<1>7. /\ Present' = Present /\ Stored' = Stored /\ NextVersion' = NextVersion
      /\ \A p : Content(p)' = Content(p)
  BY <1>4 DEF Present, Stored, NextVersion, Content
<1>8. FreshInv'
  <2>1. ASSUME NEW g \in Flushes, Running(g)', flush'[g].taken # NoFile
        PROVE  flush'[g].taken < NextVersion
    BY <1>5, <1>6, <2>1 DEF KeepsInv, FreshInv, Running
  <2> QED BY <1>4, <1>6, <1>7, <2>1 DEF KeepsInv, FreshInv
<1>9. AloneInv'
  BY <1>4, <1>6 DEF AloneInv, Running
<1>10. ASSUME \A g \in Flushes : flush[g] = NoFlush, NEW p \in Paths, Kept(p)'
       PROVE  Secured(r, disk, files[p])'
  <2>1. p \in Present /\ p \notin adrift' /\ files[p] \notin unseen /\ Content(p) = bytes[files[p]]
    BY <1>4, <1>7, <1>10, ContentFacts DEF Kept, IInv
  <2>2. p \notin r.gone /\ (p \in seen <=> p \in changes \/ files[p] \in newer)
    BY <1>1, <1>5, <2>1
  <2>3. CASE p \in seen
    <3>1. NoFile # p
      BY DEF Constants
    <3> QED BY <1>4, <1>5, <2>3, <3>1 DEF Secured
  <2>4. CASE p \notin seen
    <3>1. p \notin adrift
      BY <1>3, <1>4, <2>1, <2>2, <2>4
    <3>2. ~Due(p)
      BY <1>10, <2>2, <2>4 DEF Due, Follows
    <3>3. disk[p] = Content(p)
      BY <1>4, <2>1, <3>1, <3>2 DEF IInv, DifferentMeansDue
    <3>4. p \in Paths \ (r.gone \cup DOMAIN r.dirty)
      BY <1>5, <2>2, <2>4
    <3> QED BY <1>4, <2>1, <3>3, <3>4 DEF Secured
  <2> QED BY <2>3, <2>4
<1>11. AloneSecured'
  <2>1. ASSUME \A g \in Flushes : flush[g] = NoFlush
        PROVE  AllSecured(r, disk)'
    BY <1>10, <2>1 DEF AllSecured
  <2>2. \A g \in Flushes : g \in alone' =>
          g = f /\ \A h \in Flushes : flush[h] = NoFlush
    BY <1>4
  <2>3. disk' = disk
    BY <1>4
  <2> QED BY <1>6, <2>1, <2>2, <2>3 DEF AloneSecured, AllSecured, Secured
<1> QED BY <1>8, <1>9, <1>11 DEF KeepsInv

(* A start: nothing is newer than what the storage has.                    *)
LEMMA StartKeeps ==
  ASSUME Constants, IInv, KeepsInv, Start
  PROVE  KeepsInv'
<1>. TypeInv /\ JobInv
  BY DEF IInv
<1>1. PICK o : o = CHOOSE f \in [Stored -> Objects] : IsInjective(f)
  OBVIOUS
<1>2. /\ ~up
      /\ bytes' = [x \in Objects |->
           IF x \in Range(o) THEN disk[CHOOSE p \in Stored : o[p] = x] ELSE Empty]
      /\ UNCHANGED <<disk, flush, made>>
  BY <1>1 DEF Start
<1>3. o \in [Stored -> Objects] /\ IsInjective(o)
  <2>1. PICK i \in [Paths -> Objects] : IsInjective(i)
    BY DEF Constants
  <2>2. Stored \subseteq Paths
    BY DEF Stored
  <2>3. Restrict(i, Stored) \in [Stored -> Objects] /\ IsInjective(Restrict(i, Stored))
    BY <2>1, <2>2 DEF Restrict, IsInjective
  <2> QED BY <2>3, <1>1
<1>4. \A f : ~Running(f)'
  BY <1>2 DEF JobInv, Running, Flushes
<1>5. FreshInv'
  <2>1. Empty < NextVersion /\ NextVersion' = NextVersion /\ Stored' = Stored
    BY <1>2, Versioned DEF KeepsInv, NextVersion, Stored
  <2>2. \A p \in Stored : disk[p] < NextVersion
    BY DEF KeepsInv, FreshInv
  <2>3. ASSUME NEW x \in Objects
        PROVE  bytes'[x] < NextVersion
    <3>1. CASE x \in Range(o)
      <4>1. \E p \in Stored : o[p] = x
        BY <1>3, <3>1 DEF Range
      <4>2. PICK p \in Stored : p = CHOOSE q \in Stored : o[q] = x
        BY <4>1
      <4> QED BY <1>2, <2>2, <3>1, <4>2
    <3>2. CASE x \notin Range(o)
      BY <1>2, <2>1, <3>2
    <3> QED BY <3>1, <3>2
  <2> QED BY <1>2, <1>4, <2>1, <2>2, <2>3 DEF KeepsInv, FreshInv
<1>6. AloneInv' /\ AloneSecured'
  BY <1>4 DEF AloneInv, AloneSecured
<1> QED BY <1>5, <1>6 DEF KeepsInv

(* A worker that dies leaves the storage, and nothing else.                *)
LEMMA CrashKeeps ==
  ASSUME Constants, KeepsInv, Crash
  PROVE  KeepsInv'
<1>1. /\ bytes' = [o \in Objects |-> Empty] /\ UNCHANGED <<disk, made>> /\ Flushes' = Flushes
      /\ flush' = [f \in Flushes |-> NoFlush]
  BY DEF Crash, Flushes
<1>2. \A f : ~Running(f)'
  BY <1>1 DEF Running
<1>3. FreshInv'
  <2>1. Empty < NextVersion /\ NextVersion' = NextVersion /\ Stored' = Stored
    BY <1>1, Versioned DEF KeepsInv, NextVersion, Stored
  <2> QED BY <1>1, <1>2, <2>1 DEF KeepsInv, FreshInv
<1>4. AloneInv' /\ AloneSecured'
  BY <1>2 DEF AloneInv, AloneSecured
<1> QED BY <1>3, <1>4 DEF KeepsInv

LEMMA InitKeeps ==
  ASSUME Constants, Init
  PROVE  KeepsInv
<1>1. IsFiniteSet(OldFiles)
  BY FS_Subset DEF Constants
<1>2. PICK n \in Nat : n = Cardinality(OldFiles)
  BY <1>1, FS_CardinalityType
<1>3. NextVersion = n + 1 /\ made \in Nat
  BY <1>2 DEF Init, NextVersion
<1>4. PICK v \in [OldFiles -> 1..n] :
        disk = [p \in Paths |-> IF p \in OldFiles THEN v[p] ELSE NoFile]
  BY <1>2 DEF Init
<1>5. \A p \in Stored : disk[p] < NextVersion
  BY <1>3, <1>4 DEF Stored
<1>6. \A f : ~Running(f)
  BY DEF Init, Running
<1>7. FreshInv
  BY <1>3, <1>5, <1>6 DEF Init, FreshInv, Empty
<1>8. AloneInv /\ AloneSecured
  BY <1>6 DEF AloneInv, AloneSecured
<1> QED BY <1>7, <1>8 DEF KeepsInv

LEMMA StepKeeps ==
  ASSUME Constants, IInv, KeepsInv, [Next]_vars
  PROVE  KeepsInv'
<1>1. CASE UNCHANGED vars
  BY <1>1, SameKeeps DEF vars
<1>2. CASE Next
  <2>1. ASSUME NEW f \in Flushes, NEW p \in Paths,
               WriteFails(f, p) \/ RemoveFails(f, p) \/ RemoveFile(f, p) \/ OpenFile(f, p)
        PROVE  KeepsInv'
    BY <2>1, FailKeeps, RemoveKeeps, OpenKeeps
  <2>2. ASSUME NEW f \in Flushes, FlushStep(f)
        PROVE  KeepsInv'
    BY <2>1, <2>2, WriteKeeps, CloseKeeps, EndKeeps DEF FlushStep
  <2>3. CASE \E f \in Flushes : FlushProfile(f) \/ FlushStep(f)
    BY <2>2, <2>3, BeginKeeps
  <2>4. CASE \E f \in Flushes, p \in Paths : WriteFails(f, p) \/ RemoveFails(f, p)
    BY <2>1, <2>4
  <2>5. CASE Start \/ Crash
    BY <2>5, StartKeeps, CrashKeeps
  <2>6. CASE \/ \E p \in Paths : Create(p) \/ Write(p) \/ Shrink(p) \/ Unlink(p)
             \/ \E p, q \in Paths : Rename(p, q)
             \/ Tick
    BY <2>6, GameStepsKeep
  <2> QED BY <1>2, <2>3, <2>4, <2>5, <2>6 DEF Next
<1> QED BY <1>1, <1>2

(* What a step does to the last copy of some bytes.                        *)
LEMMA StepKeepsCopies ==
  ASSUME Constants, IInv, KeepsInv, [Next]_vars
  PROVE  [KeepsLastCopies]_vars
<1> SUFFICES ASSUME NEW p \in Paths, Kept(p), Content(p) \in Range(disk), Next
             PROVE  \/ Content(p) \in Range(disk')
                    \/ \E q \in Stored : disk[q] = Content(p) /\ disk'[q] \notin {Content(p), NoFile}
                    \/ \E f \in Flushes \ alone : flush'[f] # flush[f]
  BY DEF KeepsLastCopies, Kept, Present
<1>1. /\ Content(p) # NoFile /\ Content(p) = bytes[files[p]] /\ Content(p) # Empty
      /\ NoFile \notin Int /\ disk \in [Paths -> Int \cup {NoFile}]
      /\ flush \in [Flushes -> Job \cup {NoFlush}]
  BY ContentFacts DEF Kept, IInv, TypeInv, Constants
<1>2. CASE disk' = disk
  BY <1>2
<1>3. ASSUME NEW f \in Flushes, NEW q \in Paths, OpenFile(f, q)
      PROVE  Content(p) \in Range(disk')
  <2>1. DOMAIN disk' = Paths /\ \A x \in Paths : disk[x] # NoFile => disk'[x] = disk[x]
    BY <1>1, <1>3 DEF OpenFile
  <2> QED BY <1>1, <2>1 DEF Range
<1>4. ASSUME NEW f \in Flushes, CloseFile(f)
      PROVE  \/ Content(p) \in Range(disk')
             \/ \E q \in Stored : disk[q] = Content(p) /\ disk'[q] \notin {Content(p), NoFile}
  <2>1. PICK j : j = flush[f]
    OBVIOUS
  <2>2. Running(f)
    BY <1>4 DEF CloseFile, Running
  <2>3. PICK at \in Paths : at = j.at /\ j.taken # NoFile
    BY <1>4, <2>1, <2>2, JobFacts DEF CloseFile
  <2>4. /\ DOMAIN disk' = Paths /\ disk'[at] = j.taken
        /\ \A x \in Paths \ {at} : disk'[x] = disk[x]
    BY <1>1, <1>4, <2>1, <2>3 DEF CloseFile
  <2>5. PICK q \in Paths : disk[q] = Content(p)
    BY <1>1 DEF Range
  <2>6. q \in Stored
    BY <1>1, <2>5 DEF Stored
  <2>7. CASE disk'[q] = Content(p)
    BY <2>4, <2>7 DEF Range
  <2>8. CASE disk'[q] # Content(p)
    <3>1. q = at
      BY <2>4, <2>5, <2>8
    <3> QED BY <2>3, <2>4, <2>5, <2>6, <2>8, <3>1
  <2> QED BY <2>7, <2>8
<1>5. ASSUME NEW f \in Flushes, NEW q \in Paths, RemoveFile(f, q)
      PROVE  Content(p) \in Range(disk') \/ (f \notin alone /\ flush'[f] # flush[f])
  <2>1. PICK j : j = flush[f]
    OBVIOUS
  <2>2. /\ Running(f) /\ DOMAIN j.dirty = {} /\ ~j.failed /\ q \in j.gone
        /\ disk' = [disk EXCEPT ![q] = NoFile]
    BY <1>5, <2>1 DEF RemoveFile, Written, Running
  <2>3. CASE f \in alone
    <3>1. Secured(j, disk, files[p])
      BY <2>1, <2>2, <2>3, JobFacts DEF AllSecured
    <3>2. PICK x \in Paths \ j.gone : disk[x] = Content(p)
      BY <1>1, <2>2, <3>1 DEF Secured
    <3>3. disk'[x] = Content(p) /\ x \in DOMAIN disk'
      BY <1>1, <2>2, <3>2
    <3> QED BY <3>3 DEF Range
  <2>4. CASE f \notin alone
    <3>1. j \in Job
      BY <2>1, <2>2, JobFacts
    <3>2. flush'[f] = [j EXCEPT !.gone = j.gone \ {q}]
      BY <1>1, <1>5, <2>1 DEF RemoveFile
    <3>3. flush'[f].gone = j.gone \ {q}
      BY <3>1, <3>2 DEF Job
    <3>4. flush'[f] # flush[f]
      BY <2>1, <2>2, <3>3
    <3> QED BY <2>4, <3>4
  <2> QED BY <2>3, <2>4
<1>6. CASE Start \/ Tick \/ Crash
  BY <1>2, <1>6 DEF Start, Tick, Crash
<1>7. CASE \/ \E q \in Paths : Create(q) \/ Write(q) \/ Shrink(q) \/ Unlink(q)
           \/ \E q, x \in Paths : Rename(q, x)
  BY <1>2, <1>7 DEF Create, Write, Shrink, Unlink, Rename, Change
<1>8. CASE \E f \in Flushes : FlushProfile(f) \/ WriteFile(f) \/ EndFlush(f)
  BY <1>2, <1>8 DEF FlushProfile, WriteFile, EndFlush
<1>9. CASE \E f \in Flushes, q \in Paths : WriteFails(f, q) \/ RemoveFails(f, q)
  BY <1>2, <1>9 DEF WriteFails, Failing, RemoveFails
<1> QED BY <1>3, <1>4, <1>5, <1>6, <1>7, <1>8, <1>9 DEF Next, FlushStep

(* A flush that no other runs beside removes nothing from the storage that *)
(* the profile still has and the storage has nowhere else, whatever failed *)
(* before and whatever flushes that ran side by side left: the last copy   *)
(* of some bytes only goes when another file is written over it, so a file *)
(* moved is not gone from both places (profile-opfs.js flushProfileOpfs,   *)
(* which removes only after every write, and not after one that failed).   *)
THEOREM MovedFileStaysAlways ==
  ASSUME Constants
  PROVE  Spec => MovedFileStays
<1>1. Init => IInv /\ KeepsInv
  BY InitHolds, InitKeeps
<1>2. IInv /\ KeepsInv /\ [Next]_vars => IInv' /\ KeepsInv'
  BY StepHolds, StepKeeps
<1>3. IInv /\ KeepsInv /\ [Next]_vars => [KeepsLastCopies]_vars
  BY StepKeepsCopies
<1> QED BY <1>1, <1>2, <1>3, PTL DEF Spec, MovedFileStays

===============================================================================
