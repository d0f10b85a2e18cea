----------------------------- MODULE ProfileSave -----------------------------
(***************************************************************************)
(* The player's profile (settings, saves): files in memory the game works  *)
(* on (src/src/vfs/vfs.js MemBackend), copied every two seconds into the   *)
(* browser's storage while the game goes on (src/src/vfs/profile-opfs.js,  *)
(* called by src/src/host/web/worker.js), read back at the next start,     *)
(* where files the manifest says the game keeps elsewhere now are moved    *)
(* first (src/src/vfs/profile-moves.js).  The worker may die at any step,  *)
(* a write into the storage or a removal from it may fail, and nothing     *)
(* keeps a flush from starting while one before it still runs.             *)
(*                                                                         *)
(* Files are objects known by path; a rename keeps the object.  Contents   *)
(* are versions, Empty the one of a file just created.  Folders are left   *)
(* out: a path stands for a file whose folder exists.                      *)
(***************************************************************************)
EXTENDS Integers, FiniteSets, Functions

CONSTANTS
  Paths,
  Objects,      \* the files in memory
  Moves,        \* profileMoves: pairs of an old and a new path, no path in two
  OldFiles,     \* paths the storage holds at the first start
  MaxFlushes,   \* bound: flushes under way at once
  MaxChanges,   \* bound: changes the game makes
  MaxFailures,  \* bound: writes and removals that fail
  MaxCrashes,   \* bound: times the worker dies
  NoFile, NoFlush

Empty == 0
Versions == 0..(MaxChanges + Cardinality(OldFiles))

VARIABLES
  up,
  files,      \* path -> object
  bytes,      \* object -> its version
  newer,      \* the objects dated after the last flush
  changes,    \* paths made, renamed or removed since the last flush
  sameMs,     \* the clock still shows the date of the last flush
  disk,       \* path -> version in the storage
  flush,      \* the flushes under way
  made, failures, crashes,
  (* what the properties look at *)
  unseen,     \* objects whose last change is not one the next flush sees
  adrift,     \* paths a flush may have left wrong, with nothing noted
  alone       \* the flush no other has run beside, if one runs so

vars == <<up, files, bytes, newer, changes, sameMs, disk, flush, made, failures,
          crashes, unseen, adrift, alone>>

Flushes == 1..MaxFlushes
Held == {files[p] : p \in Paths} \ {NoFile}
InFlight == UNION {IF flush[f] = NoFlush THEN {} ELSE Range(flush[f].dirty) : f \in Flushes}
Unused == Objects \ (Held \cup InFlight)
Stored == {p \in Paths : disk[p] # NoFile}
Present == {p \in Paths : files[p] # NoFile}
Content(p) == IF files[p] = NoFile THEN NoFile ELSE bytes[files[p]]

(* Flush f has still to bring path p into the storage, as the profile has  *)
(* it now, or as it had it.                                                *)
InHand(f, p) == flush[f] # NoFlush /\ p \in DOMAIN flush[f].dirty \cup flush[f].gone
Follows(f, p) ==
  flush[f] # NoFlush /\
    \/ /\ p \in DOMAIN flush[f].dirty /\ flush[f].dirty[p] = files[p]
       /\ flush[f].at = p => flush[f].taken \in {NoFile, Content(p)}
    \/ p \in flush[f].gone /\ files[p] = NoFile
Stale(f, p) == InHand(f, p) /\ ~Follows(f, p)

NoteChange(S) == changes' = changes \cup S
(* A change that brings the object's date forward.                         *)
Dated(o) ==
  /\ newer' = IF sameMs THEN newer ELSE newer \cup {o}
  /\ unseen' = IF sameMs /\ o \notin newer THEN unseen \cup {o} ELSE unseen \ {o}
Change(S) ==
  /\ up /\ made < MaxChanges
  /\ made' = made + 1
  /\ adrift' = adrift \cup S
  /\ UNCHANGED <<up, disk, flush, sameMs, failures, crashes, alone>>
NextVersion == made + Cardinality(OldFiles) + 1

Init ==
  /\ up = FALSE /\ files = [p \in Paths |-> NoFile] /\ bytes = [o \in Objects |-> Empty]
  /\ newer = {} /\ changes = {} /\ sameMs = FALSE
  /\ \E v \in [OldFiles -> 1..Cardinality(OldFiles)] :
       /\ IsInjective(v)
       /\ disk = [p \in Paths |-> IF p \in OldFiles THEN v[p] ELSE NoFile]
  /\ flush = [f \in Flushes |-> NoFlush]
  /\ made = 0 /\ failures = 0 /\ crashes = 0
  /\ unseen = {} /\ adrift = {} /\ alone = {}

----------------------------------------------------------------------------
(* A start: the profile read from the storage, the files at an old path    *)
(* renamed to the new one unless a file is there.                          *)

Movable(m) == disk[m[1]] # NoFile /\ disk[m[2]] = NoFile

Start ==
  /\ ~up /\ up' = TRUE
  /\ LET o == CHOOSE o \in [Stored -> Objects] : IsInjective(o)
         moved == {m \in Moves : Movable(m)}
         place == [p \in Paths |->
           IF \E m \in moved : m[2] = p THEN (CHOOSE m \in moved : m[2] = p)[1]
           ELSE IF \E m \in moved : m[1] = p THEN NoFile ELSE p] IN
       /\ files' = [p \in Paths |-> IF place[p] \in Stored THEN o[place[p]] ELSE NoFile]
       /\ changes' = UNION {{m[1], m[2]} : m \in moved}
       /\ bytes' = [x \in Objects |->
            IF x \in Range(o) THEN disk[CHOOSE p \in Stored : o[p] = x] ELSE Empty]
       /\ newer' = Range(o)     \* the first flush takes every file
  /\ sameMs' = FALSE /\ unseen' = {} /\ adrift' = {}
  /\ UNCHANGED <<alone, disk, flush, made, failures, crashes>>

----------------------------------------------------------------------------
(* The game.                                                               *)

Create(p) ==
  /\ Change({}) /\ files[p] = NoFile /\ Unused # {}
  /\ LET o == CHOOSE o \in Unused : TRUE IN
       /\ files' = [files EXCEPT ![p] = o]
       /\ bytes' = [bytes EXCEPT ![o] = Empty]
       /\ newer' = (newer \ {o}) \cup (IF sameMs THEN {} ELSE {o})
       /\ unseen' = unseen \ {o}
  /\ NoteChange({p})

Write(p) ==
  /\ Change({}) /\ files[p] # NoFile
  /\ bytes' = [bytes EXCEPT ![files[p]] = NextVersion]
  /\ Dated(files[p])
  /\ UNCHANGED <<files, changes>>

(* Made shorter, or emptied by an open that truncates: the date stays.     *)
Shrink(p) ==
  /\ Change({}) /\ files[p] # NoFile
  /\ bytes' = [bytes EXCEPT ![files[p]] = NextVersion]
  /\ unseen' = IF files[p] \in newer THEN unseen ELSE unseen \cup {files[p]}
  /\ UNCHANGED <<files, newer, changes>>

Unlink(p) ==
  /\ Change({}) /\ files[p] # NoFile
  /\ files' = [files EXCEPT ![p] = NoFile]
  /\ NoteChange({p})
  /\ UNCHANGED <<bytes, newer, unseen>>

Rename(p, q) ==
  /\ Change(IF p \in adrift THEN {q} ELSE {}) /\ p # q /\ files[p] # NoFile
  /\ files' = [files EXCEPT ![p] = NoFile, ![q] = files[p]]
  /\ NoteChange({p, q})
  /\ UNCHANGED <<bytes, newer, unseen>>

Tick ==
  /\ up /\ sameMs /\ sameMs' = FALSE
  /\ UNCHANGED <<up, files, bytes, newer, changes, disk, flush, made, failures,
                 crashes, unseen, adrift, alone>>

----------------------------------------------------------------------------
(* A flush: what it has to write and to remove is decided when it starts;  *)
(* every step after that is one await of it.                               *)

NoGame == UNCHANGED <<up, files, bytes, made, unseen>>

FlushProfile(f) ==
  /\ up /\ flush[f] = NoFlush /\ \A g \in 1..(f - 1) : flush[g] # NoFlush
  /\ LET seen == {p \in Present : files[p] \in newer} \cup (changes \cap Present)
         mine == seen \cup changes IN
       /\ flush' = [flush EXCEPT ![f] =
            [dirty |-> Restrict(files, seen), gone |-> changes \ Present,
             at |-> NoFile, taken |-> NoFile, failed |-> FALSE]]
       /\ adrift' = (adrift \ mine) \cup {p \in mine : \E g \in Flushes : Stale(g, p)}
  /\ alone' = IF \E g \in Flushes : flush[g] # NoFlush THEN {} ELSE {f}
  /\ changes' = {} /\ newer' = {} /\ sameMs' = TRUE
  /\ NoGame /\ UNCHANGED <<disk, failures, crashes>>

(* getFileHandle: the file is there, empty, from here on.                  *)
OpenFile(f, p) ==
  /\ up /\ flush[f] # NoFlush /\ flush[f].at = NoFile /\ p \in DOMAIN flush[f].dirty
  /\ flush' = [flush EXCEPT ![f].at = p]
  /\ disk' = IF disk[p] = NoFile THEN [disk EXCEPT ![p] = Empty] ELSE disk
  /\ NoGame /\ UNCHANGED <<newer, changes, sameMs, failures, crashes, adrift, alone>>

(* createWritable, of a file no other flush has removed since, and write.  *)
WriteFile(f) ==
  /\ up /\ flush[f] # NoFlush /\ flush[f].at # NoFile /\ flush[f].taken = NoFile
  /\ disk[flush[f].at] # NoFile
  /\ flush' = [flush EXCEPT ![f].taken = bytes[flush[f].dirty[flush[f].at]]]
  /\ NoGame /\ UNCHANGED <<newer, changes, sameMs, disk, failures, crashes, adrift, alone>>

Leave(r, p) ==
  [r EXCEPT !.dirty = Restrict(r.dirty, DOMAIN r.dirty \ {p}), !.at = NoFile, !.taken = NoFile]

(* close: the bytes taken replace the file's.                              *)
CloseFile(f) ==
  /\ up /\ flush[f] # NoFlush /\ flush[f].taken # NoFile
  /\ disk' = [disk EXCEPT ![flush[f].at] = flush[f].taken]
  /\ flush' = [flush EXCEPT ![f] = Leave(@, @.at)]
  /\ NoGame /\ UNCHANGED <<newer, changes, sameMs, failures, crashes, adrift, alone>>

(* A call of the write at p fails: any may, and there is none on a file    *)
(* that was removed since it was opened.                                   *)
Removed(f, p) == flush[f] # NoFlush /\ flush[f].at = p /\ disk[p] = NoFile
Failing(f, p) ==
  /\ up /\ flush[f] # NoFlush /\ p \in DOMAIN flush[f].dirty /\ flush[f].at \in {p, NoFile}
  /\ IF Removed(f, p) THEN UNCHANGED failures
     ELSE failures < MaxFailures /\ failures' = failures + 1
  /\ flush' = [flush EXCEPT ![f] = [Leave(@, p) EXCEPT !.failed = TRUE]]
  /\ NoGame /\ UNCHANGED <<newer, sameMs, disk, crashes, adrift, alone>>

(* Mutant: what failed is not noted again.                                 *)
WriteFailsForgotten(f, p) == Failing(f, p) /\ UNCHANGED changes

WriteFails(f, p) == Failing(f, p) /\ NoteChange({p})

Written(f) == flush[f] # NoFlush /\ DOMAIN flush[f].dirty = {}

(* A file another flush is writing is locked, and not removed.             *)
Locked(p) == \E g \in Flushes : flush[g] # NoFlush /\ flush[g].at = p /\ flush[g].taken # NoFile

(* Mutants: the removals go on after a write that failed; what was         *)
(* to be removed is forgotten with the failed flush.                       *)
RemoveFileAnyway(f, p) ==
  /\ up /\ Written(f) /\ p \in flush[f].gone /\ ~Locked(p)
  /\ disk' = [disk EXCEPT ![p] = NoFile]
  /\ flush' = [flush EXCEPT ![f].gone = @ \ {p}]
  /\ NoGame /\ UNCHANGED <<newer, changes, sameMs, failures, crashes, adrift, alone>>
EndFlushForgetful(f) ==
  /\ up /\ Written(f) /\ (flush[f].failed \/ flush[f].gone = {})
  /\ flush' = [flush EXCEPT ![f] = NoFlush] /\ alone' = alone \ {f}
  /\ NoGame /\ UNCHANGED <<newer, changes, sameMs, disk, failures, crashes, adrift>>

RemoveFile(f, p) ==
  /\ up /\ Written(f) /\ ~flush[f].failed /\ p \in flush[f].gone /\ ~Locked(p)
  /\ disk' = [disk EXCEPT ![p] = NoFile]
  /\ flush' = [flush EXCEPT ![f].gone = @ \ {p}]
  /\ NoGame /\ UNCHANGED <<newer, changes, sameMs, failures, crashes, adrift, alone>>

(* removeEntry fails, on a file that is locked, and any may: the flush     *)
(* goes on as if the file was gone, and notes nothing.                     *)
RemoveFails(f, p) ==
  /\ up /\ Written(f) /\ ~flush[f].failed /\ p \in flush[f].gone
  /\ IF Locked(p) THEN UNCHANGED failures
     ELSE failures < MaxFailures /\ failures' = failures + 1
  /\ flush' = [flush EXCEPT ![f].gone = @ \ {p}]
  /\ adrift' = adrift \cup {p}
  /\ NoGame /\ UNCHANGED <<newer, changes, sameMs, disk, crashes, alone>>

EndFlush(f) ==
  /\ up /\ Written(f) /\ (flush[f].failed \/ flush[f].gone = {})
  /\ NoteChange(flush[f].gone)
  /\ flush' = [flush EXCEPT ![f] = NoFlush] /\ alone' = alone \ {f}
  /\ NoGame /\ UNCHANGED <<newer, sameMs, disk, failures, crashes, adrift>>

Crash ==
  /\ up /\ crashes < MaxCrashes /\ crashes' = crashes + 1 /\ up' = FALSE
  /\ files' = [p \in Paths |-> NoFile] /\ bytes' = [o \in Objects |-> Empty]
  /\ newer' = {} /\ changes' = {} /\ sameMs' = FALSE /\ unseen' = {} /\ adrift' = {} /\ alone' = {}
  /\ flush' = [f \in Flushes |-> NoFlush]
  /\ UNCHANGED <<disk, made, failures>>

FlushStep(f) ==
  \/ WriteFile(f) \/ CloseFile(f) \/ EndFlush(f)
  \/ \E p \in Paths :
       \/ OpenFile(f, p) \/ RemoveFile(f, p)
       \/ (Removed(f, p) /\ WriteFails(f, p)) \/ (Locked(p) /\ RemoveFails(f, p))

Next ==
  \/ Start \/ Tick \/ Crash
  \/ \E p \in Paths : Create(p) \/ Write(p) \/ Shrink(p) \/ Unlink(p)
  \/ \E p, q \in Paths : Rename(p, q)
  \/ \E f \in Flushes : FlushProfile(f) \/ FlushStep(f)
  \/ \E f \in Flushes, p \in Paths : WriteFails(f, p) \/ RemoveFails(f, p)

Spec == Init /\ [][Next]_vars

(* The game's worker calls flushProfile every two seconds while it runs    *)
(* (worker.js), and the storage answers or fails every call of a flush,    *)
(* whatever another one does.                                              *)
FlushGoesOn(f) == FlushProfile(f) \/ FlushStep(f)

FairSpec == Spec /\ WF_vars(Start) /\ \A f \in Flushes : WF_vars(FlushGoesOn(f))

----------------------------------------------------------------------------
(* Properties.                                                             *)

(* Somebody still has to bring path p into the storage: the next flush, or *)
(* one under way that has not taken the file's bytes or removed it yet.    *)
Due(p) ==
  \/ p \in changes
  \/ files[p] \in newer
  \/ \E f \in Flushes : Follows(f, p)

(* A path whose file in the storage is not the profile's is due: no change *)
(* falls between two flushes, whatever the game does while some run and    *)
(* whichever writes fail, but in three ways the code does lose one: a      *)
(* shrinking or a write dated in the flush's own millisecond (unseen); a   *)
(* removal that fails; and a flush that still has an older state of the    *)
(* path in hand when the next one takes it (adrift; profile-opfs.js        *)
(* flushProfileOpfs, worker.js flushProfile).                              *)
DifferentMeansDue ==
  up => \A p \in Paths \ adrift : disk[p] = Content(p) \/ Due(p) \/ files[p] \in unseen

(* A flush no other runs beside removes nothing from the storage that the  *)
(* profile still has and the storage has nowhere else, whatever failed     *)
(* before and whatever flushes that ran side by side left: a file moved is *)
(* not gone from both places, the last copy of its bytes only goes when    *)
(* another file is written over it (profile-opfs.js, its first comment).   *)
(* Of two that run side by side, one does remove what the other still      *)
(* writes at the new path.                                                 *)
KeepsLastCopies ==
  \A p \in Present \ adrift : LET v == Content(p) IN
    files[p] \notin unseen /\ v # Empty /\ v \in Range(disk) /\ up' =>
      \/ v \in Range(disk')
      \/ \E q \in Stored : disk[q] = v /\ disk'[q] \notin {v, NoFile}
      \/ \E f \in Flushes \ alone : flush'[f] # flush[f]
MovedFileStays == [][KeepsLastCopies]_vars

(* Once the game leaves its files alone the storage has them all, failed   *)
(* writes done again, and no other: a deleted save does not come back      *)
(* unless its removal failed, and a file is not an older one unless two    *)
(* flushes had it in hand at once.                                         *)
StorageFollows ==
  up /\ \A p \in Paths \ adrift : disk[p] = Content(p) \/ files[p] \in unseen
ProfileSaved == <>[]StorageFollows
==============================================================================
