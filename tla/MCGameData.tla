----------------------------- MODULE MCGameData -----------------------------
(***************************************************************************)
(* Small instances for TLC of the modules a game's data goes through: the  *)
(* link of a page and its worker (DataLink), the store of the game's       *)
(* blocks, the player's profile, with one flush at a time and a worker     *)
(* that may die ("profile") and with two ("flushes"), and the downloads    *)
(* over a thin link and over a faster one.  Each behaviour is one of them; *)
(* the others stay as they start.                                          *)
(***************************************************************************)
EXTENDS DataLink

CONSTANTS
  pa, pb, pc,          \* pieces
  k1, k2,              \* blocks
  f1, f2, o1, o2, o3,  \* files of the profile
  l1, l2, r1, j1, j2, j3,
  Garbage, Damaged, NoLog, NoFile, NoFlush,
  Parts                \* the modules looked at

VARIABLES
  part,
  phase, blob, flushed, log, map, end, logEnd, pending, failed, blocks, crashes,
  synced, torn, closed, exposed,
  up, files, bytes, newer, changes, sameMs, disk, flush, made, failures, deaths,
  unseen, adrift, alone,
  b, calls

storeVars == <<phase, blob, flushed, log, map, end, logEnd, pending, failed, blocks,
               crashes, synced, torn, closed, exposed>>
profileVars == <<up, files, bytes, newer, changes, sameMs, disk, flush, made, failures,
                 deaths, unseen, adrift, alone>>
readsVars == <<b, calls>>

BlockKeys == {k1, k2}
BlockSize == [k \in BlockKeys |-> IF k = k1 THEN 1 ELSE 2]
Store == INSTANCE BlockStore WITH
  Keys <- BlockKeys, Size <- BlockSize, SyncBlocks <- 2, MaxBlocks <- 2, MaxCrashes <- 2,
  data <- blob

ProfilePaths == {f1, f2}
OldPath == {f1}
ProfileObjects == {o1, o2, o3}
ProfileMoves == {<<f1, f2>>}
Profile == INSTANCE ProfileSave WITH
  Paths <- ProfilePaths, Objects <- ProfileObjects, Moves <- ProfileMoves, OldFiles <- OldPath,
  MaxFlushes <- 1, MaxChanges <- 2, MaxFailures <- 1, MaxCrashes <- 1,
  crashes <- deaths

TwoFlushes == INSTANCE ProfileSave WITH
  Paths <- ProfilePaths, Objects <- ProfileObjects, Moves <- ProfileMoves, OldFiles <- OldPath,
  MaxFlushes <- 2, MaxChanges <- 2, MaxFailures <- 1, MaxCrashes <- 0,
  crashes <- deaths

ThinPieces == {pa, pb}
ThinLists == {l1, l2}
ThinJobs == {j1, j2}
ThinSize == [x \in ThinPieces |-> IF x = pa THEN 1 ELSE 2]
OneReader == {r1}
Thin == INSTANCE LinkReads WITH
  Pieces <- ThinPieces, Lists <- ThinLists, Readers <- OneReader, Jobs <- ThinJobs,
  Size <- ThinSize,
  Speed <- "thin", Fit <- 2, MaxBackground <- 2, WantRequests <- 1, PlaceRequests <- 1,
  WantRetries <- 1, MaxCalls <- 3

FasterPieces == {pa, pb, pc}
FasterLists == {l1}
FasterJobs == {j1, j2, j3}
FasterSize == [x \in FasterPieces |-> IF x = pb THEN 2 ELSE 1]
Faster == INSTANCE LinkReads WITH
  Pieces <- FasterPieces, Lists <- FasterLists, Readers <- OneReader, Jobs <- FasterJobs,
  Size <- FasterSize,
  Speed <- "mid", Fit <- 2, MaxBackground <- 2, WantRequests <- 1, PlaceRequests <- 1,
  WantRetries <- 0, MaxCalls <- 3

MCInit ==
  /\ part \in Parts
  /\ Init /\ Store!Init
  /\ IF part = "flushes" THEN TwoFlushes!Init ELSE Profile!Init
  /\ IF part = "faster" THEN Faster!Init ELSE Thin!Init

IsPart(x, others) == part = x /\ UNCHANGED <<part, others>>
InLink == IsPart("link", <<storeVars, profileVars, readsVars>>)
InStore == IsPart("store", <<vars, profileVars, readsVars>>)
InProfile == IsPart("profile", <<vars, storeVars, readsVars>>)
InTwo == IsPart("flushes", <<vars, storeVars, readsVars>>)
InThin == IsPart("thin", <<vars, storeVars, profileVars>>)
InFaster == IsPart("faster", <<vars, storeVars, profileVars>>)

MCNext ==
  \/ InLink /\ Next
  \/ InStore /\ Store!Next
  \/ InProfile /\ Profile!Next
  \/ InTwo /\ TwoFlushes!Next
  \/ InThin /\ Thin!Next
  \/ InFaster /\ Faster!Next

MCvars == <<part, vars, storeVars, profileVars, readsVars>>

(* The fairness DataLink and ProfileSave state of their steps.  *)
DataGoesOn ==
  /\ WF_vars(part = "link" /\ LinkGoesOn)
  /\ WF_profileVars(\/ part = "profile" /\ (Profile!Start \/ Profile!FlushGoesOn(1))
                    \/ part = "flushes" /\ (TwoFlushes!Start \/ TwoFlushes!FlushGoesOn(1)))
  /\ WF_profileVars(part = "flushes" /\ TwoFlushes!FlushGoesOn(2))

MCSpec == MCInit /\ [][MCNext]_MCvars /\ DataGoesOn

(* BlockStore: no entry of an open store points into another block's bytes. *)
EntriesOwnTheirBytes == part = "store" => Store!EntriesOwnTheirBytes
(* BlockStore: the log says what the last sync point knew. *)
LogSaysLastSync == part = "store" => Store!LogSaysLastSync
(* BlockStore: what a clean close left stays, whichever later session crashes. *)
ClosedBlocksStay == part = "store" => Store!ClosedBlocksStay

(* ProfileSave: no change of the game's falls between two flushes. *)
DifferentMeansDue ==
  /\ part = "profile" => Profile!DifferentMeansDue
  /\ part = "flushes" => TwoFlushes!DifferentMeansDue
(* ProfileSave: no flush on its own removes the last copy of a file. *)
MovedFileStays ==
  [][/\ part = "profile" => Profile!KeepsLastCopies
     /\ part = "flushes" => TwoFlushes!KeepsLastCopies]_MCvars
(* ProfileSave: a game at rest has its files in the storage, and no other. *)
ProfileSaved ==
  <>[](/\ part = "profile" => Profile!StorageFollows
       /\ part = "flushes" => TwoFlushes!StorageFollows)

(* LinkReads: a download the game waits for is not silenced by its wait. *)
WaitedForMayGo ==
  (part = "thin" => Thin!WaitedForMayGo) /\ (part = "faster" => Faster!WaitedForMayGo)
(* LinkReads: no waiting download is passed by one of a lower rank. *)
NoOvertaking ==
  [][(part = "thin" => Thin!NonePasses) /\ (part = "faster" => Faster!NonePasses)]_MCvars
(* LinkReads: nobody waits without something under way for it. *)
NobodyHangs ==
  (part = "thin" => Thin!NobodyHangs) /\ (part = "faster" => Faster!NobodyHangs)
==============================================================================
