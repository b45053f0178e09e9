------------------------------ MODULE Archives ------------------------------
(***************************************************************************)
(* What an uploaded archive must look like: the validator's verdict, the   *)
(* rearrangement of one it refuses, and how the trainer reads the result.  *)
(*                                                                         *)
(* An archive is a set of files.  A file has the directories of its path,  *)
(* a number that tells it from its neighbours, the label its name begins   *)
(* with, if any, and a kind: an image, an image that the validator allows  *)
(* and torchvision does not read, another file, or the litter of the       *)
(* operating system that zipped it.  Unsafe entries and sizes are left     *)
(* out: both readers refuse them alike.                                    *)
(***************************************************************************)
EXTENDS Naturals, Sequences, FiniteSets, SequencesExt, FiniteSetsExt

CONSTANTS
  MinClasses, MaxClasses,
  Stride      \* a class without a test split gives up every Stride-th image

ASSUME ArchivesAssumption ==
  MinClasses \in Nat /\ MaxClasses \in Nat /\ Stride \in Nat /\ Stride # 1

Splits == {"train", "test"}
TrainDirNames == {"train", "training"}
TestDirNames == {"test", "val"}
IgnoreDirNames == {"pred"}
NoLabel == "none"

Images(files) == {f \in files : f.kind \in {"image", "gif"}}
IsIgnorable(f) == f.kind = "litter"

-----------------------------------------------------------------------------
(* The validator (summarize_dataset_archive). *)

(* A wrapping directory is taken off entry by entry. *)
Unwrapped(f) ==
  IF Len(f.dirs) >= 3 /\ f.dirs[2] \in Splits THEN Tail(f.dirs) ELSE f.dirs

Counted(files) ==
  {f \in files : ~IsIgnorable(f) /\ Len(Unwrapped(f)) = 2 /\ Unwrapped(f)[1] \in Splits}

ClassesIn(files, split) == {Unwrapped(f)[2] : f \in {g \in Counted(files) : Unwrapped(g)[1] = split}}

Summarized(files) == ClassesIn(files, "train")

Accepts(files) ==
  /\ Counted(files) = Images(Counted(files))
  /\ ClassesIn(files, "train") # {} /\ ClassesIn(files, "train") = ClassesIn(files, "test")
  /\ Cardinality(Summarized(files)) \in MinClasses .. MaxClasses

-----------------------------------------------------------------------------
(* The rearrangement of a refused archive (plan_normalization). *)
Usable(files) == Images({f \in files : ~IsIgnorable(f)})

SplitAt(f) == {i \in DOMAIN f.dirs : f.dirs[i] \in TrainDirNames \cup TestDirNames}

(* The last directory that names a split decides, and no directory of the  *)
(* path may be one of unlabelled images.                                   *)
FirstSplit(f) == Min(SplitAt(f))                                         \* mutant
LastSplit(f) == Max(SplitAt(f))

LabelOf(f) == IF Len(f.dirs) > LastSplit(f) THEN Last(f.dirs) ELSE f.label

Classified(files) ==
  {f \in Usable(files) :
     /\ SplitAt(f) # {} /\ ToSet(f.dirs) \cap IgnoreDirNames = {}
     /\ LabelOf(f) # NoLabel}

SplitOf(f) == IF f.dirs[LastSplit(f)] \in TrainDirNames THEN "train" ELSE "test"

Found(files, split, class) ==
  {f \in Classified(files) : SplitOf(f) = split /\ LabelOf(f) = class}

(* The index of an image is the number of images listed before it; the     *)
(* archive lists them by number.                                           *)
IndexOf(f, members) == Cardinality({g \in members : g.number < f.number})

TooFew(files) == FALSE                                                   \* mutant
FewerThanStride(files) == Cardinality(files) < Stride

HeldOut(files, class) ==
  LET members == Found(files, "train", class) IN
  IF Found(files, "test", class) # {} \/ Stride = 0 \/ FewerThanStride(members)
    THEN Found(files, "test", class)
    ELSE {f \in members : IndexOf(f, members) % Stride = 0}

Kept(files, split, class) ==
  IF split = "test" THEN HeldOut(files, class)
  ELSE Found(files, "train", class) \ HeldOut(files, class)

KeptClasses(files) ==
  {LabelOf(f) : f \in {g \in Classified(files) :
     Found(files, "train", LabelOf(g)) # {} /\ HeldOut(files, LabelOf(g)) # {}}}

(* Every entry has its place in the rewritten archive. *)
Targets(files) ==
  {<<split, class, f>> : split \in Splits, class \in KeptClasses(files), f \in Classified(files)}

PlanNormalization(files) ==
  {t \in Targets(files) : t[3] \in Kept(files, t[1], t[2])}

RewriteArchive(plan) ==
  {[t[3] EXCEPT !.dirs = <<t[1], t[2]>>, !.label = NoLabel] : t \in plan}

(* What is stored: the archive itself, or the rewritten one if that is     *)
(* accepted, or nothing.                                                   *)
PrepareArchive(files) ==
  IF Accepts(files) THEN files
  ELSE LET rewritten == RewriteArchive(PlanNormalization(files))
       IN IF Accepts(rewritten) THEN rewritten ELSE {}

-----------------------------------------------------------------------------
(* The trainer (_prepare_custom_dataset, _build_custom_datasets). *)
TopLevel(files) == {IF f.dirs = <<>> THEN f ELSE f.dirs[1] : f \in files}

(* One directory around train/ is taken off, if nothing lies beside it. *)
Resolved(files) ==
  IF /\ "train" \notin TopLevel(files) /\ Cardinality(TopLevel(files)) = 1
     /\ \A f \in files : f.dirs # <<>>
     /\ \E f \in files : Len(f.dirs) >= 2 /\ f.dirs[2] = "train"
    THEN {[f EXCEPT !.dirs = Tail(f.dirs)] : f \in files}
    ELSE files

Below(files, split) == {f \in Resolved(files) : f.dirs # <<>> /\ f.dirs[1] = split}

(* torchvision's ImageFolder: a class is a directory, and has an image.    *)
FolderClasses(files, split) ==
  {f.dirs[2] : f \in {g \in Below(files, split) : Len(g.dirs) >= 2}}

ReadableClasses(files, split) ==
  {f.dirs[2] : f \in {g \in Below(files, split) : Len(g.dirs) >= 2 /\ g.kind = "image"}}

Loads(files) ==
  /\ \A split \in Splits :
       FolderClasses(files, split) # {} /\ FolderClasses(files, split) = ReadableClasses(files, split)
  /\ FolderClasses(files, "train") = FolderClasses(files, "test")
  /\ FolderClasses(files, "train") = Summarized(files)
=============================================================================
