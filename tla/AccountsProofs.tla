--------------------------- MODULE AccountsProofs ---------------------------
(***************************************************************************)
(* For any folders, accounts, chats, pictures and faults: no chat is lost  *)
(* or comes back, a chat keeps its pictures, an account folder that no     *)
(* older record left out goes only with its decision, and a start leaves   *)
(* nothing half done.                                                      *)
(*                                                                         *)
(* Each step is first described by a lemma of its own (HoldDoes, ...), by  *)
(* what it does to each field of the job and of the record.  The parts of  *)
(* the invariant then build on each other: the types and the steps of an   *)
(* operation, who is in and what the record says of the operation's        *)
(* folder, the units, the held folders, and what a start settles.          *)
(***************************************************************************)
EXTENDS Accounts, TLAPS

---------------------------------------------------------------------------
(* What the operators on the record give. *)

RecordType ==
  [known : BOOLEAN, active : Dirs \cup {Local}, kept : Dirs \cup {None},
   reason : Reasons \cup {None}, past : BOOLEAN, putback : SUBSET Dirs,
   erase : SUBSET Dirs, pending : BOOLEAN]

\* _profile_fields names the profile that is entered, or leaves a lost record alone.
LEMMA FieldsOf ==
  ASSUME NEW r \in RecordType, NEW c \in Dirs \cup {Local}
  PROVE  /\ Fields(r, c) \in RecordType
         /\ Fields(r, c).kept = r.kept /\ Fields(r, c).reason = r.reason
         /\ Fields(r, c).past = r.past /\ Fields(r, c).pending = r.pending
         /\ Fields(r, c).putback = r.putback /\ Fields(r, c).erase = r.erase
         /\ \/ Fields(r, c) = r /\ ~r.known /\ c = Local /\ Undecided # {}
            \/ /\ Fields(r, c).known /\ Fields(r, c).active = c
               /\ r.known \/ c # Local \/ Undecided = {}
  BY DEF RecordType, Fields

\* A name goes onto the one list and off the other, and nothing else moves.
LEMMA PutbackAddOf ==
  ASSUME NEW r \in RecordType, NEW D \in SUBSET Dirs
  PROVE  /\ PutbackAdd(r, D) \in RecordType
         /\ PutbackAdd(r, D).known = r.known /\ PutbackAdd(r, D).active = r.active
         /\ PutbackAdd(r, D).kept = r.kept /\ PutbackAdd(r, D).reason = r.reason
         /\ PutbackAdd(r, D).past = r.past /\ PutbackAdd(r, D).pending = r.pending
         /\ PutbackAdd(r, D).putback = r.putback \cup D
         /\ PutbackAdd(r, D).erase = r.erase \ D
  BY DEF RecordType, PutbackAdd

\* The same for the imports to erase.
LEMMA EraseAddOf ==
  ASSUME NEW r \in RecordType, NEW d \in Dirs
  PROVE  /\ EraseAdd(r, d) \in RecordType
         /\ EraseAdd(r, d).known = r.known /\ EraseAdd(r, d).active = r.active
         /\ EraseAdd(r, d).kept = r.kept /\ EraseAdd(r, d).reason = r.reason
         /\ EraseAdd(r, d).past = r.past /\ EraseAdd(r, d).pending = r.pending
         /\ EraseAdd(r, d).putback = r.putback \ {d}
         /\ EraseAdd(r, d).erase = r.erase \cup {d}
  BY DEF RecordType, EraseAdd

\* A folder's name goes, and all that was said of it as active or as kept.
LEMMA UnnameOf ==
  ASSUME NEW r \in RecordType, NEW d \in Dirs
  PROVE  /\ Unname(r, d) \in RecordType
         /\ Unname(r, d).known = r.known
         /\ Unname(r, d).putback = r.putback /\ Unname(r, d).erase = r.erase
         /\ Unname(r, d).active = IF r.active = d THEN Local ELSE r.active
         /\ Unname(r, d).kept = IF r.kept = d THEN None ELSE r.kept
         /\ Unname(r, d).reason = IF r.kept = d THEN None ELSE r.reason
         /\ Unname(r, d).past = (r.past /\ r.kept # d)
         /\ Unname(r, d).pending = (r.pending /\ r.active # d /\ r.kept # d)
<1> DEFINE a == IF r.active = d THEN [r EXCEPT !.active = Local, !.pending = FALSE] ELSE r
<1>1. /\ a \in RecordType /\ a.known = r.known /\ a.kept = r.kept /\ a.reason = r.reason
      /\ a.past = r.past /\ a.putback = r.putback /\ a.erase = r.erase
      /\ a.active = IF r.active = d THEN Local ELSE r.active
      /\ a.pending = (r.pending /\ r.active # d)
  BY DEF RecordType
<1>2. Unname(r, d) = IF a.kept = d
        THEN [a EXCEPT !.kept = None, !.reason = None, !.past = FALSE, !.pending = FALSE]
        ELSE a
  BY DEF Unname
<1> HIDE DEF a
<1>3. QED
  BY <1>1, <1>2 DEF RecordType

\* The same of a folder a start drops, whose staged units are then put back.
LEMMA DroppedOf ==
  ASSUME NEW r \in RecordType, NEW d \in Dirs
  PROVE  /\ Dropped(r, d) \in RecordType
         /\ Dropped(r, d).known = r.known
         /\ Dropped(r, d).active = IF r.active = d THEN Local ELSE r.active
         /\ Dropped(r, d).kept = IF r.kept = d THEN None ELSE r.kept
         /\ Dropped(r, d).reason = IF r.kept = d THEN None ELSE r.reason
         /\ Dropped(r, d).past = (r.past /\ r.kept # d)
         /\ Dropped(r, d).pending = (r.pending /\ r.active # d /\ r.kept # d)
         /\ Dropped(r, d).putback = IF staged[d] # {} THEN r.putback \cup {d} ELSE r.putback
         /\ Dropped(r, d).erase = IF staged[d] # {} THEN r.erase \ {d} ELSE r.erase
<1> DEFINE u == Unname(r, d)
<1>1. /\ u \in RecordType /\ u.known = r.known
      /\ u.putback = r.putback /\ u.erase = r.erase
      /\ u.active = IF r.active = d THEN Local ELSE r.active
      /\ u.kept = IF r.kept = d THEN None ELSE r.kept
      /\ u.reason = IF r.kept = d THEN None ELSE r.reason
      /\ u.past = (r.past /\ r.kept # d)
      /\ u.pending = (r.pending /\ r.active # d /\ r.kept # d)
  BY UnnameOf
<1>2. Dropped(r, d) = IF staged[d] # {} THEN PutbackAdd(u, {d}) ELSE u
  BY DEF Dropped
<1> HIDE DEF u
<1>3. CASE staged[d] # {}
  <2>1. Dropped(r, d) = PutbackAdd(u, {d}) /\ {d} \in SUBSET Dirs
    BY <1>2, <1>3
  <2>2. QED
    BY <1>1, <1>3, <2>1, PutbackAddOf
<1>4. CASE staged[d] = {}
  BY <1>1, <1>2, <1>4
<1>5. QED
  BY <1>3, <1>4

\* The fields of TypeOK, in the parts the steps disturb.
DiskType ==
  /\ folder \in [Dirs -> {"none", "new", "there"}]
  /\ acct \in [Dirs -> Accts \cup {None}]
  /\ key \in SUBSET Dirs
  /\ owner \in [Dirs -> {"ok", "foreign", "unclear"}]
  /\ synced \in SUBSET Dirs
  /\ man \in [Dirs -> [chats : SUBSET Chats, media : SUBSET Media]]
  /\ staged \in [Dirs -> SUBSET Chats]
  /\ stagedMedia \in [Dirs -> SUBSET Media]
  /\ chats \in SUBSET Chats
  /\ media \in SUBSET Media

RunType ==
  /\ phase \in {"down", "boot", "up"}
  /\ ctx \in Dirs \cup {Local}
  /\ job \in Jobs
  /\ faults \in 0..MaxFaults
  /\ calm \in BOOLEAN

ToldType ==
  /\ owned \in SUBSET Dirs /\ disowned \in SUBSET Dirs
  /\ unwanted \in SUBSET Chats /\ copied \in SUBSET Chats /\ borrowed \in SUBSET Media

RecType ==
  /\ rec \in RecordType
  /\ rec.kept = None <=> rec.reason = None
  /\ rec.putback \cap rec.erase = {}

\* The committed folders a decision is due for: no older record left them out.
Held == owned \ disowned

\* The type invariant is its four parts.
LEMMA TypeParts == TypeOK <=> RecType /\ DiskType /\ RunType /\ ToldType
  BY DEF TypeOK, RecType, RecordType, DiskType, RunType, ToldType

\* An operation is only ever at one of its own steps, with a folder and an
\* answer where that step uses one.
JobOK ==
  /\ phase = "down" => job = NoJob
  /\ phase = "boot" <=> job.op = "boot"
  /\ job.op = "idle" => job = NoJob
  /\ job.at = "idle" => job.op = "idle"
  /\ job.at \in {"look", "forget", "build", "add", "rename", "undo"} => job.op = "signin"
  /\ job.at \in {"hold", "enter"} => job.op \in {"signin", "signout", "keep"}
  /\ job.at = "commit" => job.op \in {"signin", "signout", "keep", "kept-erase"}
  /\ job.at = "keys" => job.op = "keep"
  /\ job.at = "erase.folder" => job.op \in {"signin", "signout", "kept-erase"}
  /\ job.at \in BootSteps => job.op = "boot"
  /\ job.at \in StageSteps => job.op # "idle"
  /\ job.at \in ImportSteps => job.op \in {"signin", "signout", "kept-erase", "boot"}
  /\ job.at \in PutbackSteps => job.op \in {"signout", "kept-erase", "boot"}
  /\ \/ job.at \in {"idle", "look"} \cup BootSteps
     \/ job.op = "signin" /\ job.at = "hold"
     \/ job.dir \in Dirs
  /\ job.op = "signin" => job.choice = None
  /\ job.op = "keep" => job.reason # None

---------------------------------------------------------------------------
(* What each step does to the job and to the record, field by field. *)

MovesTo(s, d, o, D) ==
  /\ job' \in Jobs /\ job'.at = s /\ job'.dir = d /\ job'.owed = o /\ job'.todo = D
  /\ job'.op = job.op /\ job'.acct = job.acct /\ job'.add = job.add
  /\ job'.erase = job.erase /\ job'.choice = job.choice /\ job'.reason = job.reason

Moves(s) == MovesTo(s, job.dir, job.owed, job.todo)

Starts(o, s, d, c, r) ==
  /\ job' \in Jobs /\ job'.op = o /\ job'.at = s /\ job'.dir = d
  /\ job'.choice = c /\ job'.reason = r /\ job'.owed = FALSE /\ job'.todo = {}

Rests == Starts("idle", "idle", None, None, None) /\ job' = NoJob

Writes(known, active, kept, reason, past, putback, erase, pending) ==
  /\ rec' \in RecordType
  /\ rec'.known = known /\ rec'.active = active /\ rec'.kept = kept /\ rec'.reason = reason
  /\ rec'.past = past /\ rec'.putback = putback /\ rec'.erase = erase
  /\ rec'.pending = pending

\* How a step moves the job, in the forms the steps use.
LEMMA GotoDoes ==
  ASSUME job \in Jobs, NEW s \in Steps, Goto(s)
  PROVE  Moves(s)
  BY DEF Jobs, Goto, Moves, MovesTo

\* With a new list to work through.
LEMMA GotoWithDoes ==
  ASSUME job \in Jobs, NEW s \in Steps, NEW D \in SUBSET Dirs, GotoWith(s, D)
  PROVE  MovesTo(s, job.dir, job.owed, D)
  BY DEF Jobs, GotoWith, MovesTo

\* At another folder.
LEMMA MoveDoes ==
  ASSUME job \in Jobs, NEW s \in Steps, NEW d \in Dirs, job' = [job EXCEPT !.at = s, !.dir = d]
  PROVE  MovesTo(s, d, job.owed, job.todo)
  BY DEF Jobs, MovesTo

\* At the next folder of the list.
LEMMA TakeDoes ==
  ASSUME job \in Jobs, NEW s \in Steps, NEW d \in Dirs,
         job' = [job EXCEPT !.at = s, !.dir = d, !.todo = @ \ {d}]
  PROVE  MovesTo(s, d, job.owed, job.todo \ {d})
  BY DEF Jobs, MovesTo

\* The names of the steps.
LEMMA StepNames ==
  /\ "idle" \in Steps /\ "hold" \in Steps /\ "look" \in Steps /\ "forget" \in Steps
  /\ "build" \in Steps /\ "add" \in Steps /\ "rename" \in Steps /\ "undo" \in Steps
  /\ "commit" \in Steps /\ "enter" \in Steps /\ "erase.folder" \in Steps /\ "keys" \in Steps
  /\ "stage.units" \in Steps /\ "stage.chats" \in Steps /\ "stage.media" \in Steps
  /\ "stage.done" \in Steps /\ "putback.media" \in Steps /\ "putback.chats" \in Steps
  /\ "putback.drop" \in Steps /\ "putback.erase" \in Steps /\ "import.erase" \in Steps
  /\ "import.drop" \in Steps /\ "boot.active" \in Steps /\ "boot.kept" \in Steps
  /\ "boot.sweep" \in Steps /\ "boot.erase" \in Steps /\ "boot.imports" \in Steps
  /\ "boot.step6" \in Steps /\ "boot.putback" \in Steps /\ "boot.resume" \in Steps
  BY DEF Steps, StageSteps, PutbackSteps, ImportSteps, BootSteps

\* An operation that is over leaves no job.
LEMMA EndDoes ==
  ASSUME End
  PROVE  Rests
  BY DEF End, NoJob, Rests, Starts, Job, Jobs, Ops, Steps, Choices, Answers, Reasons

\* The fields of the record, and what is computed of it, have their types.
LEMMA RecordHas ==
  ASSUME RecType
  PROVE  /\ rec \in RecordType /\ rec.known \in BOOLEAN /\ rec.active \in Dirs \cup {Local}
         /\ rec.kept \in Dirs \cup {None} /\ rec.reason \in Reasons \cup {None}
         /\ rec.past \in BOOLEAN /\ rec.putback \in SUBSET Dirs /\ rec.erase \in SUBSET Dirs
         /\ rec.pending \in BOOLEAN
         /\ Named(rec) \in SUBSET Dirs /\ Target \in SUBSET Dirs
         /\ Undecided \in SUBSET Dirs /\ Orphans \in SUBSET Dirs
  BY DEF RecType, RecordType, Named, Active, Kept, Target, Undecided, Orphans

\* And so the fields of the job.
LEMMA JobHas ==
  ASSUME RunType
  PROVE  /\ job \in Jobs /\ job.op \in Ops /\ job.at \in Steps /\ job.dir \in Dirs \cup {None}
         /\ job.acct \in Accts \cup {None} /\ job.add \in SUBSET Chats /\ job.erase \in BOOLEAN
         /\ job.choice \in Choices /\ job.reason \in Reasons \cup {None}
         /\ job.owed \in BOOLEAN /\ job.todo \in SUBSET Dirs
  BY DEF RunType, Jobs

\* The steps of a sign-in.
LEMMA LookNoneDoes ==
  ASSUME RecType, RunType, JobOK, LookNone
  PROVE  \E d \in Dirs \ (Undecided \cup rec.putback \cup rec.erase) :
           MovesTo("build", d, job.owed, job.todo)
  BY JobHas, StepNames, GotoWithDoes, MoveDoes, TakeDoes, RecordHas DEF LookNone

LEMMA LookOtherDoes ==
  ASSUME RecType, RunType, JobOK, LookOther
  PROVE  \E d \in Named(rec) :
           /\ d \in Dirs
           /\ \/ rec.pending /\ Openable(d) /\ MovesTo("stage.units", d, job.owed, job.todo)
              \/ ~(rec.pending /\ Openable(d)) /\ MovesTo("forget", d, job.owed, job.todo)
              \/ Rests
  BY JobHas, StepNames, GotoWithDoes, MoveDoes, TakeDoes, RecordHas, EndDoes DEF LookOther

LEMMA BuildDoes ==
  ASSUME RecType, RunType, JobOK, Build
  PROVE  Moves("add")
  BY JobHas, StepNames, GotoDoes DEF Build

LEMMA RenameDoes ==
  ASSUME RecType, RunType, JobOK, Rename
  PROVE  Moves("commit")
  BY JobHas, StepNames, GotoDoes DEF Rename

LEMMA CancelSignInDoes ==
  ASSUME RecType, RunType, JobOK, CancelSignIn
  PROVE  Moves("undo")
  BY JobHas, StepNames, GotoDoes DEF CancelSignIn

LEMMA KeptKeysDoes ==
  ASSUME RecType, RunType, JobOK, KeptKeys
  PROVE  Moves("enter")
  BY JobHas, StepNames, GotoDoes DEF KeptKeys

LEMMA ImportEraseDoes ==
  ASSUME RecType, RunType, JobOK, ImportErase
  PROVE  Moves("import.drop")
  BY JobHas, StepNames, GotoDoes DEF ImportErase

LEMMA StageUnitsDoes ==
  ASSUME RecType, RunType, JobOK, StageUnits
  PROVE  Moves("stage.chats")
  BY JobHas, StepNames, GotoDoes DEF StageUnits

LEMMA StageChatsDoes ==
  ASSUME RecType, RunType, JobOK, StageChats
  PROVE  Moves("stage.media")
  BY JobHas, StepNames, GotoDoes DEF StageChats

LEMMA PutbackChatsDoes ==
  ASSUME RecType, RunType, JobOK, PutbackChats
  PROVE  Moves("putback.drop")
  BY JobHas, StepNames, GotoDoes DEF PutbackChats

LEMMA CommitSignInDoes ==
  ASSUME RecType, RunType, JobOK, CommitSignIn
  PROVE  /\ Moves(IF man[job.dir].chats # {} THEN "stage.units" ELSE "enter")
         /\ Writes(TRUE, job.dir, None, None, FALSE, rec.putback, rec.erase, man[job.dir].chats # {})
<1>1. Moves(IF man[job.dir].chats # {} THEN "stage.units" ELSE "enter")
  BY JobHas, StepNames, GotoDoes DEF CommitSignIn
<1>2. Writes(TRUE, job.dir, None, None, FALSE, rec.putback, rec.erase, man[job.dir].chats # {})
  BY JobHas, RecordHas DEF CommitSignIn, JobOK, At, BootSteps, Writes, RecordType
<1>3. QED
  BY <1>1, <1>2

LEMMA CommitKeepDoes ==
  ASSUME RecType, RunType, JobOK, CommitKeep
  PROVE  /\ Moves("keys")
         /\ Writes(rec.known, Local, job.dir, job.reason, FALSE, rec.putback, rec.erase, job.owed)
<1>1. Moves("keys")
  BY JobHas, StepNames, GotoDoes DEF CommitKeep
<1>2. Writes(rec.known, Local, job.dir, job.reason, FALSE, rec.putback, rec.erase, job.owed)
  BY JobHas, RecordHas DEF CommitKeep, JobOK, At, BootSteps, Writes, RecordType
<1>3. QED
  BY <1>1, <1>2

LEMMA EraseFolderDoes ==
  ASSUME RecType, RunType, JobOK, EraseFolder
  PROVE  IF job.choice = "putback" THEN Moves("putback.media")
           ELSE IF job.dir \in rec.erase THEN Moves("import.erase")
           ELSE IF job.op = "signin" THEN Moves("look") ELSE Rests
  BY JobHas, StepNames, GotoDoes, EndDoes DEF EraseFolder, AfterErase

LEMMA ImportDropDoes ==
  ASSUME RecType, RunType, JobOK, ImportDrop
  PROVE  /\ IF job.op = "signin" THEN Moves("look")
           ELSE IF job.op = "boot" THEN Moves("boot.erase") ELSE Rests
         /\ Writes(rec.known, rec.active, rec.kept, rec.reason, rec.past, rec.putback,
                   rec.erase \ {job.dir}, rec.pending)
<1>1. IF job.op = "signin" THEN Moves("look")
           ELSE IF job.op = "boot" THEN Moves("boot.erase") ELSE Rests
  BY JobHas, StepNames, GotoDoes, EndDoes DEF ImportDrop, AfterImport
<1>2. Writes(rec.known, rec.active, rec.kept, rec.reason, rec.past, rec.putback,
                      rec.erase \ {job.dir}, rec.pending)
  BY JobHas, RecordHas DEF ImportDrop, AfterImport, JobOK, At, BootSteps, Writes, RecordType
<1>3. QED
  BY <1>1, <1>2

LEMMA StageMediaDoes ==
  ASSUME RecType, RunType, JobOK, StageMedia
  PROVE  job' = job \/ Moves("stage.done")
  BY JobHas, StepNames, GotoDoes DEF StageMedia

LEMMA PutbackMediaDoes ==
  ASSUME RecType, RunType, JobOK, PutbackMedia
  PROVE  job' = job \/ Moves("putback.chats")
  BY JobHas, StepNames, GotoDoes DEF PutbackMedia

LEMMA PutbackDropDoes ==
  ASSUME RecType, RunType, JobOK, PutbackDrop
  PROVE  /\ Moves("putback.erase")
         /\ Writes(rec.known, rec.active, rec.kept, rec.reason, rec.past, rec.putback \ {job.dir},
                   rec.erase, rec.pending)
<1>1. Moves("putback.erase")
  BY JobHas, StepNames, GotoDoes DEF PutbackDrop
<1>2. Writes(rec.known, rec.active, rec.kept, rec.reason, rec.past, rec.putback \ {job.dir},
                      rec.erase, rec.pending)
  BY JobHas, RecordHas DEF PutbackDrop, JobOK, At, BootSteps, Writes, RecordType
<1>3. QED
  BY <1>1, <1>2

LEMMA PutbackEraseDoes ==
  ASSUME RecType, RunType, JobOK, PutbackErase
  PROVE  IF job.op = "boot" THEN Moves("boot.putback") ELSE Rests
  BY JobHas, StepNames, GotoDoes, EndDoes DEF PutbackErase

LEMMA BootSweepDoes ==
  ASSUME RecType, RunType, JobOK, BootSweep
  PROVE  \/ \E d \in job.todo : Gone(d) /\ MovesTo("boot.sweep", job.dir, job.owed, job.todo \ {d})
         \/ job.todo = {} /\ MovesTo("boot.erase", job.dir, job.owed, rec.erase) /\ UNCHANGED disk
  BY JobHas, StepNames, GotoWithDoes, MoveDoes, TakeDoes, RecordHas DEF BootSweep

LEMMA BootEraseDoes ==
  ASSUME RecType, RunType, JobOK, BootErase
  PROVE  \/ \E d \in job.todo : d \in Dirs /\ MovesTo("import.erase", d, job.owed, job.todo \ {d})
         \/ job.todo = {} /\ Moves("boot.imports")
  BY JobHas, StepNames, GotoDoes, GotoWithDoes, MoveDoes, TakeDoes, RecordHas DEF BootErase

LEMMA BootPutbackDoes ==
  ASSUME RecType, RunType, JobOK, BootPutback
  PROVE  \/ \E d \in job.todo : d \in Dirs /\ MovesTo("putback.media", d, job.owed, job.todo \ {d})
         \/ job.todo = {} /\ Moves("boot.resume")
  BY JobHas, StepNames, GotoDoes, GotoWithDoes, MoveDoes, TakeDoes, RecordHas DEF BootPutback

LEMMA BootImportsDoes ==
  ASSUME RecType, RunType, JobOK, BootImports
  PROVE  /\ Moves("boot.step6")
         /\ Writes(rec.known, rec.active, rec.kept, rec.reason, rec.past, rec.putback \cup Orphans,
                   rec.erase \ Orphans, rec.pending)
<1>1. Moves("boot.step6")
  BY JobHas, StepNames, GotoDoes DEF BootImports
<1>2. Writes(rec.known, rec.active, rec.kept, rec.reason, rec.past, rec.putback \cup Orphans,
                      rec.erase \ Orphans, rec.pending)
  BY JobHas, RecordHas, PutbackAddOf DEF BootImports, JobOK, At, BootSteps, Writes, RecordType
<1>3. QED
  BY <1>1, <1>2

LEMMA BootStep6Does ==
  ASSUME RecType, RunType, JobOK, BootStep6
  PROVE  \/ rec.pending /\ \E d \in Target : Openable(d) /\ MovesTo("stage.units", d, job.owed, job.todo)
         \/ /\ rec.pending => \A d \in Target : ~Openable(d)
            /\ MovesTo("boot.putback", job.dir, job.owed, rec.putback)
  BY JobHas, StepNames, GotoWithDoes, MoveDoes, TakeDoes, RecordHas DEF BootStep6

LEMMA SignInDoes ==
  ASSUME NEW a \in Accts, NEW add \in SUBSET Chats, NEW e \in BOOLEAN, SignIn(a, add, e)
  PROVE  Starts("signin", "hold", None, None, None)
  BY DEF SignIn, Begin, Job, Jobs, Ops, Steps, Choices, Answers, Reasons, Starts

LEMMA SignOutDoes ==
  ASSUME RunType, NEW c \in Choices, SignOut(c)
  PROVE  ctx \in Dirs /\ Starts("signout", "hold", ctx, c, None)
<1>1. ctx \in Dirs
  BY DEF RunType, SignOut
<1>2. QED
  BY <1>1 DEF SignOut, Begin, Job, Jobs, Ops, Steps, Reasons, Starts

LEMMA KeptEraseDoes ==
  ASSUME RecType, NEW c \in Choices, KeptErase(c)
  PROVE  /\ rec.known /\ rec.kept \in Dirs
         /\ IF rec.pending /\ Openable(rec.kept)
            THEN Starts("kept-erase", "stage.units", rec.kept, c, None)
            ELSE Starts("kept-erase", "commit", rec.kept, c, None)
<1>1. rec.known /\ rec.kept \in Dirs
  BY RecordHas DEF KeptErase, Kept
<1>2. QED
  BY <1>1 DEF KeptErase, Begin, Job, Jobs, Ops, Steps, StageSteps, Reasons, Starts

LEMMA AddBuildDoes ==
  ASSUME RunType, JobOK, AddBuild
  PROVE  Starts("signin", "rename", job.dir, None, None)
<1>1. job.dir \in Dirs
  BY DEF AddBuild, JobOK, At, BootSteps
<1>2. QED
  BY <1>1 DEF AddBuild, Job, Jobs, Ops, Steps, Choices, Answers, Reasons, Starts

LEMMA StartDoes ==
  ASSUME Start
  PROVE  Starts("boot", "boot.active", None, None, None)
  BY DEF Start, Job, Jobs, Ops, Steps, BootSteps, Choices, Answers, Reasons, Starts

LEMMA LookSameDoes ==
  ASSUME RecType, RunType, JobOK, LookSame
  PROVE  \E d \in Named(rec) :
           /\ d \in Dirs /\ d \in key
           /\ \/ d \in Kept(rec) /\ rec.reason = "deleted" /\ rec' = rec /\ Rests
              \/ /\ owner[d] = "ok" /\ MovesTo("enter", d, job.owed, job.todo)
                 /\ Writes(rec.known, d, None, None, FALSE, rec.putback, rec.erase, rec.pending)
<1>1. PICK d \in Named(rec) :
       /\ SameAccount(d)
       /\ IF d \in Kept(rec) /\ rec.reason = "deleted"
          THEN End /\ UNCHANGED rec
          ELSE /\ owner[d] = "ok"
               /\ rec' = [rec EXCEPT !.active = d, !.kept = None, !.reason = None, !.past = FALSE]
               /\ job' = [job EXCEPT !.at = "enter", !.dir = d]
  BY DEF LookSame
<1>2. d \in Dirs /\ d \in key
  BY <1>1, RecordHas DEF SameAccount
<1>3. CASE d \in Kept(rec) /\ rec.reason = "deleted"
  BY <1>1, <1>2, <1>3, EndDoes
<1>4. CASE ~(d \in Kept(rec) /\ rec.reason = "deleted")
  <2>1. MovesTo("enter", d, job.owed, job.todo)
    BY <1>1, <1>2, <1>4, JobHas, StepNames, MoveDoes
  <2>2. Writes(rec.known, d, None, None, FALSE, rec.putback, rec.erase, rec.pending)
    BY <1>1, <1>2, <1>4, RecordHas DEF Writes, RecordType
  <2>3. QED
    BY <1>1, <1>2, <1>4, <2>1, <2>2
<1>5. QED
  BY <1>3, <1>4

LEMMA KeepDoes ==
  ASSUME RunType, NEW r \in Reasons, Keep(r)
  PROVE  ctx \in Dirs /\ Starts("keep", "hold", ctx, None, r)
<1>1. ctx \in Dirs
  BY DEF RunType, Keep
<1>2. QED
  BY <1>1 DEF Keep, Begin, Job, Jobs, Ops, Steps, Choices, Answers, Reasons, Starts

LEMMA HoldDoes ==
  ASSUME RecType, RunType, JobOK, Hold
  PROVE  /\ \/ job.op = "signin" /\ Moves("look")
            \/ job.op # "signin" /\ rec.pending /\ Moves("stage.units")
            \/ job.op # "signin" /\ ~rec.pending /\ Moves("commit")
         /\ \/ rec' = rec /\ ~rec.known /\ ctx = Local /\ Undecided # {}
            \/ /\ rec.known \/ ctx # Local \/ Undecided = {}
               /\ Writes(TRUE, ctx, rec.kept, rec.reason, rec.past, rec.putback, rec.erase,
                         rec.pending)
<1>1. \/ job.op = "signin" /\ Goto("look")
      \/ job.op # "signin" /\ rec.pending /\ Goto("stage.units")
      \/ job.op # "signin" /\ ~rec.pending /\ Goto("commit")
  <2>1. CASE job.op = "signin"
    BY <2>1 DEF Hold
  <2>2. CASE job.op # "signin" /\ rec.pending
    BY <2>2 DEF Hold
  <2>3. CASE job.op # "signin" /\ ~rec.pending
    BY <2>3 DEF Hold
  <2>4. QED
    BY <2>1, <2>2, <2>3
<1>2. \/ job.op = "signin" /\ Moves("look")
      \/ job.op # "signin" /\ rec.pending /\ Moves("stage.units")
      \/ job.op # "signin" /\ ~rec.pending /\ Moves("commit")
  BY <1>1, JobHas, StepNames, GotoDoes
<1>3. ctx \in Dirs \cup {Local} /\ rec' = Fields(rec, ctx)
  BY DEF Hold, RunType
<1>4. \/ rec' = rec /\ ~rec.known /\ ctx = Local /\ Undecided # {}
      \/ /\ rec.known \/ ctx # Local \/ Undecided = {}
         /\ Writes(TRUE, ctx, rec.kept, rec.reason, rec.past, rec.putback, rec.erase, rec.pending)
  BY <1>3, RecordHas DEF Fields, Writes, RecordType
<1>5. QED
  BY <1>2, <1>4

LEMMA ForgetDoes ==
  ASSUME RecType, RunType, JobOK, Forget
  PROVE  /\ Moves("erase.folder")
         /\ Writes(rec.known, IF rec.active = job.dir THEN Local ELSE rec.active,
                   IF rec.kept = job.dir THEN None ELSE rec.kept,
                   IF rec.kept = job.dir THEN None ELSE rec.reason,
                   rec.past /\ rec.kept # job.dir, rec.putback \ {job.dir},
                   IF staged[job.dir] # {} THEN rec.erase \cup {job.dir} ELSE rec.erase,
                   rec.pending /\ rec.active # job.dir /\ rec.kept # job.dir)
<1>1. Moves("erase.folder")
  BY JobHas, StepNames, GotoDoes DEF Forget
<1>2. job.dir \in Dirs
  BY DEF Forget, JobOK, At, BootSteps
<1> DEFINE u == Unname(rec, job.dir)
<1>3. /\ u \in RecordType
      /\ u.known = rec.known
      /\ u.putback = rec.putback /\ u.erase = rec.erase
      /\ u.active = IF rec.active = job.dir THEN Local ELSE rec.active
      /\ u.kept = IF rec.kept = job.dir THEN None ELSE rec.kept
      /\ u.reason = IF rec.kept = job.dir THEN None ELSE rec.reason
      /\ u.past = (rec.past /\ rec.kept # job.dir)
      /\ u.pending = (rec.pending /\ rec.active # job.dir /\ rec.kept # job.dir)
  BY <1>2, RecordHas, UnnameOf
<1>4. rec' = IF staged[job.dir] # {} THEN EraseAdd(u, job.dir)
             ELSE [u EXCEPT !.putback = @ \ {job.dir}]
  BY DEF Forget
<1> HIDE DEF u
<1>5. CASE staged[job.dir] # {}
  <2>1. rec' = [u EXCEPT !.erase = @ \cup {job.dir}, !.putback = @ \ {job.dir}]
    BY <1>4, <1>5 DEF EraseAdd
  <2>2. QED
    BY <1>1, <1>2, <1>3, <1>5, <2>1, RecordHas DEF Writes, RecordType
<1>6. CASE staged[job.dir] = {}
  <2>1. rec' = [u EXCEPT !.putback = @ \ {job.dir}]
    BY <1>4, <1>6
  <2>2. QED
    BY <1>1, <1>2, <1>3, <1>6, <2>1, RecordHas DEF Writes, RecordType
<1>7. QED
  BY <1>5, <1>6

LEMMA StageDoneDoes ==
  ASSUME RecType, RunType, JobOK, StageDone
  PROVE  /\ \/ job.op = "signin" /\ rec.active = job.dir /\ Moves("enter")
            \/ job.op = "signin" /\ rec.active # job.dir /\ Moves("look")
            \/ job.op = "boot" /\ MovesTo("boot.putback", job.dir, job.owed, rec.putback)
            \/ job.op \notin {"signin", "boot"} /\ Moves("commit")
         /\ Writes(rec.known, rec.active, rec.kept, rec.reason, rec.past, rec.putback, rec.erase,
                   FALSE)
<1>1. \/ job.op = "signin" /\ rec.active = job.dir /\ Goto("enter")
      \/ job.op = "signin" /\ rec.active # job.dir /\ Goto("look")
      \/ job.op = "boot" /\ GotoWith("boot.putback", rec.putback)
      \/ job.op \notin {"signin", "boot"} /\ Goto("commit")
  <2>1. CASE job.op = "signin" /\ rec.active = job.dir
    BY <2>1 DEF StageDone
  <2>2. CASE job.op = "signin" /\ rec.active # job.dir
    BY <2>2 DEF StageDone
  <2>3. CASE job.op = "boot"
    BY <2>3 DEF StageDone
  <2>4. CASE job.op \notin {"signin", "boot"}
    BY <2>4 DEF StageDone
  <2>5. QED
    BY <2>1, <2>2, <2>3, <2>4
<1>2. Writes(rec.known, rec.active, rec.kept, rec.reason, rec.past, rec.putback, rec.erase, FALSE)
  BY RecordHas DEF StageDone, Writes, RecordType
<1>3. QED
  BY <1>1, <1>2, JobHas, RecordHas, StepNames, GotoDoes, GotoWithDoes

SignsOut(putback, erase) ==
  Writes(rec.known, IF job.op = "signout" THEN Local ELSE rec.active, None, None, FALSE,
         putback, erase, FALSE)

LEMMA CommitSignOutDoes ==
  ASSUME RecType, RunType, JobOK, CommitSignOut
  PROVE  \/ /\ OnlyStaged(job.dir) # {} /\ job.choice = None
            /\ UNCHANGED <<rec, told>> /\ Rests
         \/ /\ OnlyStaged(job.dir) # {} => job.choice # None
            /\ Moves(IF job.op = "signout" THEN "enter" ELSE "erase.folder")
            /\ owned' = owned \ {job.dir}
            /\ Unwant(IF job.choice = "putback" THEN {} ELSE OnlyStaged(job.dir), job.dir)
            /\ job.dir \in Dirs
            /\ \/ /\ job.choice = "putback"
                  /\ SignsOut(rec.putback \cup {job.dir}, rec.erase \ {job.dir})
               \/ /\ job.choice # "putback" /\ staged[job.dir] # {}
                  /\ job.choice = "erase" \/ job.op = "kept-erase"
                  /\ SignsOut(rec.putback \ {job.dir}, rec.erase \cup {job.dir})
               \/ /\ job.choice # "putback"
                  /\ staged[job.dir] = {} \/ (job.choice = None /\ job.op = "signout")
                  /\ SignsOut(rec.putback, rec.erase)
<1>1. CASE OnlyStaged(job.dir) # {} /\ job.choice = None
  BY <1>1, EndDoes DEF CommitSignOut
<1>2. CASE ~(OnlyStaged(job.dir) # {} /\ job.choice = None)
  <2> DEFINE r == [rec EXCEPT !.kept = None, !.reason = None, !.past = FALSE, !.pending = FALSE]
             q == IF job.op = "signout" THEN [r EXCEPT !.active = Local] ELSE r
  <2>1. /\ rec' = Answered(q, job.dir)
        /\ owned' = owned \ {job.dir}
        /\ Unwant(IF job.choice = "putback" THEN {} ELSE OnlyStaged(job.dir), job.dir)
        /\ Goto(IF job.op = "signout" THEN "enter" ELSE "erase.folder")
        /\ job.op \in {"signout", "kept-erase"}
    BY <1>2 DEF CommitSignOut
  <2>2. Moves(IF job.op = "signout" THEN "enter" ELSE "erase.folder")
    BY <2>1, JobHas, StepNames, GotoDoes
  <2>3. job.dir \in Dirs /\ job.choice \in {None, "putback", "erase"}
    BY JobHas DEF CommitSignOut, JobOK, At, BootSteps, Choices, Answers
  <2>4. /\ q \in RecordType /\ q.known = rec.known /\ q.kept = None /\ q.reason = None
        /\ q.past = FALSE /\ q.pending = FALSE /\ q.putback = rec.putback /\ q.erase = rec.erase
        /\ q.active = IF job.op = "signout" THEN Local ELSE rec.active
    BY RecordHas DEF RecordType
  <2> HIDE DEF q
  <2>5. CASE job.choice = "putback"
    <3>1. rec' = [q EXCEPT !.putback = @ \cup {job.dir}, !.erase = @ \ {job.dir}]
      BY <2>1, <2>5 DEF Answered, PutbackAdd
    <3>2. SignsOut(rec.putback \cup {job.dir}, rec.erase \ {job.dir})
      BY <2>3, <2>4, <3>1, RecordHas DEF SignsOut, Writes, RecordType
    <3>3. QED
      BY <1>2, <2>1, <2>2, <2>3, <2>5, <3>2
  <2>6. CASE /\ job.choice # "putback" /\ staged[job.dir] # {}
             /\ job.choice = "erase" \/ job.op = "kept-erase"
    <3>1. rec' = [q EXCEPT !.erase = @ \cup {job.dir}, !.putback = @ \ {job.dir}]
      BY <2>1, <2>6 DEF Answered, EraseAdd
    <3>2. SignsOut(rec.putback \ {job.dir}, rec.erase \cup {job.dir})
      BY <2>3, <2>4, <3>1, RecordHas DEF SignsOut, Writes, RecordType
    <3>3. QED
      BY <1>2, <2>1, <2>2, <2>3, <2>6, <3>2
  <2>7. CASE /\ job.choice # "putback"
             /\ staged[job.dir] = {} \/ ~(job.choice = "erase" \/ job.op = "kept-erase")
    <3>1. rec' = q
      BY <2>1, <2>7 DEF Answered
    <3>2. SignsOut(rec.putback, rec.erase)
      BY <2>4, <3>1 DEF SignsOut, Writes
    <3>3. staged[job.dir] = {} \/ (job.choice = None /\ job.op = "signout")
      BY <2>1, <2>3, <2>7
    <3>4. QED
      BY <1>2, <2>1, <2>2, <2>3, <2>7, <3>2, <3>3
  <2>8. QED
    BY <2>5, <2>6, <2>7
<1>3. QED
  BY <1>1, <1>2

LEMMA EnterDoes ==
  ASSUME RecType, RunType, JobOK, Enter
  PROVE  /\ IF job.op = "signout" THEN Moves("erase.folder") ELSE Rests
         /\ \/ rec' = rec /\ ~rec.known /\ job.op # "signin" /\ Undecided # {}
            \/ /\ rec.known \/ job.op = "signin" \/ Undecided = {}
               /\ Writes(TRUE, Entered, rec.kept, rec.reason, rec.past, rec.putback, rec.erase,
                         rec.pending)
         /\ ctx' = Entered /\ Entered = IF job.op = "signin" THEN job.dir ELSE Local
         /\ job.dir \in Dirs
<1>1. job.dir \in Dirs
  BY DEF Enter, JobOK, At, BootSteps
<1>2. Entered = IF job.op = "signin" THEN job.dir ELSE Local
  BY DEF Entered
<1>3. IF job.op = "signout" THEN Moves("erase.folder") ELSE Rests
  BY JobHas, StepNames, GotoDoes, EndDoes DEF Enter, AfterEnter
<1>4. Entered \in Dirs \cup {Local} /\ (Entered = Local <=> job.op # "signin")
  BY <1>1, <1>2, AccountsAssumption
<1>5. rec' = Fields(rec, Entered) /\ ctx' = Entered
  BY DEF Enter
<1>6. \/ rec' = rec /\ ~rec.known /\ job.op # "signin" /\ Undecided # {}
      \/ /\ rec.known \/ job.op = "signin" \/ Undecided = {}
         /\ Writes(TRUE, Entered, rec.kept, rec.reason, rec.past, rec.putback, rec.erase, rec.pending)
  BY <1>4, <1>5, RecordHas DEF Fields, Writes, RecordType
<1>7. QED
  BY <1>1, <1>2, <1>3, <1>5, <1>6

LEMMA BootActiveDoes ==
  ASSUME RecType, RunType, JobOK, BootActive
  PROVE  /\ Moves("boot.kept")
         /\ \/ /\ rec.known /\ rec.active \in Dirs
               /\ folder[rec.active] # "there" \/ OwnerFails(rec.active)
               /\ Writes(TRUE, Local, IF rec.kept = rec.active THEN None ELSE rec.kept,
                         IF rec.kept = rec.active THEN None ELSE rec.reason,
                         rec.past /\ rec.kept # rec.active,
                         IF staged[rec.active] # {} THEN rec.putback \cup {rec.active} ELSE rec.putback,
                         IF staged[rec.active] # {} THEN rec.erase \ {rec.active} ELSE rec.erase,
                         FALSE)
            \/ /\ rec.known /\ rec.active \in Dirs /\ rec.active \notin key /\ rec.kept = None
               /\ folder[rec.active] = "there"
               /\ Writes(TRUE, Local, rec.active, "signed-out", rec.past, rec.putback, rec.erase,
                         rec.pending)
            \/ /\ rec' = rec
               /\ \A d \in Active(rec) : /\ folder[d] = "there" /\ ~OwnerFails(d)
                                         /\ d \in key \/ rec.kept # None
<1> DEFINE a == rec.active
<1>1. Moves("boot.kept")
  BY JobHas, StepNames, GotoDoes DEF BootActive
<1>2. CASE \E d \in Active(rec) : folder[d] # "there" \/ OwnerFails(d)
  <2>1. rec.known /\ a \in Dirs /\ (folder[a] # "there" \/ OwnerFails(a))
    BY <1>2, RecordHas DEF Active
  <2>2. rec' = Dropped(rec, a)
    <3>1. ~\E d \in Active(rec) : folder[d] = "there" /\ d \in Active(rec) \ key /\ rec.kept = None
      BY <2>1 DEF Active, OwnerFails
    <3>2. QED
      BY <1>2, <3>1 DEF BootActive
  <2>3. Writes(TRUE, Local, IF rec.kept = a THEN None ELSE rec.kept,
               IF rec.kept = a THEN None ELSE rec.reason,
               rec.past /\ rec.kept # a,
               IF staged[a] # {} THEN rec.putback \cup {a} ELSE rec.putback,
               IF staged[a] # {} THEN rec.erase \ {a} ELSE rec.erase,
               FALSE)
    BY <2>1, <2>2, DroppedOf, RecordHas DEF Writes
  <2>4. QED
    BY <1>1, <2>1, <2>3
<1>3. CASE /\ ~\E d \in Active(rec) : folder[d] # "there" \/ OwnerFails(d)
           /\ \E d \in Active(rec) : folder[d] = "there" /\ d \in Active(rec) \ key /\ rec.kept = None
  <2>1. rec.known /\ a \in Dirs /\ a \notin key /\ rec.kept = None /\ folder[a] = "there"
    BY <1>3, RecordHas DEF Active
  <2>2. rec' = [rec EXCEPT !.active = Local, !.kept = rec.active, !.reason = "signed-out"]
    BY <1>3 DEF BootActive
  <2>3. Writes(TRUE, Local, rec.active, "signed-out", rec.past, rec.putback, rec.erase, rec.pending)
    BY <2>1, <2>2, RecordHas DEF Writes, RecordType, Reasons
  <2>4. QED
    BY <1>1, <2>1, <2>3
<1>4. CASE /\ ~\E d \in Active(rec) : folder[d] # "there" \/ OwnerFails(d)
           /\ ~\E d \in Active(rec) : folder[d] = "there" /\ d \in Active(rec) \ key /\ rec.kept = None
  <2>1. rec' = rec
    BY <1>4 DEF BootActive
  <2>2. \A d \in Active(rec) : folder[d] = "there" /\ ~OwnerFails(d) /\ (d \in key \/ rec.kept # None)
    BY <1>4
  <2>3. QED
    BY <1>1, <2>1, <2>2
<1>5. QED
  BY <1>2, <1>3, <1>4

LEMMA BootKeptDoes ==
  ASSUME RecType, RunType, JobOK, BootKept
  PROVE  /\ Unnamed(rec') \in SUBSET Dirs
         /\ MovesTo("boot.sweep", job.dir, job.owed, Unnamed(rec'))
         /\ \/ /\ rec.known /\ rec.kept \in Dirs
               /\ folder[rec.kept] # "there" \/ rec.past \/ OwnerFails(rec.kept)
               /\ Writes(TRUE, IF rec.active = rec.kept THEN Local ELSE rec.active, None, None, FALSE,
                         IF staged[rec.kept] # {} THEN rec.putback \cup {rec.kept} ELSE rec.putback,
                         IF staged[rec.kept] # {} THEN rec.erase \ {rec.kept} ELSE rec.erase,
                         FALSE)
               /\ Held' = Held \ {rec.kept} /\ UNCHANGED synced
            \/ /\ rec.known /\ rec.kept \in Dirs
               /\ folder[rec.kept] = "there" /\ ~rec.past /\ ~OwnerFails(rec.kept)
               /\ rec' = rec /\ Held' = Held /\ synced' = synced \ {rec.kept}
            \/ /\ Kept(rec) = {}
               /\ rec' = rec /\ Held' = Held /\ UNCHANGED synced
<1> DEFINE k == rec.kept
           goes == {d \in Kept(rec) : folder[d] # "there" \/ rec.past \/ OwnerFails(d)}
<1>1. /\ rec' = IF goes # {} THEN Dropped(rec, k) ELSE rec
      /\ Held' = Held \ goes
      /\ synced' = synced \ (Kept(rec) \ goes)
      /\ GotoWith("boot.sweep", Unnamed(rec'))
  BY DEF BootKept, Held
<1>2. Unnamed(rec') \in SUBSET Dirs
  BY DEF Unnamed
<1>3. MovesTo("boot.sweep", job.dir, job.owed, Unnamed(rec'))
  BY <1>1, <1>2, JobHas, StepNames, GotoWithDoes
<1>4. CASE Kept(rec) = {}
  BY <1>1, <1>2, <1>3, <1>4
<1>5. CASE Kept(rec) # {}
  <2>1. rec.known /\ k \in Dirs /\ Kept(rec) = {k}
    BY <1>5, RecordHas DEF Kept
  <2>2. CASE folder[k] # "there" \/ rec.past \/ OwnerFails(k)
    <3>1. goes = {k}
      BY <2>1, <2>2
    <3>2. rec' = Dropped(rec, k) /\ Held' = Held \ {k} /\ synced' = synced
      BY <1>1, <2>1, <3>1
    <3>3. Writes(TRUE, IF rec.active = k THEN Local ELSE rec.active, None, None, FALSE,
                 IF staged[k] # {} THEN rec.putback \cup {k} ELSE rec.putback,
                 IF staged[k] # {} THEN rec.erase \ {k} ELSE rec.erase, FALSE)
      BY <2>1, <3>2, DroppedOf, RecordHas DEF Writes
    <3>4. QED
      BY <1>2, <1>3, <2>1, <2>2, <3>2, <3>3
  <2>3. CASE folder[k] = "there" /\ ~rec.past /\ ~OwnerFails(k)
    <3>1. goes = {}
      BY <2>1, <2>3
    <3>2. rec' = rec /\ Held' = Held /\ synced' = synced \ {k}
      BY <1>1, <2>1, <3>1
    <3>3. QED
      BY <1>2, <1>3, <2>1, <2>3, <3>2
  <2>4. QED
    BY <2>2, <2>3
<1>6. QED
  BY <1>4, <1>5

LEMMA BootResumeDoes ==
  ASSUME RecType, RunType, JobOK, BootResume
  PROVE  /\ Rests /\ phase' = "up"
         /\ \/ /\ rec.known /\ rec.active \in Dirs /\ Openable(rec.active) /\ ctx' = rec.active
               /\ Writes(TRUE, rec.active, rec.kept, rec.reason, rec.past, rec.putback, rec.erase,
                         rec.pending)
            \/ /\ \A d \in Active(rec) : ~Openable(d)
               /\ ctx' = Local
               /\ \/ /\ ~rec.known /\ rec.kept = None
                     /\ \E d \in Dirs :
                          /\ folder[d] = "there" /\ Undecided \subseteq {d}
                          /\ Writes(TRUE, rec.active, d, "record-lost", rec.past, rec.putback,
                                    rec.erase, FALSE)
                  \/ rec' = rec /\ (rec.known => Active(rec) # {})
                  \/ /\ Active(rec) = {} /\ (rec.known \/ Undecided = {})
                     /\ Writes(TRUE, Local, rec.kept, rec.reason, rec.past, rec.putback, rec.erase,
                               rec.pending)
<1> DEFINE open == {d \in Active(rec) : Openable(d)}
           alone == {d \in Dirs : folder[d] = "there" /\ Undecided \subseteq {d} /\ rec.kept = None}
<1>1. Rests /\ phase' = "up" /\ rec' = Resumed
  BY EndDoes DEF BootResume
<1>2. CASE open # {}
  <2>1. rec.known /\ rec.active \in Dirs /\ Openable(rec.active)
    BY <1>2, RecordHas DEF Active
  <2>2. ctx' = rec.active
    BY <1>2 DEF BootResume
  <2>3. rec' = Fields(rec, rec.active)
    BY <1>1, <1>2, <2>1 DEF Resumed
  <2>4. rec' = [rec EXCEPT !.known = TRUE, !.active = rec.active]
    BY <2>1, <2>3 DEF Fields
  <2>5. Writes(TRUE, rec.active, rec.kept, rec.reason, rec.past, rec.putback, rec.erase, rec.pending)
    BY <2>4, RecordHas DEF Writes, RecordType
  <2>6. QED
    BY <1>1, <2>1, <2>2, <2>5
<1>3. CASE open = {}
  <2>1. \A d \in Active(rec) : ~Openable(d)
    BY <1>3
  <2>2. ctx' = Local
    BY <2>1 DEF BootResume
  <2>3. CASE ~rec.known /\ Undecided # {} /\ alone # {}
    <3>1. PICK d \in alone : d = CHOOSE e \in alone : TRUE
      BY <2>3
    <3>2. rec' = [rec EXCEPT !.known = TRUE, !.kept = d, !.reason = "record-lost", !.pending = FALSE]
      BY <1>1, <1>3, <2>3, <3>1 DEF Resumed, Active
    <3>3. d \in Dirs /\ folder[d] = "there" /\ Undecided \subseteq {d} /\ rec.kept = None
      BY <3>1
    <3>4. Writes(TRUE, rec.active, d, "record-lost", rec.past, rec.putback, rec.erase, FALSE)
      BY <3>2, <3>3, RecordHas DEF Writes, RecordType, Reasons
    <3>5. QED
      BY <1>1, <2>1, <2>2, <2>3, <3>3, <3>4
  <2>4. CASE ~rec.known /\ Undecided # {} /\ alone = {}
    <3>1. rec' = rec
      BY <1>1, <1>3, <2>4 DEF Resumed
    <3>2. QED
      BY <1>1, <2>1, <2>2, <2>4, <3>1
  <2>5. CASE ~(~rec.known /\ Undecided # {}) /\ Active(rec) # {}
    <3>1. rec' = rec
      BY <1>1, <1>3, <2>5 DEF Resumed
    <3>2. QED
      BY <1>1, <2>1, <2>2, <2>5, <3>1
  <2>6. CASE ~(~rec.known /\ Undecided # {}) /\ Active(rec) = {}
    <3>1. rec' = Fields(rec, Local)
      BY <1>1, <1>3, <2>6 DEF Resumed
    <3>2. rec' = [rec EXCEPT !.known = TRUE, !.active = Local]
      BY <2>6, <3>1 DEF Fields
    <3>3. Writes(TRUE, Local, rec.kept, rec.reason, rec.past, rec.putback, rec.erase, rec.pending)
      BY <3>2, RecordHas DEF Writes, RecordType
    <3>4. QED
      BY <1>1, <2>1, <2>2, <2>6, <3>3
  <2>7. QED
    BY <2>3, <2>4, <2>5, <2>6
<1>4. QED
  BY <1>2, <1>3

LEMMA FailStepDoes ==
  ASSUME RecType, RunType, JobOK, FailStep
  PROVE  \/ job.at \in {"build", "add", "rename"} /\ Moves("undo")
         \/ /\ job.at \in StageSteps
            /\ \/ job.op = "signin" /\ rec.active = job.dir /\ Moves("enter")
               \/ job.op = "keep" /\ MovesTo("commit", job.dir, TRUE, job.todo)
               \/ job.op = "boot" /\ MovesTo("boot.putback", job.dir, job.owed, rec.putback)
         \/ job.op = "boot" /\ job.at \in PutbackSteps /\ Moves("boot.putback")
         \/ job.op = "boot" /\ job.at = "import.erase" /\ Moves("boot.erase")
         \/ job.op = "boot" /\ job.at = "import.drop" /\ Moves("boot.step6")
         \/ job.at = "keys" /\ Moves("enter")
         \/ job.at \in {"boot.active", "boot.kept", "boot.imports"} /\ Moves("boot.step6")
         \/ /\ job.op # "boot"
            /\ job.at \in StageSteps => job.op # "keep" /\ ~(job.op = "signin" /\ rec.active = job.dir)
            /\ job.at \in {"hold", "look", "forget", "commit"} \cup StageSteps \cup PutbackSteps
                            \cup ImportSteps
            /\ Rests
<1>1. CASE job.at \in {"build", "add", "rename"}
  <2>1. Goto("undo")
    BY <1>1 DEF FailStep, StageSteps, PutbackSteps
  <2>2. QED
    BY <1>1, <2>1, JobHas, StepNames, GotoDoes
<1>2. CASE job.at \in StageSteps
  <2>1. StageFailed
    BY <1>2 DEF FailStep, StageSteps, PutbackSteps
  <2>2. CASE job.op = "signin" /\ rec.active = job.dir
    <3>1. Goto("enter")
      BY <2>1, <2>2 DEF StageFailed
    <3>2. QED
      BY <1>2, <2>2, <3>1, JobHas, StepNames, GotoDoes
  <2>3. CASE job.op = "keep"
    <3>1. job' = [job EXCEPT !.at = "commit", !.owed = TRUE]
      BY <2>1, <2>3 DEF StageFailed
    <3>2. MovesTo("commit", job.dir, TRUE, job.todo)
      BY <3>1, JobHas, StepNames DEF MovesTo, Jobs
    <3>3. QED
      BY <1>2, <2>3, <3>2
  <2>4. CASE job.op = "boot"
    <3>1. GotoWith("boot.putback", rec.putback)
      BY <2>1, <2>4 DEF StageFailed
    <3>2. QED
      BY <1>2, <2>4, <3>1, JobHas, RecordHas, StepNames, GotoWithDoes
  <2>5. CASE job.op \notin {"keep", "boot"} /\ ~(job.op = "signin" /\ rec.active = job.dir)
    <3>1. End
      BY <2>1, <2>5 DEF StageFailed
    <3>2. QED
      BY <1>2, <2>5, <3>1, EndDoes
  <2>6. QED
    BY <2>2, <2>3, <2>4, <2>5
<1>3. CASE job.at \in PutbackSteps
  <2>1. IF job.op = "boot" THEN Goto("boot.putback") ELSE End
    BY <1>3 DEF FailStep, StageSteps, PutbackSteps
  <2>2. job.at \notin StageSteps
    BY <1>3 DEF StageSteps, PutbackSteps
  <2>3. QED
    BY <1>3, <2>1, <2>2, JobHas, StepNames, GotoDoes, EndDoes
<1>4. CASE job.at = "import.erase"
  <2>1. IF job.op = "boot" THEN Goto("boot.erase") ELSE End
    BY <1>4 DEF FailStep, StageSteps, PutbackSteps
  <2>2. job.at \notin StageSteps /\ job.at \in ImportSteps
    BY <1>4 DEF StageSteps, ImportSteps
  <2>3. QED
    BY <1>4, <2>1, <2>2, JobHas, StepNames, GotoDoes, EndDoes
<1>5. CASE job.at = "import.drop"
  <2>1. IF job.op = "boot" THEN Goto("boot.step6") ELSE End
    BY <1>5 DEF FailStep, StageSteps, PutbackSteps
  <2>2. job.at \notin StageSteps /\ job.at \in ImportSteps
    BY <1>5 DEF StageSteps, ImportSteps
  <2>3. QED
    BY <1>5, <2>1, <2>2, JobHas, StepNames, GotoDoes, EndDoes
<1>6. CASE job.at = "keys"
  <2>1. Goto("enter")
    BY <1>6 DEF FailStep, StageSteps, PutbackSteps
  <2>2. QED
    BY <1>6, <2>1, JobHas, StepNames, GotoDoes
<1>7. CASE job.at \in {"boot.active", "boot.kept", "boot.imports"}
  <2>1. Goto("boot.step6")
    BY <1>7 DEF FailStep, StageSteps, PutbackSteps
  <2>2. QED
    BY <1>7, <2>1, JobHas, StepNames, GotoDoes
<1>8. CASE job.at \in {"hold", "look", "forget", "commit"}
  <2>1. End
    BY <1>8 DEF FailStep, StageSteps, PutbackSteps
  <2>2. job.at \notin StageSteps /\ job.op # "boot"
    BY <1>8 DEF StageSteps, JobOK
  <2>3. QED
    BY <1>8, <2>1, <2>2, EndDoes
<1>9. job.at \in {"build", "add", "rename", "import.erase", "import.drop", "keys", "boot.active",
                  "boot.kept", "boot.imports", "hold", "look", "forget", "commit"}
                   \cup StageSteps \cup PutbackSteps
  BY DEF FailStep
<1>10. QED
  BY <1>1, <1>2, <1>3, <1>4, <1>5, <1>6, <1>7, <1>8, <1>9

LEMMA FailBootKeysDoes ==
  ASSUME RecType, RunType, JobOK, FailBootKeys
  PROVE  Unnamed(rec) \in SUBSET Dirs /\ MovesTo("boot.sweep", job.dir, job.owed, Unnamed(rec))
<1>1. Unnamed(rec) \in SUBSET Dirs
  BY DEF Unnamed
<1>2. QED
  BY <1>1, JobHas, StepNames, GotoWithDoes DEF FailBootKeys

LEMMA FailEraseDoes ==
  ASSUME RecType, RunType, JobOK, FailErase
  PROVE  \/ job.at = "undo" /\ Rests
         \/ /\ job.at = "erase.folder"
            /\ \/ job.op = "signin" /\ Rests
               \/ job.op # "signin" /\ job.choice = "putback" /\ Moves("putback.media")
               \/ /\ job.op # "signin" /\ job.choice # "putback" /\ job.dir \in rec.erase
                  /\ Moves("import.erase")
               \/ /\ job.op # "signin" /\ job.choice # "putback" /\ job.dir \notin rec.erase
                  /\ Rests
<1>1. CASE job.at = "undo" \/ job.op = "signin"
  BY <1>1, EndDoes DEF FailErase
<1>2. CASE job.at = "erase.folder" /\ job.op # "signin"
  <2>1. AfterErase
    BY <1>2 DEF FailErase
  <2>2. \/ job.choice = "putback" /\ Goto("putback.media")
        \/ job.choice # "putback" /\ job.dir \in rec.erase /\ Goto("import.erase")
        \/ job.choice # "putback" /\ job.dir \notin rec.erase /\ End
    BY <1>2, <2>1 DEF AfterErase
  <2>3. QED
    BY <1>2, <2>2, JobHas, StepNames, GotoDoes, EndDoes
<1>3. QED
  BY <1>1, <1>2 DEF FailErase

LEMMA FailSweepDoes ==
  ASSUME RecType, RunType, JobOK, FailSweep
  PROVE  \E d \in job.todo : /\ d \in Dirs /\ KeyMayGo(d)
                             /\ MovesTo("boot.sweep", job.dir, job.owed, job.todo \ {d})
  BY JobHas, StepNames, GotoWithDoes DEF FailSweep

LEMMA ExpireDoes ==
  ASSUME RecType, Expire
  PROVE  /\ rec.reason \in {"removed", "deleted"} /\ ~rec.past /\ phase = "down"
         /\ Writes(rec.known, rec.active, rec.kept, rec.reason, TRUE, rec.putback, rec.erase,
                   rec.pending)
  BY RecordHas DEF Expire, Writes, RecordType

---------------------------------------------------------------------------
(* The types, and the steps each operation takes. *)

\* A mishap is counted, up to MaxFaults.
LEMMA FaultType ==
  ASSUME RunType, NEW kind, Fault(kind)
  PROVE  faults' \in 0..MaxFaults
  BY AccountsAssumption DEF RunType, Fault

\* The fields of the job nobody runs.
LEMMA NoJobHas ==
  /\ NoJob \in Jobs /\ NoJob.op = "idle" /\ NoJob.at = "idle" /\ NoJob.dir = None
  /\ NoJob.choice = None /\ NoJob.reason = None /\ NoJob.owed = FALSE /\ NoJob.todo = {}
  BY DEF NoJob, Job, Jobs, Ops, Steps, Choices, Answers, Reasons

\* An entry that fails is still the entry of a folder, or of This computer.
LEMMA FailEntered ==
  ASSUME RecType, RunType, JobOK, FailEnter
  PROVE  /\ job.dir \in Dirs /\ ctx' \in Dirs \cup {Local}
         /\ ctx' = IF job.op = "signin" THEN job.dir ELSE Local
  BY DEF FailEnter, Entered, JobOK, At, BootSteps

\* Each step leaves the phase, the profile, the job and the counts of their types.
LEMMA RunStep ==
  ASSUME RecType, RunType, JobOK, [Next]_vars
  PROVE  RunType'
<1> USE AccountsAssumption DEF RunType, At, Same, Moves, MovesTo, Starts, Rests
<1>1. CASE \E a \in Accts, add \in SUBSET Chats, e \in BOOLEAN : SignIn(a, add, e)
  BY <1>1, SignInDoes DEF SignIn, Begin, Idle
<1>2. CASE \E c \in Choices : SignOut(c)
  BY <1>2, SignOutDoes DEF SignOut, Begin, Idle
<1>3. CASE \E c \in Choices : KeptErase(c)
  BY <1>3, KeptEraseDoes DEF KeptErase, Begin, Idle
<1>4. CASE \E r \in {"signed-out", "removed", "deleted"} : Keep(r)
  BY <1>4, KeepDoes DEF Keep, Begin, Idle, Reasons
<1>5. CASE \E c \in Chats : DeleteChat(c)
  BY <1>5 DEF DeleteChat, Idle, run
<1>6. CASE SaveKey
  BY <1>6 DEF SaveKey, Idle, run
<1>7. CASE Quit
  BY <1>7, NoJobHas DEF Quit, Idle, run
<1>8. CASE Hold
  BY <1>8, HoldDoes DEF Hold
<1>9. CASE LookUndecided
  BY <1>9, EndDoes DEF LookUndecided
<1>10. CASE LookNone
  BY <1>10, LookNoneDoes DEF LookNone
<1>11. CASE LookSame
  BY <1>11, LookSameDoes DEF LookSame
<1>12. CASE LookOther
  BY <1>12, LookOtherDoes DEF LookOther
<1>13. CASE Forget
  BY <1>13, ForgetDoes DEF Forget
<1>14. CASE Build
  BY <1>14, BuildDoes DEF Build
<1>15. CASE AddBuild
  BY <1>15, AddBuildDoes DEF AddBuild
<1>16. CASE Rename
  BY <1>16, RenameDoes DEF Rename
<1>17. CASE CommitSignIn
  BY <1>17, CommitSignInDoes DEF CommitSignIn
<1>18. CASE CancelSignIn
  BY <1>18, CancelSignInDoes DEF CancelSignIn
<1>19. CASE Undo
  BY <1>19, EndDoes DEF Undo
<1>20. CASE CommitSignOut
  BY <1>20, CommitSignOutDoes DEF CommitSignOut
<1>21. CASE CancelSignOut
  BY <1>21, EndDoes DEF CancelSignOut
<1>22. CASE CommitKeep
  BY <1>22, CommitKeepDoes DEF CommitKeep
<1>23. CASE KeptKeys
  BY <1>23, KeptKeysDoes DEF KeptKeys
<1>24. CASE Enter
  BY <1>24, EnterDoes DEF Enter
<1>25. CASE EraseFolder
  BY <1>25, EraseFolderDoes DEF EraseFolder
<1>26. CASE ImportErase
  BY <1>26, ImportEraseDoes DEF ImportErase
<1>27. CASE ImportDrop
  BY <1>27, ImportDropDoes DEF ImportDrop
<1>28. CASE StageUnits
  BY <1>28, StageUnitsDoes DEF StageUnits
<1>29. CASE StageChats
  BY <1>29, StageChatsDoes DEF StageChats
<1>30. CASE StageMedia
  BY <1>30, StageMediaDoes DEF StageMedia
<1>31. CASE StageDone
  BY <1>31, StageDoneDoes DEF StageDone
<1>32. CASE PutbackMedia
  BY <1>32, PutbackMediaDoes DEF PutbackMedia
<1>33. CASE PutbackChats
  BY <1>33, PutbackChatsDoes DEF PutbackChats
<1>34. CASE PutbackDrop
  BY <1>34, PutbackDropDoes DEF PutbackDrop
<1>35. CASE PutbackErase
  BY <1>35, PutbackEraseDoes DEF PutbackErase
<1>36. CASE Start
  BY <1>36, StartDoes DEF Start
<1>37. CASE BootActive
  BY <1>37, BootActiveDoes DEF BootActive
<1>38. CASE BootKept
  BY <1>38, BootKeptDoes DEF BootKept
<1>39. CASE BootSweep
  BY <1>39, BootSweepDoes DEF BootSweep
<1>40. CASE BootErase
  BY <1>40, BootEraseDoes DEF BootErase
<1>41. CASE BootImports
  BY <1>41, BootImportsDoes DEF BootImports
<1>42. CASE BootStep6
  BY <1>42, BootStep6Does DEF BootStep6
<1>43. CASE BootPutback
  BY <1>43, BootPutbackDoes DEF BootPutback
<1>44. CASE BootResume
  BY <1>44, BootResumeDoes DEF BootResume
<1>45. CASE FailStep
  BY <1>45, FailStepDoes, FaultType DEF FailStep, Refused
<1>46. CASE FailBootKeys
  BY <1>46, FailBootKeysDoes, FaultType DEF FailBootKeys, Refused
<1>47. CASE FailErase
  BY <1>47, FailEraseDoes, FaultType DEF FailErase, Refused
<1>48. CASE FailSweep
  BY <1>48, FailSweepDoes, FaultType DEF FailSweep, Refused
<1>49. CASE FailEnter
  BY <1>49, EndDoes, FaultType, FailEntered DEF FailEnter, Refused
<1>50. CASE FailResume
  BY <1>50, EndDoes, FaultType DEF FailResume, Refused
<1>51. CASE Crash
  BY <1>51, FaultType, NoJobHas DEF Crash
<1>52. CASE LoseRecord
  BY <1>52, FaultType DEF LoseRecord
<1>53. CASE RestoreRecord
  BY <1>53, FaultType DEF RestoreRecord
<1>54. CASE Expire
  BY <1>54, ExpireDoes DEF Expire, run
<1>55. CASE \E d \in Dirs, o \in {"foreign", "unclear"} : SpoilOwner(d, o)
  BY <1>55, FaultType DEF SpoilOwner
<1>56. CASE UNCHANGED vars
  BY <1>56 DEF vars, disk, told, run
<1>57. QED
  BY <1>1, <1>2, <1>3, <1>4, <1>5, <1>6, <1>7, <1>8, <1>9, <1>10, <1>11, <1>12, <1>13, <1>14,
     <1>15, <1>16, <1>17, <1>18, <1>19, <1>20, <1>21, <1>22, <1>23, <1>24, <1>25, <1>26, <1>27,
     <1>28, <1>29, <1>30, <1>31, <1>32, <1>33, <1>34, <1>35, <1>36, <1>37, <1>38, <1>39, <1>40,
     <1>41, <1>42, <1>43, <1>44, <1>45, <1>46, <1>47, <1>48, <1>49, <1>50, <1>51, <1>52, <1>53,
     <1>54, <1>55, <1>56
     DEF Next, Ask, Step, SignInStep, BootStep, Mishap

\* Each step takes its operation to one of its own next steps.
LEMMA JobStep ==
  ASSUME RecType, RunType, JobOK, [Next]_vars
  PROVE  JobOK'
<1> USE AccountsAssumption
        DEF JobOK, At, Same, Moves, MovesTo, Starts, Rests, BootSteps, StageSteps, ImportSteps,
            PutbackSteps
<1>1. CASE \E a \in Accts, add \in SUBSET Chats, e \in BOOLEAN : SignIn(a, add, e)
  <2>1. Starts("signin", "hold", None, None, None) /\ phase = "up" /\ phase' = phase
    BY <1>1, SignInDoes DEF SignIn, Begin, Idle
  <2>2. QED
    BY <2>1
<1>2. CASE \E c \in Choices : SignOut(c)
  BY <1>2, SignOutDoes, NoJobHas DEF SignOut, Begin, Idle
<1>3. CASE \E c \in Choices : KeptErase(c)
  BY <1>3, KeptEraseDoes, NoJobHas DEF KeptErase, Begin, Idle
<1>4. CASE \E r \in {"signed-out", "removed", "deleted"} : Keep(r)
  BY <1>4, KeepDoes, NoJobHas DEF Keep, Begin, Idle, Reasons
<1>5. CASE \E c \in Chats : DeleteChat(c)
  BY <1>5, NoJobHas DEF DeleteChat, Idle, run
<1>6. CASE SaveKey
  BY <1>6, NoJobHas DEF SaveKey, Idle, run
<1>7. CASE Quit
  BY <1>7, NoJobHas DEF Quit, Idle, run
<1>8. CASE Hold
  BY <1>8, HoldDoes, NoJobHas DEF Hold
<1>9. CASE LookUndecided
  BY <1>9, EndDoes, NoJobHas DEF LookUndecided
<1>10. CASE LookNone
  BY <1>10, LookNoneDoes, NoJobHas DEF LookNone
<1>11. CASE LookSame
  BY <1>11, LookSameDoes, NoJobHas DEF LookSame
<1>12. CASE LookOther
  BY <1>12, LookOtherDoes, NoJobHas DEF LookOther
<1>13. CASE Forget
  BY <1>13, ForgetDoes, NoJobHas DEF Forget
<1>14. CASE Build
  BY <1>14, BuildDoes, NoJobHas DEF Build
<1>15. CASE AddBuild
  BY <1>15, AddBuildDoes, NoJobHas DEF AddBuild
<1>16. CASE Rename
  BY <1>16, RenameDoes, NoJobHas DEF Rename
<1>17. CASE CommitSignIn
  BY <1>17, CommitSignInDoes, NoJobHas DEF CommitSignIn
<1>18. CASE CancelSignIn
  BY <1>18, CancelSignInDoes, NoJobHas DEF CancelSignIn
<1>19. CASE Undo
  BY <1>19, EndDoes, NoJobHas DEF Undo
<1>20. CASE CommitSignOut
  BY <1>20, CommitSignOutDoes, NoJobHas DEF CommitSignOut
<1>21. CASE CancelSignOut
  BY <1>21, EndDoes, NoJobHas DEF CancelSignOut
<1>22. CASE CommitKeep
  BY <1>22, CommitKeepDoes, NoJobHas DEF CommitKeep
<1>23. CASE KeptKeys
  BY <1>23, KeptKeysDoes, NoJobHas DEF KeptKeys
<1>24. CASE Enter
  BY <1>24, EnterDoes, NoJobHas DEF Enter
<1>25. CASE EraseFolder
  <2>1. CASE job.choice = "putback"
    BY <1>25, <2>1, EraseFolderDoes, NoJobHas DEF EraseFolder, Answers
  <2>2. CASE job.choice # "putback" /\ job.dir \in rec.erase
    BY <1>25, <2>2, EraseFolderDoes, NoJobHas DEF EraseFolder, Answers
  <2>3. CASE job.choice # "putback" /\ job.dir \notin rec.erase /\ job.op = "signin"
    BY <1>25, <2>3, EraseFolderDoes, NoJobHas DEF EraseFolder, Answers
  <2>4. CASE job.choice # "putback" /\ job.dir \notin rec.erase /\ job.op # "signin"
    BY <1>25, <2>4, EraseFolderDoes, NoJobHas DEF EraseFolder, Answers
  <2>5. QED
    BY <2>1, <2>2, <2>3, <2>4
<1>26. CASE ImportErase
  BY <1>26, ImportEraseDoes, NoJobHas DEF ImportErase
<1>27. CASE ImportDrop
  BY <1>27, ImportDropDoes, NoJobHas DEF ImportDrop
<1>28. CASE StageUnits
  BY <1>28, StageUnitsDoes, NoJobHas DEF StageUnits
<1>29. CASE StageChats
  BY <1>29, StageChatsDoes, NoJobHas DEF StageChats
<1>30. CASE StageMedia
  BY <1>30, StageMediaDoes, NoJobHas DEF StageMedia
<1>31. CASE StageDone
  <2>1. CASE job.op = "signin"
    BY <1>31, <2>1, StageDoneDoes, NoJobHas, JobHas DEF StageDone, Ops
  <2>2. CASE job.op = "boot"
    BY <1>31, <2>2, StageDoneDoes, NoJobHas, JobHas DEF StageDone, Ops
  <2>3. CASE job.op \notin {"signin", "boot"}
    BY <1>31, <2>3, StageDoneDoes, NoJobHas, JobHas DEF StageDone, Ops
  <2>4. QED
    BY <2>1, <2>2, <2>3
<1>32. CASE PutbackMedia
  BY <1>32, PutbackMediaDoes, NoJobHas DEF PutbackMedia
<1>33. CASE PutbackChats
  BY <1>33, PutbackChatsDoes, NoJobHas DEF PutbackChats
<1>34. CASE PutbackDrop
  BY <1>34, PutbackDropDoes, NoJobHas DEF PutbackDrop
<1>35. CASE PutbackErase
  BY <1>35, PutbackEraseDoes, NoJobHas DEF PutbackErase
<1>36. CASE Start
  BY <1>36, StartDoes, NoJobHas DEF Start
<1>37. CASE BootActive
  BY <1>37, BootActiveDoes, NoJobHas DEF BootActive
<1>38. CASE BootKept
  BY <1>38, BootKeptDoes, NoJobHas DEF BootKept
<1>39. CASE BootSweep
  BY <1>39, BootSweepDoes, NoJobHas DEF BootSweep
<1>40. CASE BootErase
  BY <1>40, BootEraseDoes, NoJobHas DEF BootErase
<1>41. CASE BootImports
  BY <1>41, BootImportsDoes, NoJobHas DEF BootImports
<1>42. CASE BootStep6
  <2>1. job.op = "boot" /\ phase' = "boot" /\ job'.op = "boot"
    BY <1>42, BootStep6Does DEF BootStep6
  <2>2. \/ job'.at = "stage.units" /\ job'.dir \in Dirs
        \/ job'.at = "boot.putback"
    BY <1>42, BootStep6Does, RecordHas
  <2>3. QED
    BY <2>1, <2>2
<1>43. CASE BootPutback
  BY <1>43, BootPutbackDoes, NoJobHas DEF BootPutback
<1>44. CASE BootResume
  BY <1>44, BootResumeDoes, NoJobHas DEF BootResume
<1>45. CASE FailStep
  BY <1>45, FailStepDoes, NoJobHas DEF FailStep, Refused
<1>46. CASE FailBootKeys
  BY <1>46, FailBootKeysDoes, NoJobHas DEF FailBootKeys, Refused
<1>47. CASE FailErase
  BY <1>47, FailEraseDoes, NoJobHas DEF FailErase, Refused
<1>48. CASE FailSweep
  BY <1>48, FailSweepDoes, NoJobHas DEF FailSweep, Refused
<1>49. CASE FailEnter
  BY <1>49, EndDoes, NoJobHas DEF FailEnter, Refused
<1>50. CASE FailResume
  BY <1>50, EndDoes, NoJobHas DEF FailResume, Refused
<1>51. CASE Crash
  BY <1>51, NoJobHas DEF Crash
<1>52. CASE LoseRecord
  BY <1>52, NoJobHas DEF LoseRecord
<1>53. CASE RestoreRecord
  BY <1>53, NoJobHas DEF RestoreRecord
<1>54. CASE Expire
  BY <1>54, ExpireDoes, NoJobHas DEF Expire, run
<1>55. CASE \E d \in Dirs, o \in {"foreign", "unclear"} : SpoilOwner(d, o)
  BY <1>55, NoJobHas DEF SpoilOwner
<1>56. CASE UNCHANGED vars
  BY <1>56 DEF vars, disk, told, run
<1>57. QED
  BY <1>1, <1>2, <1>3, <1>4, <1>5, <1>6, <1>7, <1>8, <1>9, <1>10, <1>11, <1>12, <1>13, <1>14,
     <1>15, <1>16, <1>17, <1>18, <1>19, <1>20, <1>21, <1>22, <1>23, <1>24, <1>25, <1>26, <1>27,
     <1>28, <1>29, <1>30, <1>31, <1>32, <1>33, <1>34, <1>35, <1>36, <1>37, <1>38, <1>39, <1>40,
     <1>41, <1>42, <1>43, <1>44, <1>45, <1>46, <1>47, <1>48, <1>49, <1>50, <1>51, <1>52, <1>53,
     <1>54, <1>55, <1>56
     DEF Next, Ask, Step, SignInStep, BootStep, Mishap

\* The steps that write no record.
Recordless ==
  \/ Ask \/ Start \/ LookUndecided \/ LookNone \/ LookOther \/ Build \/ AddBuild \/ Rename
  \/ CancelSignIn \/ Undo \/ CancelSignOut \/ KeptKeys \/ EraseFolder \/ ImportErase
  \/ StageUnits \/ StageChats \/ StageMedia \/ PutbackMedia \/ PutbackChats \/ PutbackErase
  \/ BootSweep \/ BootErase \/ BootStep6 \/ BootPutback
  \/ FailStep \/ FailBootKeys \/ FailErase \/ FailSweep \/ FailEnter \/ FailResume \/ Crash
  \/ \E d \in Dirs, o \in {"foreign", "unclear"} : SpoilOwner(d, o)
  \/ UNCHANGED vars

\* They leave it as it is.
LEMMA RecordlessSame ==
  ASSUME Recordless
  PROVE  rec' = rec
  BY DEF Recordless, Ask, vars, SignIn, Begin, SignOut, KeptErase, Keep, DeleteChat, run,
         SaveKey, Quit, LookUndecided, LookNone, LookOther, Build, AddBuild, Rename,
         CancelSignIn, Undo, CancelSignOut, KeptKeys, EraseFolder, ImportErase, StageUnits,
         StageChats, StageMedia, PutbackMedia, PutbackChats, PutbackErase, Start, BootSweep,
         BootErase, BootStep6, BootPutback, FailStep, Refused, FailBootKeys, FailErase,
         FailSweep, FailEnter, FailResume, Crash, SpoilOwner

\* The fields of a record that was lost, and of one from before the first sign-in.
LEMMA LostIs ==
  /\ Lost \in RecordType /\ ~Lost.known /\ Lost.active = Local /\ Lost.kept = None
  /\ Lost.reason = None /\ ~Lost.past /\ Lost.putback = {} /\ Lost.erase = {} /\ ~Lost.pending
  /\ Fresh \in RecordType /\ Fresh.known /\ Fresh.active = Local /\ Fresh.kept = None
  /\ Fresh.reason = None /\ ~Fresh.past /\ Fresh.putback = {} /\ Fresh.erase = {}
  /\ ~Fresh.pending
  BY DEF Lost, Fresh, RecordType

\* The record keeps its type: a reason just when a folder is kept, and no
\* import both to put back and to erase.
LEMMA RecordStep ==
  ASSUME RecType, RunType, DiskType, JobOK, [Next]_vars
  PROVE  RecType'
<1>1. CASE Recordless
  BY <1>1, RecordlessSame DEF RecType
<1>2. CASE Hold
  BY <1>2, HoldDoes, RecordHas, JobHas, AccountsAssumption
     DEF Hold, RecType, At, Writes, BootSteps
<1>3. CASE LookSame
  BY <1>3, LookSameDoes, RecordHas, JobHas, AccountsAssumption
     DEF LookSame, RecType, At, Writes, BootSteps, Kept
<1>4. CASE Forget
  BY <1>4, ForgetDoes, RecordHas, JobHas, AccountsAssumption
     DEF Forget, RecType, At, Writes, BootSteps
<1>5. CASE CommitSignIn
  BY <1>5, CommitSignInDoes, RecordHas, JobHas, AccountsAssumption
     DEF CommitSignIn, RecType, At, Writes, BootSteps
<1>6. CASE CommitSignOut
  <2>1. CASE UNCHANGED <<rec, told>>
    BY <2>1 DEF RecType
  <2>2. CASE OnlyStaged(job.dir) # {} => job.choice # None
    BY <1>6, <2>2, CommitSignOutDoes, RecordHas, AccountsAssumption
       DEF RecType, SignsOut, Writes
  <2>3. QED
    BY <1>6, <2>1, <2>2, CommitSignOutDoes
<1>7. CASE CommitKeep
  <2>1. job.dir \in Dirs /\ job.reason # None
    BY <1>7 DEF CommitKeep, JobOK, At, BootSteps
  <2>2. QED
    BY <1>7, <2>1, CommitKeepDoes, AccountsAssumption DEF RecType, Writes
<1>8. CASE Enter
  BY <1>8, EnterDoes, RecordHas, JobHas, AccountsAssumption
     DEF Enter, RecType, At, Writes, BootSteps
<1>9. CASE ImportDrop
  BY <1>9, ImportDropDoes, RecordHas, JobHas, AccountsAssumption
     DEF ImportDrop, RecType, At, Writes, BootSteps
<1>10. CASE StageDone
  BY <1>10, StageDoneDoes, RecordHas, JobHas, AccountsAssumption
     DEF StageDone, RecType, At, Writes, BootSteps
<1>11. CASE PutbackDrop
  BY <1>11, PutbackDropDoes, RecordHas, JobHas, AccountsAssumption
     DEF PutbackDrop, RecType, At, Writes, BootSteps
<1>12. CASE BootActive
  BY <1>12, BootActiveDoes, RecordHas, AccountsAssumption DEF RecType, Writes, Reasons
<1>13. CASE BootKept
  BY <1>13, BootKeptDoes, RecordHas, JobHas, AccountsAssumption
     DEF BootKept, RecType, At, Writes, BootSteps
<1>14. CASE BootImports
  BY <1>14, BootImportsDoes, RecordHas, JobHas, AccountsAssumption
     DEF BootImports, RecType, At, Writes, BootSteps
<1>15. CASE BootResume
  BY <1>15, BootResumeDoes, RecordHas, AccountsAssumption DEF RecType, Writes, Reasons
<1>16. CASE LoseRecord
  BY <1>16, RecordHas, JobHas, AccountsAssumption, LostIs
     DEF LoseRecord, RecType, At, Writes, BootSteps
<1>17. CASE RestoreRecord
  BY <1>17, RecordHas, JobHas, AccountsAssumption, LostIs
     DEF RestoreRecord, RecType, At, Writes, BootSteps
<1>18. CASE Expire
  BY <1>18, ExpireDoes, RecordHas, JobHas, AccountsAssumption
     DEF Expire, run, RecType, At, Writes, BootSteps
<1>19. QED
  BY <1>1, <1>2, <1>3, <1>4, <1>5, <1>6, <1>7, <1>8, <1>9, <1>10, <1>11, <1>12, <1>13, <1>14,
     <1>15, <1>16, <1>17, <1>18
     DEF Next, Ask, Step, SignInStep, BootStep, Mishap, Recordless

\* The steps that touch no file but the record.
Diskless ==
  \/ \E a \in Accts, add \in SUBSET Chats, e \in BOOLEAN : SignIn(a, add, e)
  \/ \E c \in Choices : SignOut(c) \/ KeptErase(c)
  \/ \E r \in {"signed-out", "removed", "deleted"} : Keep(r)
  \/ Quit \/ Hold \/ LookUndecided \/ LookNone \/ LookSame \/ LookOther \/ Forget
  \/ CommitSignIn \/ CancelSignIn \/ CommitSignOut \/ CancelSignOut \/ CommitKeep \/ Enter
  \/ ImportDrop \/ StageDone \/ PutbackDrop \/ Start \/ BootActive \/ BootErase
  \/ BootImports \/ BootStep6 \/ BootPutback \/ BootResume \/ FailStep \/ FailBootKeys
  \/ FailEnter \/ FailResume \/ LoseRecord \/ RestoreRecord \/ Expire
  \/ UNCHANGED vars

\* They leave every file as it is.
LEMMA DisklessSame ==
  ASSUME Diskless
  PROVE  UNCHANGED disk
  BY DEF Diskless, disk, vars, SignIn, Begin, SignOut, KeptErase, Keep, Quit, run, Hold,
         LookUndecided, LookNone, LookSame, LookOther, Forget, CommitSignIn, CancelSignIn,
         CommitSignOut, CancelSignOut, CommitKeep, Enter, ImportDrop, StageDone, PutbackDrop,
         Start, BootActive, BootErase, BootImports, BootStep6, BootPutback, BootResume,
         FailStep, Refused, FailBootKeys, FailEnter, FailResume, LoseRecord, RestoreRecord,
         Expire

\* An erased folder takes its key, its owner and its synced keys along; nothing else moves.
LEMMA GoneDoes ==
  ASSUME DiskType, NEW d \in Dirs, Gone(d)
  PROVE  /\ DiskType'
         /\ folder'[d] = "none" /\ \A e \in Dirs \ {d} : folder'[e] = folder[e]
         /\ owner'[d] = "ok" /\ \A e \in Dirs \ {d} : owner'[e] = owner[e]
         /\ key' = key \ {d} /\ synced' = synced \ {d}
         /\ UNCHANGED <<staged, stagedMedia, chats, media>>
  BY DEF DiskType, Gone

\* Each step leaves the files of their types.
LEMMA DiskStep ==
  ASSUME RecType, RunType, DiskType, JobOK, [Next]_vars
  PROVE  DiskType'
<1>1. CASE Diskless
  BY <1>1, DisklessSame DEF DiskType, disk
<1>2. CASE \E c \in Chats : DeleteChat(c)
  BY <1>2 DEF DeleteChat, DiskType
<1>3. CASE SaveKey
  BY <1>3 DEF SaveKey, DiskType, RunType
<1>4. CASE Build
  <2>1. job.dir \in Dirs
    BY <1>4 DEF Build, JobOK, At, BootSteps
  <2>2. QED
    BY <1>4, <2>1, JobHas DEF Build, DiskType
<1>5. CASE AddBuild
  <2>1. job.dir \in Dirs
    BY <1>5 DEF AddBuild, JobOK, At, BootSteps
  <2>2. QED
    BY <1>5, <2>1, JobHas DEF AddBuild, DiskType
<1>6. CASE Rename
  <2>1. job.dir \in Dirs
    BY <1>6 DEF Rename, JobOK, At, BootSteps
  <2>2. QED
    BY <1>6, <2>1 DEF Rename, DiskType
<1>7. CASE Undo
  <2>1. job.dir \in Dirs
    BY <1>7 DEF Undo, JobOK, At, BootSteps
  <2>2. QED
    BY <1>7, <2>1, GoneDoes DEF Undo
<1>8. CASE KeptKeys
  <2>1. job.dir \in Dirs
    BY <1>8 DEF KeptKeys, JobOK, At, BootSteps
  <2>2. QED
    BY <1>8, <2>1 DEF KeptKeys, DiskType
<1>9. CASE EraseFolder
  <2>1. job.dir \in Dirs
    BY <1>9 DEF EraseFolder, JobOK, At, BootSteps
  <2>2. QED
    BY <1>9, <2>1, GoneDoes DEF EraseFolder
<1>10. CASE ImportErase
  <2>1. job.dir \in Dirs
    BY <1>10 DEF ImportErase, JobOK, At, BootSteps
  <2>2. QED
    BY <1>10, <2>1 DEF ImportErase, DiskType
<1>11. CASE StageUnits
  <2>1. job.dir \in Dirs
    BY <1>11 DEF StageUnits, JobOK, At, BootSteps
  <2>2. QED
    BY <1>11, <2>1 DEF StageUnits, DiskType
<1>12. CASE StageChats
  <2>1. job.dir \in Dirs
    BY <1>12 DEF StageChats, JobOK, At, BootSteps
  <2>2. QED
    BY <1>12, <2>1 DEF StageChats, DiskType
<1>13. CASE StageMedia
  <2>1. job.dir \in Dirs
    BY <1>13 DEF StageMedia, JobOK, At, BootSteps
  <2>2. QED
    BY <1>13, <2>1 DEF StageMedia, DiskType, ToStage
<1>14. CASE PutbackMedia
  <2>1. job.dir \in Dirs
    BY <1>14 DEF PutbackMedia, JobOK, At, BootSteps
  <2>2. QED
    BY <1>14, <2>1 DEF PutbackMedia, DiskType, ToPutBack
<1>15. CASE PutbackChats
  <2>1. job.dir \in Dirs
    BY <1>15 DEF PutbackChats, JobOK, At, BootSteps
  <2>2. QED
    BY <1>15, <2>1 DEF PutbackChats, DiskType
<1>16. CASE PutbackErase
  <2>1. job.dir \in Dirs
    BY <1>16 DEF PutbackErase, JobOK, At, BootSteps
  <2>2. QED
    BY <1>16, <2>1 DEF PutbackErase, DiskType
<1>17. CASE BootKept
  BY <1>17, BootKeptDoes DEF BootKept, DiskType
<1>18. CASE BootSweep
  BY <1>18, GoneDoes, JobHas DEF BootSweep, DiskType, disk
<1>19. CASE FailErase
  BY <1>19 DEF FailErase, KeyMayGo, DiskType, Refused
<1>20. CASE FailSweep
  BY <1>20 DEF FailSweep, KeyMayGo, DiskType, Refused
<1>21. CASE Crash
  BY <1>21 DEF Crash, KeyMayGo, DiskType
<1>22. CASE \E d \in Dirs, o \in {"foreign", "unclear"} : SpoilOwner(d, o)
  BY <1>22 DEF SpoilOwner, DiskType
<1>23. QED
  BY <1>1, <1>2, <1>3, <1>4, <1>5, <1>6, <1>7, <1>8, <1>9, <1>10, <1>11, <1>12, <1>13, <1>14,
     <1>15, <1>16, <1>17, <1>18, <1>19, <1>20, <1>21, <1>22
     DEF Next, Ask, Step, SignInStep, BootStep, Mishap, Diskless

\* The steps at which nothing is decided.
Undeciding ==
  \/ \E a \in Accts, add \in SUBSET Chats, e \in BOOLEAN : SignIn(a, add, e)
  \/ \E c \in Choices : SignOut(c) \/ KeptErase(c)
  \/ \E r \in {"signed-out", "removed", "deleted"} : Keep(r)
  \/ SaveKey \/ Quit \/ Hold \/ LookUndecided \/ LookNone \/ LookSame \/ LookOther \/ Build
  \/ AddBuild \/ Rename \/ CancelSignIn \/ Undo \/ CancelSignOut \/ CommitKeep
  \/ KeptKeys \/ Enter \/ EraseFolder \/ ImportErase \/ ImportDrop \/ StageUnits
  \/ StageChats \/ StageDone \/ PutbackMedia \/ PutbackChats \/ PutbackDrop \/ PutbackErase
  \/ Start \/ BootSweep \/ BootErase \/ BootImports \/ BootStep6 \/ BootPutback
  \/ BootResume \/ FailStep \/ FailBootKeys \/ FailErase \/ FailSweep \/ FailEnter
  \/ FailResume \/ Crash \/ Expire
  \/ UNCHANGED vars

\* They leave what was decided as it is.
LEMMA UndecidingSame ==
  ASSUME Undeciding
  PROVE  UNCHANGED <<owned, disowned, unwanted, copied, borrowed>> /\ Held' = Held
  BY DEF Undeciding, Held, told, vars, SignIn, Begin, SignOut, KeptErase, Keep, SaveKey, run, Quit,
         Hold, LookUndecided, LookNone, LookSame, LookOther, Build, AddBuild, Rename,
         CancelSignIn, Undo, CancelSignOut, CommitKeep, KeptKeys, Enter, EraseFolder,
         ImportErase, ImportDrop, StageUnits, StageChats, StageDone, PutbackMedia, PutbackChats,
         PutbackDrop, PutbackErase, Start, BootSweep, BootErase, BootImports, BootStep6,
         BootPutback, BootResume, FailStep, Refused, FailBootKeys, FailErase, FailSweep,
         FailEnter, FailResume, Crash, Expire

\* Each step leaves what was decided of its type.
LEMMA ToldStep ==
  ASSUME RecType, RunType, DiskType, ToldType, JobOK, [Next]_vars
  PROVE  ToldType'
<1>1. CASE Undeciding
  BY <1>1, UndecidingSame DEF ToldType
<1>2. CASE \E c \in Chats : DeleteChat(c)
  BY <1>2 DEF DeleteChat, Unwant, ToldType
<1>3. CASE Forget
  <2>1. job.dir \in Dirs
    BY <1>3 DEF Forget, JobOK, At, BootSteps
  <2>2. OnlyStaged(job.dir) \in SUBSET Chats
    BY <2>1 DEF OnlyStaged, DiskType
  <2>3. QED
    BY <1>3, <2>2 DEF Forget, Unwant, ToldType
<1>4. CASE CommitSignIn
  <2>1. job.dir \in Dirs
    BY <1>4 DEF CommitSignIn, JobOK, At, BootSteps
  <2>2. QED
    BY <1>4, <2>1 DEF CommitSignIn, ToldType
<1>5. CASE CommitSignOut
  <2>1. CASE UNCHANGED <<rec, told>>
    BY <2>1 DEF ToldType, told
  <2>2. CASE OnlyStaged(job.dir) # {} => job.choice # None
    <3>1. OnlyStaged(job.dir) \in SUBSET Chats
      BY <1>5, <2>2, CommitSignOutDoes DEF OnlyStaged, DiskType
    <3>2. QED
      BY <1>5, <2>2, <3>1, CommitSignOutDoes DEF ToldType, Unwant
  <2>3. QED
    BY <1>5, <2>1, <2>2, CommitSignOutDoes
<1>6. CASE StageMedia
  BY <1>6 DEF StageMedia, ToStage, ToldType, DiskType
<1>7. CASE BootActive
  BY <1>7 DEF BootActive, ToldType
<1>8. CASE BootKept
  BY <1>8 DEF BootKept, ToldType
<1>9. CASE LoseRecord
  BY <1>9 DEF LoseRecord, Forgotten, ToldType
<1>10. CASE RestoreRecord
  BY <1>10 DEF RestoreRecord, Forgotten, ToldType
<1>11. CASE \E d \in Dirs, o \in {"foreign", "unclear"} : SpoilOwner(d, o)
  BY <1>11 DEF SpoilOwner, ToldType
<1>12. QED
  BY <1>1, <1>2, <1>3, <1>4, <1>5, <1>6, <1>7, <1>8, <1>9, <1>10, <1>11
     DEF Next, Ask, Step, SignInStep, BootStep, Mishap, Undeciding

\* Types, and the steps of each operation, are inductive together.
LEMMA TypeStep ==
  ASSUME TypeOK, JobOK, [Next]_vars
  PROVE  TypeOK' /\ JobOK'
<1>1. RecType /\ DiskType /\ RunType /\ ToldType
  BY TypeParts
<1>2. RecType' /\ DiskType' /\ RunType' /\ ToldType' /\ JobOK'
  BY <1>1, RecordStep, DiskStep, RunStep, ToldStep, JobStep
<1>3. TypeOK' <=> RecType' /\ DiskType' /\ RunType' /\ ToldType'
  BY DEF TypeOK, RecType, RecordType, DiskType, RunType, ToldType
<1>4. QED
  BY <1>2, <1>3

---------------------------------------------------------------------------
(* Who is in, and what the record says of the operation's folder. *)

SignInBuilds == {"build", "add", "rename", "undo", "commit"}

\* The record: at most one folder named, and a lost one names none.
RecordOK ==
  /\ rec.active # Local => rec.kept = None
  /\ ~rec.known => /\ rec.active = Local /\ rec.kept = None
                   /\ ~rec.past /\ rec.erase = {} /\ ~rec.pending
                   /\ \A d \in rec.putback : folder[d] # "there"
  /\ Named(rec) \cap (rec.putback \cup rec.erase) = {}

\* Who is in, at each step of each operation.
CtxOK ==
  /\ phase # "up" => ctx = Local
  /\ job.op \in {"signin", "kept-erase"} => ctx = Local
  /\ job.op = "idle" /\ ctx # Local => rec.known /\ rec.active = ctx
  /\ job.op \in {"signout", "keep"} =>
       IF job.at \in {"hold", "commit"} \cup StageSteps
       THEN ctx = job.dir /\ rec.known /\ rec.active = job.dir
       ELSE rec.active = Local /\ (job.at \notin {"enter", "keys"} => ctx = Local)
  /\ job.op = "signin" =>
       /\ job.at \in {"look", "forget", "erase.folder"} \cup SignInBuilds \cup ImportSteps
            => rec.active = Local
       /\ job.at \in StageSteps => rec.active \in {Local, job.dir}
       /\ job.at = "enter" => rec.known /\ rec.active = job.dir
  /\ job.op = "kept-erase" => rec.active = Local
  /\ job.op = "keep" /\ job.at \in {"keys", "enter"} => rec.known /\ rec.kept = job.dir

\* What the record says of the folder an operation is at.
DirOK ==
  /\ job.at \in StageSteps \cup {"forget"} => job.dir \in Named(rec)
  /\ job.op = "kept-erase" /\ job.at = "commit" => rec.known /\ rec.kept = job.dir
  /\ job.op = "signin" /\ job.at \in SignInBuilds =>
       Named(rec) = {} /\ job.dir \notin rec.putback \cup rec.erase
  /\ job.at \in ImportSteps => job.dir \in rec.erase
  /\ job.at \in {"putback.media", "putback.chats", "putback.drop"} => job.dir \in rec.putback
  /\ job.choice = "putback" /\ (job.at = "erase.folder" \/ (job.at = "enter" /\ job.op = "signout"))
       => job.dir \in rec.putback
  /\ job.at = "boot.erase" => job.todo \subseteq rec.erase
  /\ job.op = "boot" /\ job.at \in ImportSteps => job.todo \subseteq rec.erase \ {job.dir}
  /\ job.at = "boot.putback" => job.todo \subseteq rec.putback
  /\ job.op = "boot" /\ job.at \in PutbackSteps => job.todo \subseteq rec.putback \ {job.dir}

\* Who is in, at each step, is preserved: an operation moves the profile
\* only where the record allows it.
LEMMA CtxStep ==
  ASSUME RecType, RunType, DiskType, JobOK, RecordOK, CtxOK, DirOK, [Next]_vars
  PROVE  CtxOK'
<1> USE RecordHas, AccountsAssumption
        DEF CtxOK, DirOK, RecordOK, JobOK, At, Same, Moves, MovesTo, Starts, Rests, Writes,
            Named, Active, Kept, BootSteps, StageSteps, ImportSteps, PutbackSteps, SignInBuilds
<1>1. CASE \E a \in Accts, add \in SUBSET Chats, e \in BOOLEAN : SignIn(a, add, e)
  BY <1>1, SignInDoes DEF SignIn, Begin, Idle
<1>2. CASE \E c \in Choices : SignOut(c)
  <2>1. PICK c \in Choices : SignOut(c)
    BY <1>2
  <2>2. /\ Starts("signout", "hold", ctx, c, None) /\ rec' = rec
        /\ phase = "up" /\ phase' = phase /\ ctx \in Dirs \ {Local} /\ ctx' = ctx
        /\ job.op = "idle"
    BY <2>1, SignOutDoes, NoJobHas DEF SignOut, Begin, Idle
  <2>3. QED
    BY <2>2
<1>3. CASE \E c \in Choices : KeptErase(c)
  BY <1>3, KeptEraseDoes DEF KeptErase, Begin, Idle
<1>4. CASE \E r \in {"signed-out", "removed", "deleted"} : Keep(r)
  BY <1>4, KeepDoes, NoJobHas DEF Keep, Begin, Idle, Reasons
<1>5. CASE \E c \in Chats : DeleteChat(c)
  BY <1>5 DEF DeleteChat, Idle, run
<1>6. CASE SaveKey
  BY <1>6 DEF SaveKey, Idle, run
<1>7. CASE Quit
  BY <1>7, NoJobHas DEF Quit, Idle, run
<1>8. CASE Hold
  <2>1. /\ job.at = "hold" /\ job.op \in {"signin", "signout", "keep"}
        /\ phase' = phase /\ ctx' = ctx
    BY <1>8 DEF Hold
  <2>2. CASE job.op = "signin"
    BY <1>8, <2>1, <2>2, HoldDoes
  <2>3. CASE job.op # "signin"
    <3>1. rec.known /\ ctx = job.dir /\ rec.active = ctx /\ job.dir \in Dirs
      BY <2>1, <2>3
    <3>2. Writes(TRUE, ctx, rec.kept, rec.reason, rec.past, rec.putback, rec.erase, rec.pending)
      BY <1>8, <3>1, HoldDoes
    <3>3. Moves("stage.units") \/ Moves("commit")
      BY <1>8, <2>3, HoldDoes
    <3>4. QED
      BY <2>1, <2>3, <3>1, <3>2, <3>3
  <2>4. QED
    BY <2>2, <2>3
<1>9. CASE LookUndecided
  BY <1>9, EndDoes DEF LookUndecided
<1>10. CASE LookNone
  BY <1>10, LookNoneDoes DEF LookNone
<1>11. CASE LookSame
  BY <1>11, LookSameDoes DEF LookSame
<1>12. CASE LookOther
  BY <1>12, LookOtherDoes DEF LookOther
<1>13. CASE Forget
  BY <1>13, ForgetDoes DEF Forget
<1>14. CASE Build
  BY <1>14, BuildDoes DEF Build
<1>15. CASE AddBuild
  BY <1>15, AddBuildDoes DEF AddBuild
<1>16. CASE Rename
  BY <1>16, RenameDoes DEF Rename
<1>17. CASE CommitSignIn
  BY <1>17, CommitSignInDoes DEF CommitSignIn
<1>18. CASE CancelSignIn
  BY <1>18, CancelSignInDoes DEF CancelSignIn
<1>19. CASE Undo
  BY <1>19, EndDoes DEF Undo
<1>20. CASE CommitSignOut
  <2>1. /\ job.at = "commit" /\ job.op \in {"signout", "kept-erase"}
        /\ phase' = phase /\ ctx' = ctx
    BY <1>20 DEF CommitSignOut
  <2>2. CASE UNCHANGED <<rec, told>> /\ Rests
    BY <2>1, <2>2
  <2>3. CASE OnlyStaged(job.dir) # {} => job.choice # None
    BY <1>20, <2>1, <2>3, CommitSignOutDoes DEF SignsOut, Answers
  <2>4. QED
    BY <1>20, <2>2, <2>3, CommitSignOutDoes
<1>21. CASE CancelSignOut
  BY <1>21, EndDoes DEF CancelSignOut
<1>22. CASE CommitKeep
  BY <1>22, CommitKeepDoes DEF CommitKeep
<1>23. CASE KeptKeys
  BY <1>23, KeptKeysDoes DEF KeptKeys
<1>24. CASE Enter
  <2>1. job.at = "enter" /\ job.op \in {"signin", "signout", "keep"} /\ phase' = phase
        /\ phase = "up"
    BY <1>24 DEF Enter, RunType
  <2>2. CASE job.op = "signin"
    BY <1>24, <2>1, <2>2, EnterDoes
  <2>3. CASE job.op # "signin"
    BY <1>24, <2>1, <2>3, EnterDoes
  <2>4. QED
    BY <2>2, <2>3
<1>25. CASE EraseFolder
  BY <1>25, EraseFolderDoes DEF EraseFolder
<1>26. CASE ImportErase
  BY <1>26, ImportEraseDoes DEF ImportErase
<1>27. CASE ImportDrop
  BY <1>27, ImportDropDoes DEF ImportDrop
<1>28. CASE StageUnits
  BY <1>28, StageUnitsDoes DEF StageUnits
<1>29. CASE StageChats
  BY <1>29, StageChatsDoes DEF StageChats
<1>30. CASE StageMedia
  BY <1>30, StageMediaDoes DEF StageMedia
<1>31. CASE StageDone
  BY <1>31, StageDoneDoes DEF StageDone
<1>32. CASE PutbackMedia
  BY <1>32, PutbackMediaDoes DEF PutbackMedia
<1>33. CASE PutbackChats
  BY <1>33, PutbackChatsDoes DEF PutbackChats
<1>34. CASE PutbackDrop
  BY <1>34, PutbackDropDoes DEF PutbackDrop
<1>35. CASE PutbackErase
  BY <1>35, PutbackEraseDoes DEF PutbackErase
<1>36. CASE Start
  BY <1>36, StartDoes DEF Start
<1>37. CASE BootActive
  BY <1>37, BootActiveDoes DEF BootActive
<1>38. CASE BootKept
  BY <1>38, BootKeptDoes DEF BootKept
<1>39. CASE BootSweep
  BY <1>39, BootSweepDoes DEF BootSweep
<1>40. CASE BootErase
  BY <1>40, BootEraseDoes DEF BootErase
<1>41. CASE BootImports
  BY <1>41, BootImportsDoes DEF BootImports
<1>42. CASE BootStep6
  BY <1>42, BootStep6Does DEF BootStep6
<1>43. CASE BootPutback
  BY <1>43, BootPutbackDoes DEF BootPutback
<1>44. CASE BootResume
  BY <1>44, BootResumeDoes DEF BootResume
<1>45. CASE FailStep
  <2> DEFINE ends ==
                    /\ job.op # "boot"
                    /\ job.at \in StageSteps =>
                         job.op # "keep" /\ ~(job.op = "signin" /\ rec.active = job.dir)
                    /\ job.at \in {"hold", "look", "forget", "commit"} \cup StageSteps
                                    \cup PutbackSteps \cup ImportSteps
                    /\ Rests
  <2>1. rec' = rec /\ phase' = phase /\ ctx' = ctx /\ phase # "down"
    BY <1>45 DEF FailStep
  <2>2. CASE ends
    <3>1. phase = "up" /\ job.op \in {"signin", "signout", "keep", "kept-erase"}
      BY <2>1, <2>2, NoJobHas, JobHas DEF RunType, Ops
    <3>2. ctx # Local => rec.known /\ rec.active = ctx
      BY <2>2, <3>1
    <3>3. QED
      BY <2>1, <2>2, <3>1, <3>2
  <2>3. CASE ~ends
    BY <1>45, <2>1, <2>3, FailStepDoes
  <2>4. QED
    BY <2>2, <2>3
<1>46. CASE FailBootKeys
  BY <1>46, FailBootKeysDoes DEF FailBootKeys, Refused
<1>47. CASE FailErase
  BY <1>47, FailEraseDoes DEF FailErase, Refused
<1>48. CASE FailSweep
  BY <1>48, FailSweepDoes DEF FailSweep, Refused
<1>49. CASE FailEnter
  <2>1. job.at = "enter" /\ job.op \in {"signin", "signout", "keep"} /\ phase' = phase /\ rec' = rec
        /\ phase = "up"
    BY <1>49 DEF FailEnter, RunType
  <2>2. Rests
    BY <1>49, EndDoes DEF FailEnter
  <2>3. QED
    BY <1>49, <2>1, <2>2, FailEntered
<1>50. CASE FailResume
  BY <1>50, EndDoes DEF FailResume, Refused
<1>51. CASE Crash
  BY <1>51, NoJobHas DEF Crash
<1>52. CASE LoseRecord
  BY <1>52, NoJobHas, LostIs DEF LoseRecord
<1>53. CASE RestoreRecord
  BY <1>53, NoJobHas, LostIs DEF RestoreRecord
<1>54. CASE Expire
  BY <1>54, ExpireDoes DEF Expire, run
<1>55. CASE \E d \in Dirs, o \in {"foreign", "unclear"} : SpoilOwner(d, o)
  BY <1>55 DEF SpoilOwner
<1>56. CASE UNCHANGED vars
  BY <1>56 DEF vars, disk, told, run
<1>57. QED
  BY <1>1, <1>2, <1>3, <1>4, <1>5, <1>6, <1>7, <1>8, <1>9, <1>10, <1>11, <1>12, <1>13, <1>14,
     <1>15, <1>16, <1>17, <1>18, <1>19, <1>20, <1>21, <1>22, <1>23, <1>24, <1>25, <1>26, <1>27,
     <1>28, <1>29, <1>30, <1>31, <1>32, <1>33, <1>34, <1>35, <1>36, <1>37, <1>38, <1>39, <1>40,
     <1>41, <1>42, <1>43, <1>44, <1>45, <1>46, <1>47, <1>48, <1>49, <1>50, <1>51, <1>52, <1>53,
     <1>54, <1>55, <1>56
     DEF Next, Ask, Step, SignInStep, BootStep, Mishap

\* What the record says of the operation's folder is preserved.
LEMMA DirStep ==
  ASSUME RecType, RunType, DiskType, JobOK, RecordOK, CtxOK, DirOK, [Next]_vars
  PROVE  DirOK'
<1> USE RecordHas, AccountsAssumption
        DEF CtxOK, DirOK, RecordOK, JobOK, At, Same, Moves, MovesTo, Starts, Rests, Writes,
            Named, Active, Kept, BootSteps, StageSteps, ImportSteps, PutbackSteps, SignInBuilds
<1>1. CASE \E a \in Accts, add \in SUBSET Chats, e \in BOOLEAN : SignIn(a, add, e)
  BY <1>1, SignInDoes DEF SignIn, Begin, Idle
<1>2. CASE \E c \in Choices : SignOut(c)
  <2>1. PICK c \in Choices : SignOut(c)
    BY <1>2
  <2>2. /\ Starts("signout", "hold", ctx, c, None) /\ rec' = rec
        /\ phase = "up" /\ phase' = phase /\ ctx \in Dirs \ {Local} /\ ctx' = ctx
        /\ job.op = "idle"
    BY <2>1, SignOutDoes, NoJobHas DEF SignOut, Begin, Idle
  <2>3. QED
    BY <2>2
<1>3. CASE \E c \in Choices : KeptErase(c)
  BY <1>3, KeptEraseDoes DEF KeptErase, Begin, Idle
<1>4. CASE \E r \in {"signed-out", "removed", "deleted"} : Keep(r)
  BY <1>4, KeepDoes, NoJobHas DEF Keep, Begin, Idle, Reasons
<1>5. CASE \E c \in Chats : DeleteChat(c)
  BY <1>5 DEF DeleteChat, Idle, run
<1>6. CASE SaveKey
  BY <1>6 DEF SaveKey, Idle, run
<1>7. CASE Quit
  BY <1>7, NoJobHas DEF Quit, Idle, run
<1>8. CASE Hold
  <2>1. /\ job.at = "hold" /\ job.op \in {"signin", "signout", "keep"}
        /\ phase' = phase /\ ctx' = ctx
    BY <1>8 DEF Hold
  <2>2. CASE job.op = "signin"
    BY <1>8, <2>1, <2>2, HoldDoes
  <2>3. CASE job.op # "signin"
    <3>1. rec.known /\ ctx = job.dir /\ rec.active = ctx /\ job.dir \in Dirs
      BY <2>1, <2>3
    <3>2. Writes(TRUE, ctx, rec.kept, rec.reason, rec.past, rec.putback, rec.erase, rec.pending)
      BY <1>8, <3>1, HoldDoes
    <3>3. Moves("stage.units") \/ Moves("commit")
      BY <1>8, <2>3, HoldDoes
    <3>4. QED
      BY <2>1, <2>3, <3>1, <3>2, <3>3
  <2>4. QED
    BY <2>2, <2>3
<1>9. CASE LookUndecided
  BY <1>9, EndDoes DEF LookUndecided
<1>10. CASE LookNone
  BY <1>10, LookNoneDoes DEF LookNone
<1>11. CASE LookSame
  BY <1>11, LookSameDoes DEF LookSame
<1>12. CASE LookOther
  BY <1>12, LookOtherDoes DEF LookOther
<1>13. CASE Forget
  <2>1. job.at = "forget"
    BY <1>13 DEF Forget
  <2>2. QED
    BY <1>13, <2>1, ForgetDoes DEF Answers
<1>14. CASE Build
  BY <1>14, BuildDoes DEF Build
<1>15. CASE AddBuild
  BY <1>15, AddBuildDoes DEF AddBuild
<1>16. CASE Rename
  BY <1>16, RenameDoes DEF Rename
<1>17. CASE CommitSignIn
  BY <1>17, CommitSignInDoes DEF CommitSignIn
<1>18. CASE CancelSignIn
  BY <1>18, CancelSignInDoes DEF CancelSignIn
<1>19. CASE Undo
  BY <1>19, EndDoes DEF Undo
<1>20. CASE CommitSignOut
  <2>1. /\ job.at = "commit" /\ job.op \in {"signout", "kept-erase"}
        /\ phase' = phase /\ ctx' = ctx
    BY <1>20 DEF CommitSignOut
  <2>2. CASE UNCHANGED <<rec, told>> /\ Rests
    BY <2>1, <2>2
  <2>3. CASE OnlyStaged(job.dir) # {} => job.choice # None
    BY <1>20, <2>1, <2>3, CommitSignOutDoes DEF SignsOut, Answers
  <2>4. QED
    BY <1>20, <2>2, <2>3, CommitSignOutDoes
<1>21. CASE CancelSignOut
  BY <1>21, EndDoes DEF CancelSignOut
<1>22. CASE CommitKeep
  BY <1>22, CommitKeepDoes DEF CommitKeep
<1>23. CASE KeptKeys
  BY <1>23, KeptKeysDoes DEF KeptKeys
<1>24. CASE Enter
  BY <1>24, EnterDoes DEF Enter
<1>25. CASE EraseFolder
  BY <1>25, EraseFolderDoes DEF EraseFolder
<1>26. CASE ImportErase
  BY <1>26, ImportEraseDoes DEF ImportErase
<1>27. CASE ImportDrop
  BY <1>27, ImportDropDoes DEF ImportDrop
<1>28. CASE StageUnits
  BY <1>28, StageUnitsDoes DEF StageUnits
<1>29. CASE StageChats
  BY <1>29, StageChatsDoes DEF StageChats
<1>30. CASE StageMedia
  BY <1>30, StageMediaDoes DEF StageMedia
<1>31. CASE StageDone
  BY <1>31, StageDoneDoes DEF StageDone
<1>32. CASE PutbackMedia
  BY <1>32, PutbackMediaDoes DEF PutbackMedia
<1>33. CASE PutbackChats
  BY <1>33, PutbackChatsDoes DEF PutbackChats
<1>34. CASE PutbackDrop
  BY <1>34, PutbackDropDoes DEF PutbackDrop
<1>35. CASE PutbackErase
  BY <1>35, PutbackEraseDoes DEF PutbackErase
<1>36. CASE Start
  BY <1>36, StartDoes DEF Start
<1>37. CASE BootActive
  BY <1>37, BootActiveDoes DEF BootActive
<1>38. CASE BootKept
  BY <1>38, BootKeptDoes DEF BootKept
<1>39. CASE BootSweep
  BY <1>39, BootSweepDoes DEF BootSweep
<1>40. CASE BootErase
  BY <1>40, BootEraseDoes DEF BootErase
<1>41. CASE BootImports
  BY <1>41, BootImportsDoes DEF BootImports
<1>42. CASE BootStep6
  <2>1. job.at = "boot.step6" /\ rec' = rec
    BY <1>42 DEF BootStep6
  <2>2. QED
    BY <1>42, <2>1, BootStep6Does DEF Target
<1>43. CASE BootPutback
  BY <1>43, BootPutbackDoes DEF BootPutback
<1>44. CASE BootResume
  BY <1>44, BootResumeDoes DEF BootResume
<1>45. CASE FailStep
  BY <1>45, FailStepDoes DEF FailStep, Refused
<1>46. CASE FailBootKeys
  BY <1>46, FailBootKeysDoes DEF FailBootKeys, Refused
<1>47. CASE FailErase
  BY <1>47, FailEraseDoes DEF FailErase, Refused
<1>48. CASE FailSweep
  BY <1>48, FailSweepDoes DEF FailSweep, Refused
<1>49. CASE FailEnter
  BY <1>49, EndDoes DEF FailEnter, Refused
<1>50. CASE FailResume
  BY <1>50, EndDoes DEF FailResume, Refused
<1>51. CASE Crash
  BY <1>51, NoJobHas DEF Crash
<1>52. CASE LoseRecord
  BY <1>52, NoJobHas, LostIs DEF LoseRecord
<1>53. CASE RestoreRecord
  BY <1>53, NoJobHas, LostIs DEF RestoreRecord
<1>54. CASE Expire
  BY <1>54, ExpireDoes DEF Expire, run
<1>55. CASE \E d \in Dirs, o \in {"foreign", "unclear"} : SpoilOwner(d, o)
  BY <1>55 DEF SpoilOwner
<1>56. CASE UNCHANGED vars
  BY <1>56 DEF vars, disk, told, run
<1>57. QED
  BY <1>1, <1>2, <1>3, <1>4, <1>5, <1>6, <1>7, <1>8, <1>9, <1>10, <1>11, <1>12, <1>13, <1>14,
     <1>15, <1>16, <1>17, <1>18, <1>19, <1>20, <1>21, <1>22, <1>23, <1>24, <1>25, <1>26, <1>27,
     <1>28, <1>29, <1>30, <1>31, <1>32, <1>33, <1>34, <1>35, <1>36, <1>37, <1>38, <1>39, <1>40,
     <1>41, <1>42, <1>43, <1>44, <1>45, <1>46, <1>47, <1>48, <1>49, <1>50, <1>51, <1>52, <1>53,
     <1>54, <1>55, <1>56
     DEF Next, Ask, Step, SignInStep, BootStep, Mishap

\* The steps that leave every account folder and its .owner and key alone.
Folderless ==
  \/ Ask
  \/ Hold \/ LookUndecided \/ LookNone \/ LookSame \/ LookOther \/ Forget \/ AddBuild
  \/ CommitSignIn \/ CancelSignIn \/ CommitSignOut \/ CancelSignOut \/ CommitKeep
  \/ KeptKeys \/ Enter \/ ImportErase \/ ImportDrop \/ StageUnits \/ StageChats
  \/ StageMedia \/ StageDone \/ PutbackMedia \/ PutbackChats \/ PutbackDrop \/ PutbackErase
  \/ Start \/ BootActive \/ BootKept \/ BootErase \/ BootImports \/ BootStep6
  \/ BootPutback \/ BootResume \/ FailStep \/ FailBootKeys \/ FailEnter \/ FailResume
  \/ LoseRecord \/ RestoreRecord \/ Expire
  \/ UNCHANGED vars

\* They leave the account folders, their keys and owners as they are.
LEMMA FolderlessSame ==
  ASSUME Folderless
  PROVE  UNCHANGED <<folder, owner, key>>
  BY DEF Folderless, Ask, disk, vars, SignIn, Begin, SignOut, KeptErase, Keep, DeleteChat, run,
         SaveKey, Quit, Hold, LookUndecided, LookNone, LookSame, LookOther, Forget, AddBuild,
         CommitSignIn, CancelSignIn, CommitSignOut, CancelSignOut, CommitKeep, KeptKeys, Enter,
         ImportErase, ImportDrop, StageUnits, StageChats, StageMedia, StageDone, PutbackMedia,
         PutbackChats, PutbackDrop, PutbackErase, Start, BootActive, BootKept, BootErase,
         BootImports, BootStep6, BootPutback, BootResume, FailStep, Refused, FailBootKeys,
         FailEnter, FailResume, LoseRecord, RestoreRecord, Expire

\* What the record may name is preserved: no folder twice, none of a lost
\* record, and no folder both named and to be put back or erased.
LEMMA RecordOKStep ==
  ASSUME RecType, RunType, DiskType, JobOK, RecordOK, CtxOK, DirOK, [Next]_vars
  PROVE  RecordOK'
<1>1. CASE Recordless /\ Folderless
  BY <1>1, RecordlessSame, FolderlessSame DEF RecordOK, Named, Active, Kept
<1>2. CASE Hold
  <2>1. folder' = folder
    BY <1>2, FolderlessSame DEF Folderless
  <2>2. ctx # Local => rec.known /\ rec.active = ctx
    BY <1>2 DEF Hold, At, CtxOK, JobOK
  <2>3. QED
    BY <1>2, <2>1, <2>2, HoldDoes, RecordHas, AccountsAssumption
       DEF RecordOK, Writes, Named, Active, Kept
<1>3. CASE LookSame
  <2>1. folder' = folder
    BY <1>3, FolderlessSame DEF Folderless
  <2>2. QED
    BY <1>3, <2>1, LookSameDoes, RecordHas, AccountsAssumption
       DEF RecordOK, Writes, Named, Active, Kept, Target
<1>4. CASE Forget
  <2>1. folder' = folder
    BY <1>4, FolderlessSame DEF Folderless
  <2>2. job.dir \in Dirs /\ job.at = "forget"
    BY <1>4 DEF Forget, JobOK, At, BootSteps
  <2>3. QED
    BY <1>4, <2>1, <2>2, ForgetDoes, RecordHas, AccountsAssumption
       DEF RecordOK, Writes, Named, Active, Kept, DirOK
<1>5. CASE CommitSignIn
  <2>1. folder' = folder
    BY <1>5, FolderlessSame DEF Folderless
  <2>2. job.dir \in Dirs /\ job.at = "commit" /\ job.op = "signin"
    BY <1>5 DEF CommitSignIn, JobOK, At, BootSteps
  <2>3. QED
    BY <1>5, <2>1, <2>2, CommitSignInDoes, RecordHas, AccountsAssumption
       DEF RecordOK, Writes, Named, Active, Kept, DirOK, SignInBuilds
<1>6. CASE CommitSignOut
  <2>1. folder' = folder
    BY <1>6, FolderlessSame DEF Folderless
  <2>2. CASE UNCHANGED <<rec, told>>
    BY <2>1, <2>2 DEF RecordOK, Named, Active, Kept
  <2>3. CASE OnlyStaged(job.dir) # {} => job.choice # None
    <3>1. /\ job.op \in {"signout", "kept-erase"} /\ rec.known
          /\ job.op = "kept-erase" => rec.active = Local
      BY <1>6 DEF CommitSignOut, At, CtxOK, DirOK
    <3>2. QED
      BY <1>6, <2>1, <2>3, <3>1, CommitSignOutDoes, RecordHas, AccountsAssumption
         DEF SignsOut, Writes, RecordOK, Named, Active, Kept
  <2>4. QED
    BY <1>6, <2>2, <2>3, CommitSignOutDoes
<1>7. CASE CommitKeep
  <2>1. folder' = folder
    BY <1>7, FolderlessSame DEF Folderless
  <2>2. job.dir \in Dirs /\ job.at = "commit" /\ job.op = "keep"
    BY <1>7 DEF CommitKeep, JobOK, At, BootSteps
  <2>3. QED
    BY <1>7, <2>1, <2>2, CommitKeepDoes, RecordHas, AccountsAssumption
       DEF RecordOK, Writes, Named, Active, Kept, CtxOK
<1>8. CASE Enter
  <2>1. folder' = folder
    BY <1>8, FolderlessSame DEF Folderless
  <2>2. IF job.op = "signin" THEN rec.known /\ rec.active = job.dir ELSE job.op \in {"signout", "keep"}
    BY <1>8 DEF Enter, At, CtxOK, JobOK
  <2>3. QED
    BY <1>8, <2>1, <2>2, EnterDoes, RecordHas, AccountsAssumption
       DEF RecordOK, Writes, Named, Active, Kept
<1>9. CASE ImportDrop
  <2>1. folder' = folder
    BY <1>9, FolderlessSame DEF Folderless
  <2>2. QED
    BY <1>9, <2>1, ImportDropDoes, RecordHas, AccountsAssumption
       DEF RecordOK, Writes, Named, Active, Kept
<1>10. CASE StageDone
  <2>1. folder' = folder
    BY <1>10, FolderlessSame DEF Folderless
  <2>2. QED
    BY <1>10, <2>1, StageDoneDoes, RecordHas, AccountsAssumption
       DEF RecordOK, Writes, Named, Active, Kept
<1>11. CASE PutbackDrop
  <2>1. folder' = folder
    BY <1>11, FolderlessSame DEF Folderless
  <2>2. QED
    BY <1>11, <2>1, PutbackDropDoes, RecordHas, AccountsAssumption
       DEF RecordOK, Writes, Named, Active, Kept
<1>12. CASE BootActive
  <2>1. folder' = folder
    BY <1>12, FolderlessSame DEF Folderless
  <2>2. QED
    BY <1>12, <2>1, BootActiveDoes, RecordHas, AccountsAssumption
       DEF RecordOK, Writes, Named, Active, Kept
<1>13. CASE BootKept
  <2>1. folder' = folder
    BY <1>13, FolderlessSame DEF Folderless
  <2>2. QED
    BY <1>13, <2>1, BootKeptDoes, RecordHas, AccountsAssumption
       DEF RecordOK, Writes, Named, Active, Kept
<1>14. CASE BootImports
  <2>1. folder' = folder
    BY <1>14, FolderlessSame DEF Folderless
  <2>2. QED
    BY <1>14, <2>1, BootImportsDoes, RecordHas, AccountsAssumption
       DEF RecordOK, Writes, Named, Active, Kept, Orphans
<1>15. CASE BootResume
  <2>1. folder' = folder
    BY <1>15, FolderlessSame DEF Folderless
  <2>2. QED
    BY <1>15, <2>1, BootResumeDoes, RecordHas, AccountsAssumption
       DEF RecordOK, Writes, Named, Active, Kept
<1>16. CASE LoseRecord
  <2>1. folder' = folder
    BY <1>16, FolderlessSame DEF Folderless
  <2>2. QED
    BY <1>16, <2>1, LostIs DEF RecordOK, Writes, Named, Active, Kept, LoseRecord
<1>17. CASE RestoreRecord
  <2>1. folder' = folder
    BY <1>17, FolderlessSame DEF Folderless
  <2>2. QED
    BY <1>17, <2>1, LostIs DEF RecordOK, Writes, Named, Active, Kept, RestoreRecord
<1>18. CASE Expire
  <2>1. folder' = folder
    BY <1>18, FolderlessSame DEF Folderless
  <2>2. QED
    BY <1>18, <2>1, ExpireDoes, RecordHas, AccountsAssumption
       DEF RecordOK, Writes, Named, Active, Kept, RecType, Reasons
<1>19. CASE Build
  BY <1>19, RecordlessSame
     DEF Recordless, Build, DiskType, JobOK, RecordOK, Writes, Named, Active, Kept
<1>20. CASE Rename
  <2>1. rec' = rec /\ job.dir \notin rec.putback
    BY <1>20, RecordlessSame DEF Recordless, Rename, At, JobOK, DirOK, SignInBuilds
  <2>2. QED
    BY <1>20, <2>1, RecordHas DEF Rename, DiskType, RecordOK, Named, Active, Kept
<1>21. CASE Undo
  <2>1. rec' = rec /\ job.dir \in Dirs
    BY <1>21, RecordlessSame DEF Recordless, Undo, At, JobOK, BootSteps
  <2>2. QED
    BY <1>21, <2>1, GoneDoes, RecordHas DEF Undo, RecordOK, Named, Active, Kept
<1>22. CASE EraseFolder
  <2>1. rec' = rec /\ job.dir \in Dirs
    BY <1>22, RecordlessSame DEF Recordless, EraseFolder, At, JobOK, BootSteps
  <2>2. QED
    BY <1>22, <2>1, GoneDoes, RecordHas DEF EraseFolder, RecordOK, Named, Active, Kept
<1>23. CASE BootSweep
  <2>1. rec' = rec
    BY <1>23, RecordlessSame DEF Recordless
  <2>2. QED
    BY <1>23, <2>1, BootSweepDoes, GoneDoes, RecordHas, JobHas
       DEF BootSweep, disk, RecordOK, Named, Active, Kept
<1>24. CASE FailErase
  BY <1>24, RecordlessSame DEF Recordless, FailErase, Refused, RecordOK, Named, Active, Kept
<1>25. CASE FailSweep
  BY <1>25, RecordlessSame DEF Recordless, FailSweep, Refused, RecordOK, Named, Active, Kept
<1>26. CASE Crash
  BY <1>26, RecordlessSame DEF Recordless, Crash, RecordOK, Named, Active, Kept
<1>27. CASE \E d \in Dirs, o \in {"foreign", "unclear"} : SpoilOwner(d, o)
  BY <1>27, RecordlessSame DEF Recordless, SpoilOwner, RecordOK, Named, Active, Kept
<1>28. QED
  BY <1>1, <1>2, <1>3, <1>4, <1>5, <1>6, <1>7, <1>8, <1>9, <1>10, <1>11, <1>12, <1>13, <1>14,
     <1>15, <1>16, <1>17, <1>18, <1>19, <1>20, <1>21, <1>22, <1>23, <1>24, <1>25, <1>26, <1>27
     DEF Next, Ask, Step, SignInStep, BootStep, Mishap, Recordless, Folderless

---------------------------------------------------------------------------
(* Chats and pictures: in root, staged, deleted, lent. *)

\* The steps that move no chat and no picture.
Unitless ==
  \/ \E a \in Accts, add \in SUBSET Chats, e \in BOOLEAN : SignIn(a, add, e)
  \/ \E c \in Choices : SignOut(c) \/ KeptErase(c)
  \/ \E r \in {"signed-out", "removed", "deleted"} : Keep(r)
  \/ SaveKey \/ Quit
  \/ \E d \in Dirs, o \in {"foreign", "unclear"} : SpoilOwner(d, o)
  \/ Hold \/ LookUndecided \/ LookNone \/ LookSame \/ LookOther \/ Forget \/ Build
  \/ AddBuild \/ Rename \/ CommitSignIn \/ CancelSignIn \/ Undo \/ CommitSignOut
  \/ CancelSignOut \/ CommitKeep \/ KeptKeys \/ Enter \/ EraseFolder \/ ImportDrop
  \/ StageDone \/ PutbackDrop \/ Start \/ BootActive \/ BootKept \/ BootSweep \/ BootErase
  \/ BootImports \/ BootStep6 \/ BootPutback \/ BootResume \/ FailStep \/ FailBootKeys
  \/ FailErase \/ FailSweep \/ FailEnter \/ FailResume \/ Crash \/ LoseRecord
  \/ RestoreRecord \/ Expire
  \/ UNCHANGED vars

\* They leave the units and the media as they are.
LEMMA UnitlessSame ==
  ASSUME Unitless
  PROVE  UNCHANGED <<staged, stagedMedia, chats, media>>
  BY DEF Unitless, disk, vars, SignIn, Begin, SignOut, KeptErase, Keep, SaveKey, run, Quit,
         Hold, LookUndecided, LookNone, LookSame, LookOther, Forget, Build, AddBuild, Rename,
         CommitSignIn, CancelSignIn, Undo, Gone, CommitSignOut, CancelSignOut, CommitKeep,
         KeptKeys, Enter, EraseFolder, ImportDrop, StageDone, PutbackDrop, Start, BootActive,
         BootKept, BootSweep, BootErase, BootImports, BootStep6, BootPutback, BootResume,
         FailStep, Refused, FailBootKeys, FailErase, FailSweep, FailEnter, FailResume, Crash,
         LoseRecord, RestoreRecord, Expire, SpoilOwner

\* Only these steps change the list of imports to erase.
LEMMA EraseList ==
  ASSUME RecType, RunType, JobOK, RecordOK, [Next]_vars
  PROVE  \/ Forget \/ CommitSignOut \/ ImportDrop \/ LoseRecord \/ RestoreRecord
         \/ rec'.erase = rec.erase
<1>1. CASE Recordless
  BY <1>1, RecordlessSame
<1>2. CASE Hold
  BY <1>2, HoldDoes, RecordHas DEF Writes
<1>3. CASE LookSame
  BY <1>3, LookSameDoes, RecordHas DEF Writes
<1>4. CASE CommitSignIn
  BY <1>4, CommitSignInDoes, RecordHas DEF Writes
<1>5. CASE CommitKeep
  BY <1>5, CommitKeepDoes, RecordHas DEF Writes
<1>6. CASE Enter
  BY <1>6, EnterDoes, RecordHas DEF Writes
<1>7. CASE StageDone
  BY <1>7, StageDoneDoes, RecordHas DEF Writes
<1>8. CASE PutbackDrop
  BY <1>8, PutbackDropDoes, RecordHas DEF Writes
<1>9. CASE BootActive
  BY <1>9, BootActiveDoes, RecordHas, AccountsAssumption
     DEF Writes, RecordOK, Named, Active, Kept
<1>10. CASE BootKept
  BY <1>10, BootKeptDoes, RecordHas, AccountsAssumption
     DEF Writes, RecordOK, Named, Active, Kept
<1>11. CASE BootImports
  BY <1>11, BootImportsDoes, RecordHas DEF Writes, Orphans
<1>12. CASE BootResume
  BY <1>12, BootResumeDoes, RecordHas DEF Writes
<1>13. CASE Expire
  BY <1>13, ExpireDoes, RecordHas DEF Writes
<1>14. QED
  BY <1>1, <1>2, <1>3, <1>4, <1>5, <1>6, <1>7, <1>8, <1>9, <1>10, <1>11, <1>12, <1>13
     DEF Next, Ask, Step, SignInStep, BootStep, Mishap, Recordless

\* What was deleted or erased changes only on a person's word, or with a
\* record that is lost.
LEMMA Wanted ==
  ASSUME [Next]_vars
  PROVE  \/ (\E c \in Chats : DeleteChat(c)) \/ Forget \/ CommitSignOut \/ LoseRecord \/ RestoreRecord
         \/ unwanted' = unwanted /\ copied' = copied
<1>1. CASE Undeciding
  BY <1>1, UndecidingSame
<1>2. CASE CommitSignIn \/ StageMedia \/ BootActive \/ BootKept
           \/ \E d \in Dirs, o \in {"foreign", "unclear"} : SpoilOwner(d, o)
  BY <1>2 DEF CommitSignIn, StageMedia, BootActive, BootKept, SpoilOwner
<1>3. QED
  BY <1>1, <1>2 DEF Next, Ask, Step, SignInStep, BootStep, Mishap, Undeciding

\* Only a stage lends a picture, and no step takes a loan back.
LEMMA Lent ==
  ASSUME [Next]_vars
  PROVE  StageMedia \/ borrowed' = borrowed
<1>1. CASE Undeciding
  BY <1>1, UndecidingSame
<1>2. CASE \/ \E c \in Chats : DeleteChat(c)
           \/ Forget \/ CommitSignIn \/ CommitSignOut \/ BootActive \/ BootKept
           \/ LoseRecord \/ RestoreRecord
           \/ \E d \in Dirs, o \in {"foreign", "unclear"} : SpoilOwner(d, o)
  BY <1>2
     DEF DeleteChat, Forget, CommitSignIn, CommitSignOut, BootActive, BootKept, LoseRecord,
         RestoreRecord, SpoilOwner, Unwant, told
<1>3. QED
  BY <1>1, <1>2 DEF Next, Ask, Step, SignInStep, BootStep, Mishap, Undeciding

\* The steps after which units are about to go, or an imports/ to be dropped.
LEMMA Arrives ==
  ASSUME RecType, RunType, JobOK, [Next]_vars
  PROVE  \/ UNCHANGED vars
         \/ StageUnits \/ PutbackMedia \/ PutbackChats \/ PutbackDrop \/ ImportErase
         \/ job'.at \notin {"stage.chats", "putback.chats", "putback.drop", "putback.erase",
                          "import.drop"}
<1>1. CASE \E a \in Accts, add \in SUBSET Chats, e \in BOOLEAN : SignIn(a, add, e)
  BY <1>1, SignInDoes DEF Moves, MovesTo, Starts, Rests
<1>2. CASE \E c \in Choices : SignOut(c)
  BY <1>2, SignOutDoes DEF Moves, MovesTo, Starts, Rests
<1>3. CASE \E c \in Choices : KeptErase(c)
  BY <1>3, KeptEraseDoes DEF Moves, MovesTo, Starts, Rests
<1>4. CASE \E r \in {"signed-out", "removed", "deleted"} : Keep(r)
  BY <1>4, KeepDoes DEF Starts, Reasons
<1>5. CASE \E c \in Chats : DeleteChat(c)
  BY <1>5, NoJobHas DEF DeleteChat, Idle, run, JobOK
<1>6. CASE SaveKey
  BY <1>6, NoJobHas DEF SaveKey, Idle, run, JobOK
<1>7. CASE Quit
  BY <1>7, NoJobHas DEF Quit, Idle, run
<1>8. CASE Hold
  BY <1>8, HoldDoes DEF Moves, MovesTo, Starts, Rests
<1>9. CASE LookUndecided
  BY <1>9, EndDoes DEF LookUndecided, Rests, Starts
<1>10. CASE LookNone
  BY <1>10, LookNoneDoes DEF Moves, MovesTo, Starts, Rests
<1>11. CASE LookSame
  BY <1>11, LookSameDoes DEF Moves, MovesTo, Starts, Rests
<1>12. CASE LookOther
  BY <1>12, LookOtherDoes DEF Moves, MovesTo, Starts, Rests
<1>13. CASE Forget
  BY <1>13, ForgetDoes DEF Moves, MovesTo, Starts, Rests
<1>14. CASE Build
  BY <1>14, BuildDoes DEF Moves, MovesTo, Starts, Rests
<1>15. CASE AddBuild
  BY <1>15, AddBuildDoes DEF Moves, MovesTo, Starts, Rests
<1>16. CASE Rename
  BY <1>16, RenameDoes DEF Moves, MovesTo, Starts, Rests
<1>17. CASE CommitSignIn
  BY <1>17, CommitSignInDoes DEF Moves, MovesTo, Starts, Rests
<1>18. CASE CancelSignIn
  BY <1>18, CancelSignInDoes DEF Moves, MovesTo, Starts, Rests
<1>19. CASE Undo
  BY <1>19, EndDoes DEF Undo, Rests, Starts
<1>20. CASE CommitSignOut
  BY <1>20, CommitSignOutDoes DEF Moves, MovesTo, Starts, Rests
<1>21. CASE CancelSignOut
  BY <1>21, EndDoes DEF CancelSignOut, Rests, Starts
<1>22. CASE CommitKeep
  BY <1>22, CommitKeepDoes DEF Moves, MovesTo, Starts, Rests
<1>23. CASE KeptKeys
  BY <1>23, KeptKeysDoes DEF Moves, MovesTo, Starts, Rests
<1>24. CASE Enter
  BY <1>24, EnterDoes DEF Moves, MovesTo, Starts, Rests
<1>25. CASE EraseFolder
  BY <1>25, EraseFolderDoes DEF Moves, MovesTo, Starts, Rests
<1>26. CASE ImportErase
  BY <1>26, ImportEraseDoes DEF ImportErase, At
<1>27. CASE ImportDrop
  BY <1>27, ImportDropDoes DEF Moves, MovesTo, Starts, Rests
<1>28. CASE StageUnits
  BY <1>28, StageUnitsDoes DEF StageUnits, At
<1>29. CASE StageChats
  BY <1>29, StageChatsDoes DEF Moves, MovesTo, Starts, Rests
<1>30. CASE StageMedia
  BY <1>30, StageMediaDoes DEF StageMedia, At, Moves, MovesTo
<1>31. CASE StageDone
  BY <1>31, StageDoneDoes DEF Moves, MovesTo, Starts, Rests
<1>32. CASE PutbackMedia
  BY <1>32, PutbackMediaDoes DEF PutbackMedia, At
<1>33. CASE PutbackChats
  BY <1>33, PutbackChatsDoes DEF PutbackChats, At
<1>34. CASE PutbackDrop
  BY <1>34, PutbackDropDoes DEF PutbackDrop, At
<1>35. CASE PutbackErase
  BY <1>35, PutbackEraseDoes DEF Moves, MovesTo, Starts, Rests
<1>36. CASE Start
  BY <1>36, StartDoes DEF Moves, MovesTo, Starts, Rests
<1>37. CASE BootActive
  BY <1>37, BootActiveDoes DEF Moves, MovesTo, Starts, Rests
<1>38. CASE BootKept
  BY <1>38, BootKeptDoes DEF Moves, MovesTo, Starts, Rests
<1>39. CASE BootSweep
  BY <1>39, BootSweepDoes DEF Moves, MovesTo, Starts, Rests
<1>40. CASE BootErase
  BY <1>40, BootEraseDoes DEF Moves, MovesTo, Starts, Rests
<1>41. CASE BootImports
  BY <1>41, BootImportsDoes DEF Moves, MovesTo, Starts, Rests
<1>42. CASE BootStep6
  BY <1>42, BootStep6Does DEF MovesTo
<1>43. CASE BootPutback
  BY <1>43, BootPutbackDoes DEF Moves, MovesTo, Starts, Rests
<1>44. CASE BootResume
  BY <1>44, BootResumeDoes DEF Moves, MovesTo, Starts, Rests
<1>45. CASE FailStep
  BY <1>45, FailStepDoes DEF Moves, MovesTo, Starts, Rests
<1>46. CASE FailBootKeys
  BY <1>46, FailBootKeysDoes DEF Moves, MovesTo, Starts, Rests
<1>47. CASE FailErase
  BY <1>47, FailEraseDoes DEF Moves, MovesTo, Starts, Rests
<1>48. CASE FailSweep
  BY <1>48, FailSweepDoes DEF Moves, MovesTo, Starts, Rests
<1>49. CASE FailEnter
  BY <1>49, EndDoes DEF FailEnter, Rests, Starts
<1>50. CASE FailResume
  BY <1>50, EndDoes DEF FailResume, Rests, Starts
<1>51. CASE Crash
  BY <1>51, NoJobHas DEF Crash
<1>52. CASE LoseRecord
  BY <1>52, NoJobHas DEF LoseRecord, JobOK
<1>53. CASE RestoreRecord
  BY <1>53, NoJobHas DEF RestoreRecord, JobOK
<1>54. CASE Expire
  BY <1>54, NoJobHas DEF Expire, run, JobOK
<1>55. CASE \E d \in Dirs, o \in {"foreign", "unclear"} : SpoilOwner(d, o)
  BY <1>55, NoJobHas DEF SpoilOwner, JobOK
<1>56. CASE UNCHANGED vars
  BY <1>56 DEF vars, disk, told, run
<1>57. QED
  BY <1>1, <1>2, <1>3, <1>4, <1>5, <1>6, <1>7, <1>8, <1>9, <1>10, <1>11, <1>12, <1>13, <1>14,
     <1>15, <1>16, <1>17, <1>18, <1>19, <1>20, <1>21, <1>22, <1>23, <1>24, <1>25, <1>26, <1>27,
     <1>28, <1>29, <1>30, <1>31, <1>32, <1>33, <1>34, <1>35, <1>36, <1>37, <1>38, <1>39, <1>40,
     <1>41, <1>42, <1>43, <1>44, <1>45, <1>46, <1>47, <1>48, <1>49, <1>50, <1>51, <1>52, <1>53,
     <1>54, <1>55, <1>56
     DEF Next, Ask, Step, SignInStep, BootStep, Mishap

\* A chat is in root, or unwanted, or staged in an imports/ not to be erased;
\* root's originals go only when they are staged, and an imports/ only when
\* its chats are back.
UnitsOK ==
  /\ \A c \in Chats :
       c \in chats \/ c \in unwanted \/ \E d \in Dirs \ rec.erase : c \in staged[d]
  /\ job.at = "stage.chats" => man[job.dir].chats \cap chats \subseteq staged[job.dir]
  /\ job.at \in {"putback.drop", "putback.erase"} => staged[job.dir] \subseteq chats

\* Of an unwanted chat, only a copy noted as such waits anywhere.
AwayOK ==
  /\ unwanted \cap chats \subseteq copied
  /\ \A d \in Dirs \ rec.erase : staged[d] \cap unwanted \subseteq copied
  /\ job.at = "import.drop" => staged[job.dir] = {}

\* A staged chat's pictures are in root, with it, or borrowed.
MediaOK ==
  /\ \A c \in chats : Shows[c] \subseteq media \cup borrowed
  /\ \A d \in Dirs : \A c \in staged[d] : Shows[c] \subseteq media \cup stagedMedia[d] \cup borrowed
  /\ job.at = "putback.chats" => \A c \in staged[job.dir] : Shows[c] \subseteq media \cup borrowed

\* What a step can put in reach, or take away, of the units.
Unmoved == UNCHANGED <<staged, stagedMedia, chats, media>>

\* Forget notes the units it takes, and which of them another imports/ holds.
LEMMA ForgetUnits ==
  ASSUME RecType, RunType, DiskType, JobOK, DirOK, Forget
  PROVE  /\ job.dir \in Dirs /\ Unmoved
         /\ rec'.erase = IF staged[job.dir] # {} THEN rec.erase \cup {job.dir} ELSE rec.erase
         /\ unwanted' = unwanted \cup (staged[job.dir] \ chats)
         /\ copied' = copied \cup ((staged[job.dir] \ chats)
                                     \cap UNION {staged[e] : e \in Dirs \ {job.dir}})
         /\ job'.at = "erase.folder"
<1>1. job.dir \in Dirs
  BY DEF Forget, JobOK, At, BootSteps
<1>2. Unmoved
  BY UnitlessSame DEF Unitless, Unmoved
<1>3. QED
  BY <1>1, <1>2, ForgetDoes DEF Forget, Unwant, OnlyStaged, Writes, Moves, MovesTo

\* And so an answer at sign-out that does not put them back.
LEMMA CommitSignOutUnits ==
  ASSUME RecType, RunType, DiskType, JobOK, RecordOK, CtxOK, DirOK, CommitSignOut
  PROVE  /\ Unmoved /\ job.dir \in Dirs
         /\ job'.at \in {"idle", "enter", "erase.folder"}
         /\ \/ rec'.erase = rec.erase /\ UNCHANGED <<unwanted, copied>>
            \/ /\ rec'.erase = rec.erase \cup {job.dir}
               /\ unwanted' = unwanted \cup (staged[job.dir] \ chats)
               /\ copied' = copied \cup ((staged[job.dir] \ chats)
                                     \cap UNION {staged[e] : e \in Dirs \ {job.dir}})
<1>1. job.dir \in Dirs /\ job.dir \in Named(rec) /\ job.dir \notin rec.erase
  <2>1. job.at = "commit" /\ job.op \in {"signout", "kept-erase"} /\ job.dir \in Dirs
    BY DEF CommitSignOut, JobOK, At, BootSteps
  <2>2. job.dir \in Named(rec)
    BY <2>1, RecordHas, AccountsAssumption DEF CtxOK, DirOK, Named, Active, Kept
  <2>3. QED
    BY <2>1, <2>2 DEF RecordOK
<1>2. Unmoved
  BY UnitlessSame DEF Unitless, Unmoved
<1>3. CASE UNCHANGED <<rec, told>> /\ Rests
  BY <1>1, <1>2, <1>3 DEF told, Rests, Starts
<1>4. CASE /\ OnlyStaged(job.dir) # {} => job.choice # None
           /\ Moves(IF job.op = "signout" THEN "enter" ELSE "erase.folder")
           /\ Unwant(IF job.choice = "putback" THEN {} ELSE OnlyStaged(job.dir), job.dir)
  <2>1. job'.at \in {"enter", "erase.folder"}
    BY <1>4 DEF Moves, MovesTo
  <2>2. CASE job.choice = "putback"
    <3>1. rec'.erase = rec.erase \ {job.dir}
      BY <1>1, <2>2, CommitSignOutDoes, AccountsAssumption DEF SignsOut, Writes, Answers
    <3>2. UNCHANGED <<unwanted, copied>>
      BY <1>4, <2>2 DEF Unwant
    <3>3. QED
      BY <1>1, <1>2, <2>1, <2>2, <3>1, <3>2
  <2>3. CASE job.choice # "putback"
    <3>1. /\ unwanted' = unwanted \cup (staged[job.dir] \ chats)
          /\ copied' = copied \cup ((staged[job.dir] \ chats)
                                     \cap UNION {staged[e] : e \in Dirs \ {job.dir}})
      BY <1>4, <2>3 DEF Unwant, OnlyStaged
    <3>2. CASE SignsOut(rec.putback \ {job.dir}, rec.erase \cup {job.dir})
      BY <1>1, <1>2, <2>1, <3>1, <3>2 DEF SignsOut, Writes
    <3>3. CASE /\ SignsOut(rec.putback, rec.erase)
               /\ staged[job.dir] = {} \/ (job.choice = None /\ job.op = "signout")
      <4>1. staged[job.dir] \ chats = {}
        BY <1>4, <3>3 DEF OnlyStaged
      <4>2. UNCHANGED <<unwanted, copied>>
        BY <3>1, <4>1
      <4>3. rec'.erase = rec.erase
        BY <3>3 DEF SignsOut, Writes
      <4>4. QED
        BY <1>1, <1>2, <2>1, <3>3, <4>1, <4>2, <4>3
    <3>4. QED
      BY <2>3, <3>2, <3>3, CommitSignOutDoes, <1>4, <1>1, <1>2, <2>1, <3>1 DEF told
  <2>4. QED
    BY <2>2, <2>3
<1>5. QED
  BY <1>3, <1>4, CommitSignOutDoes

\* No step loses the last place a chat is in, unless a person deleted or
\* erased it.
LEMMA UnitsStep ==
  ASSUME RecType, RunType, DiskType, ToldType, JobOK, RecordOK, CtxOK, DirOK, UnitsOK,
         [Next]_vars
  PROVE  UnitsOK'
<1>1. /\ RecType' /\ DiskType' /\ ToldType'
  BY RecordStep, DiskStep, ToldStep
<1> DEFINE Found(c) == c \in chats \/ c \in unwanted \/ \E d \in Dirs \ rec.erase : c \in staged[d]
<1>2. \A c \in Chats : Found(c)
  BY DEF UnitsOK
<1>3. ASSUME NEW c \in Chats
      PROVE  Found(c)'
  <2>1. Found(c)
    BY <1>2
  <2>2. CASE Unitless /\ rec'.erase = rec.erase /\ unwanted' = unwanted
    BY <2>1, <2>2, UnitlessSame
  <2>3. CASE \E x \in Chats : DeleteChat(x)
    BY <2>1, <2>3 DEF DeleteChat, Unwant
  <2>4. CASE Forget
    BY <2>1, <2>4, ForgetUnits DEF Unmoved
  <2>5. CASE CommitSignOut
    BY <2>1, <2>5, CommitSignOutUnits DEF Unmoved
  <2>6. CASE LoseRecord \/ RestoreRecord
    BY <2>1, <2>6, LostIs, UnitlessSame DEF LoseRecord, RestoreRecord, Forgotten, Unitless
  <2>7. CASE ImportDrop
    <3>1. rec'.erase \subseteq rec.erase
      BY <2>7, ImportDropDoes DEF Writes
    <3>2. UNCHANGED <<staged, chats, unwanted>>
      BY <2>7 DEF ImportDrop, disk, told
    <3>3. QED
      BY <2>1, <3>1, <3>2
  <2>8. CASE ImportErase
    <3>1. job.dir \in rec.erase
      BY <2>8 DEF ImportErase, At, DirOK, ImportSteps
    <3>2. QED
      BY <2>1, <2>8, <3>1 DEF ImportErase, DiskType, told
  <2>9. CASE StageUnits
    BY <2>1, <2>9 DEF StageUnits, DiskType, told
  <2>10. CASE StageChats
    <3>1. /\ job.dir \in Dirs /\ job.dir \notin rec.erase
          /\ man[job.dir].chats \cap chats \subseteq staged[job.dir]
      BY <2>10, RecordHas DEF StageChats, At, UnitsOK, DirOK, StageSteps, RecordOK
    <3>2. QED
      BY <2>1, <2>10, <3>1 DEF StageChats, told
  <2>11. CASE StageMedia \/ PutbackMedia
    BY <2>1, <2>11 DEF StageMedia, PutbackMedia, told
  <2>12. CASE PutbackChats
    BY <2>1, <2>12 DEF PutbackChats, told
  <2>13. CASE PutbackErase
    <3>1. job.dir \in Dirs /\ staged[job.dir] \subseteq chats
      BY <2>13 DEF PutbackErase, At, UnitsOK, JobOK, BootSteps
    <3>2. QED
      BY <2>1, <2>13, <3>1 DEF PutbackErase, DiskType, told
  <2>14. QED
    BY <2>2, <2>3, <2>4, <2>5, <2>6, <2>7, <2>8, <2>9, <2>10, <2>11, <2>12, <2>13, EraseList,
       Wanted
       DEF Next, Ask, Step, SignInStep, BootStep, Mishap, Unitless
<1>4. /\ job'.at = "stage.chats" => man'[job'.dir].chats \cap chats' \subseteq staged'[job'.dir]
      /\ job'.at \in {"putback.drop", "putback.erase"} => staged'[job'.dir] \subseteq chats'
  <2>1. CASE UNCHANGED vars
    BY <2>1 DEF vars, disk, run, UnitsOK
  <2>2. CASE StageUnits
    <3>1. job.dir \in Dirs
      BY <2>2 DEF StageUnits, At, JobOK, BootSteps
    <3>2. QED
      BY <2>2, <3>1, StageUnitsDoes DEF StageUnits, Moves, MovesTo, DiskType
  <2>3. CASE PutbackMedia
    <3>1. job'.at \in {"putback.media", "putback.chats"}
      BY <2>3, PutbackMediaDoes DEF PutbackMedia, At, Moves, MovesTo
    <3>2. QED
      BY <3>1
  <2>4. CASE PutbackChats
    <3>1. job'.at = "putback.drop" /\ job'.dir = job.dir
      BY <2>4, PutbackChatsDoes DEF Moves, MovesTo
    <3>2. QED
      BY <2>4, <3>1 DEF PutbackChats
  <2>5. CASE PutbackDrop
    <3>1. job'.at = "putback.erase" /\ job'.dir = job.dir /\ job.at = "putback.drop"
      BY <2>5, PutbackDropDoes DEF PutbackDrop, At, Moves, MovesTo
    <3>2. QED
      BY <2>5, <3>1 DEF PutbackDrop, UnitsOK, disk
  <2>6. CASE ImportErase
    BY <2>6, ImportEraseDoes DEF Moves, MovesTo
  <2>7. QED
    BY <2>1, <2>2, <2>3, <2>4, <2>5, <2>6, Arrives
<1>5. QED
  BY <1>3, <1>4 DEF UnitsOK

\* No step brings a deleted or erased chat back, but from a copy that was noted.
LEMMA AwayStep ==
  ASSUME RecType, RunType, DiskType, ToldType, JobOK, RecordOK, CtxOK, DirOK, AwayOK,
         [Next]_vars
  PROVE  AwayOK'
<1>1. /\ unwanted' \cap chats' \subseteq copied'
      /\ \A d \in Dirs \ rec'.erase : staged'[d] \cap unwanted' \subseteq copied'
  <2> USE DEF AwayOK
  <2>2. CASE Unitless /\ rec'.erase = rec.erase /\ unwanted' = unwanted /\ copied' = copied
    BY <2>2, UnitlessSame
  <2>3. CASE \E x \in Chats : DeleteChat(x)
    <3>1. PICK x \in Chats : DeleteChat(x)
      BY <2>3
    <3>2. None \notin Dirs
      BY AccountsAssumption
    <3>3. copied' = copied \cup ({x} \cap UNION {staged[e] : e \in Dirs})
      BY <3>1, <3>2 DEF DeleteChat, Unwant
    <3>4. QED
      BY <3>1, <3>3 DEF DeleteChat, Unwant
  <2>4. CASE Forget
    BY <2>4, ForgetUnits DEF Unmoved
  <2>5. CASE CommitSignOut
    BY <2>5, CommitSignOutUnits DEF Unmoved
  <2>6. CASE LoseRecord \/ RestoreRecord
    BY <2>6, LostIs, UnitlessSame DEF LoseRecord, RestoreRecord, Forgotten, Unitless
  <2>7. CASE ImportDrop
    <3>1. rec'.erase = rec.erase \ {job.dir} /\ staged[job.dir] = {}
      BY <2>7, ImportDropDoes DEF ImportDrop, At, Writes
    <3>2. UNCHANGED <<staged, chats, unwanted, copied>>
      BY <2>7 DEF ImportDrop, disk, told
    <3>3. QED
      BY <3>1, <3>2
  <2>8. CASE ImportErase \/ PutbackErase
    BY <2>8 DEF ImportErase, PutbackErase, DiskType, told
  <2>9. CASE StageUnits
    BY <2>9 DEF StageUnits, DiskType, told
  <2>10. CASE StageChats
    BY <2>10 DEF StageChats, told
  <2>11. CASE StageMedia \/ PutbackMedia
    BY <2>11 DEF StageMedia, PutbackMedia, told
  <2>12. CASE PutbackChats
    <3>1. job.dir \in Dirs /\ job.dir \notin rec.erase
      BY <2>12, RecordHas DEF PutbackChats, At, DirOK, RecType
    <3>2. QED
      BY <2>12, <3>1 DEF PutbackChats, told
  <2>14. QED
    BY <2>2, <2>3, <2>4, <2>5, <2>6, <2>7, <2>8, <2>9, <2>10, <2>11, <2>12, EraseList, Wanted
       DEF Next, Ask, Step, SignInStep, BootStep, Mishap, Unitless
<1>2. job'.at = "import.drop" => staged'[job'.dir] = {}
  <2>1. CASE UNCHANGED vars
    BY <2>1 DEF vars, disk, run, AwayOK
  <2>2. CASE ImportErase
    <3>1. job.dir \in Dirs
      BY <2>2 DEF ImportErase, At, JobOK, BootSteps
    <3>2. QED
      BY <2>2, <3>1, ImportEraseDoes DEF ImportErase, Moves, MovesTo, DiskType
  <2>3. CASE StageUnits \/ PutbackMedia \/ PutbackChats \/ PutbackDrop
    <3>1. job'.at # "import.drop"
      BY <2>3, StageUnitsDoes, PutbackMediaDoes, PutbackChatsDoes, PutbackDropDoes
         DEF PutbackMedia, At, Moves, MovesTo
    <3>2. QED
      BY <3>1
  <2>4. QED
    BY <2>1, <2>2, <2>3, Arrives
<1>3. QED
  BY <1>1, <1>2 DEF AwayOK

\* No step parts a chat from its pictures, in root or in imports/.
LEMMA MediaStep ==
  ASSUME RecType, RunType, DiskType, ToldType, JobOK, MediaOK, [Next]_vars
  PROVE  MediaOK'
<1>1. /\ \A c \in chats' : Shows[c] \subseteq media' \cup borrowed'
      /\ \A d \in Dirs : \A c \in staged'[d] :
           Shows[c] \subseteq media' \cup stagedMedia'[d] \cup borrowed'
  <2>1. CASE Unitless /\ borrowed' = borrowed
    BY <2>1, UnitlessSame DEF MediaOK
  <2>2. CASE \E c \in Chats : DeleteChat(c)
    BY <2>2 DEF DeleteChat, Unwant, MediaOK
  <2>3. CASE ImportErase \/ PutbackErase
    BY <2>3 DEF ImportErase, PutbackErase, DiskType, told, MediaOK
  <2>4. CASE StageUnits
    BY <2>4 DEF StageUnits, DiskType, told, MediaOK
  <2>5. CASE StageChats
    BY <2>5 DEF StageChats, told, MediaOK
  <2>6. CASE StageMedia
    <3>1. job.dir \in Dirs
      BY <2>6 DEF StageMedia, At, JobOK, BootSteps
    <3>2. CASE UNCHANGED <<media, stagedMedia, borrowed>>
      BY <2>6, <3>2 DEF StageMedia, MediaOK
    <3>3. CASE \E f \in ToStage :
                 /\ media' = media \ {f}
                 /\ stagedMedia' = [stagedMedia EXCEPT ![job.dir] = @ \cup {f}]
                 /\ borrowed' = IF \E e \in Dirs \ {job.dir} : f \in Shown(staged[e])
                                THEN borrowed \cup {f} ELSE borrowed
      <4>1. PICK f \in ToStage :
                 /\ media' = media \ {f}
                 /\ stagedMedia' = [stagedMedia EXCEPT ![job.dir] = @ \cup {f}]
                 /\ borrowed' = IF \E e \in Dirs \ {job.dir} : f \in Shown(staged[e])
                                THEN borrowed \cup {f} ELSE borrowed
        BY <3>3
      <4>2. chats' = chats /\ staged' = staged
        BY <2>6 DEF StageMedia
      <4>3. \A c \in chats : f \notin Shows[c]
        BY <4>1 DEF ToStage, Shown
      <4>4. \A e \in Dirs \ {job.dir} : \A c \in staged[e] : f \in Shows[c] => f \in borrowed'
        BY <4>1 DEF Shown
      <4>5. /\ f \in stagedMedia'[job.dir] /\ borrowed \subseteq borrowed'
            /\ \A e \in Dirs : stagedMedia[e] \subseteq stagedMedia'[e]
        BY <3>1, <4>1 DEF DiskType
      <4>6. QED
        BY <4>1, <4>2, <4>3, <4>4, <4>5 DEF MediaOK
    <3>4. QED
      BY <2>6, <3>2, <3>3 DEF StageMedia
  <2>7. CASE PutbackMedia
    <3>1. job.dir \in Dirs
      BY <2>7 DEF PutbackMedia, At, JobOK, BootSteps
    <3>2. CASE UNCHANGED <<media, stagedMedia>>
      BY <2>7, <3>2 DEF PutbackMedia, told, MediaOK
    <3>3. CASE \E f \in ToPutBack :
                 /\ media' = media \cup {f}
                 /\ stagedMedia' = [stagedMedia EXCEPT ![job.dir] = @ \ {f}]
      BY <2>7, <3>1, <3>3 DEF PutbackMedia, told, DiskType, MediaOK
    <3>4. QED
      BY <2>7, <3>2, <3>3 DEF PutbackMedia
  <2>8. CASE PutbackChats
    <3>1. \A c \in staged[job.dir] : Shows[c] \subseteq media \cup borrowed
      BY <2>8 DEF PutbackChats, At, MediaOK
    <3>2. QED
      BY <2>8, <3>1 DEF PutbackChats, told, MediaOK
  <2>9. QED
    BY <2>1, <2>2, <2>3, <2>4, <2>5, <2>6, <2>7, <2>8, Lent
       DEF Next, Ask, Step, SignInStep, BootStep, Mishap, Unitless
<1>2. job'.at = "putback.chats" =>
        \A c \in staged'[job'.dir] : Shows[c] \subseteq media' \cup borrowed'
  <2>1. CASE UNCHANGED vars
    BY <2>1 DEF vars, disk, run, told, MediaOK
  <2>2. CASE PutbackMedia
    <3>1. job.dir \in Dirs /\ job.at = "putback.media"
      BY <2>2 DEF PutbackMedia, At, JobOK, BootSteps
    <3>2. CASE job' = job
      BY <3>1, <3>2
    <3>3. CASE Goto("putback.chats") /\ ToPutBack = {} /\ UNCHANGED <<media, stagedMedia>>
      <4>1. job'.dir = job.dir
        BY <3>3, JobHas, StepNames, GotoDoes DEF Moves, MovesTo
      <4>2. \A c \in staged[job.dir] : Shows[c] \cap stagedMedia[job.dir] \subseteq media
        BY <3>3 DEF ToPutBack, Shown
      <4>3. QED
        BY <2>2, <3>1, <3>3, <4>1, <4>2 DEF PutbackMedia, told, MediaOK
    <3>4. QED
      BY <2>2, <3>2, <3>3 DEF PutbackMedia
  <2>3. CASE StageUnits \/ PutbackChats \/ PutbackDrop \/ ImportErase
    <3>1. job'.at # "putback.chats"
      BY <2>3, StageUnitsDoes, ImportEraseDoes, PutbackChatsDoes, PutbackDropDoes
         DEF Moves, MovesTo
    <3>2. QED
      BY <3>1
  <2>4. QED
    BY <2>1, <2>2, <2>3, Arrives
<1>3. QED
  BY <1>1, <1>2 DEF MediaOK

---------------------------------------------------------------------------
(* Folders that no recorded decision covers. *)

\* A held folder can be opened and is named.
OwnedOK ==
  /\ \A d \in Dirs : owner[d] # "unclear"
  /\ \A d \in Held : Openable(d)
  /\ rec.known => Held \subseteq Named(rec)

\* The choice is on record, and the folder still there.
Leaving == job.at = "erase.folder" \/ (job.op = "signout" /\ job.at = "enter")

\* No operation is about to take a held folder, nor builds while one is.
TakenOK ==
  /\ Leaving \/ job.at = "undo" => job.dir \notin Held
  /\ job.op = "signin" /\ job.at \in SignInBuilds => Held = {}
  /\ job.op = "signin" /\ job.at \in {"add", "rename", "commit"} =>
        job.dir \in key /\ owner[job.dir] = "ok" /\ (job.at = "commit" => folder[job.dir] = "there")
  /\ job.at = "boot.sweep" => job.todo \cap Held = {}

\* This computer is in, though the record names an account, only when its
\* folder can't be opened.
HomeOK ==
  phase = "up" /\ ctx = Local /\ (job.op = "idle" \/ (job.op = "signin" /\ job.at = "hold")) =>
    Active(rec) \cap Held = {}

\* Only the commit of a sign-in makes a folder held.
LEMMA OwnedShrinks ==
  ASSUME [Next]_vars
  PROVE  CommitSignIn \/ Held' \subseteq Held
<1>1. CASE Undeciding
  BY <1>1, UndecidingSame
<1>2. CASE \/ \E c \in Chats : DeleteChat(c)
           \/ Forget \/ CommitSignOut \/ StageMedia \/ BootActive \/ BootKept
           \/ LoseRecord \/ RestoreRecord
           \/ \E d \in Dirs, o \in {"foreign", "unclear"} : SpoilOwner(d, o)
  BY <1>2
     DEF DeleteChat, Forget, CommitSignOut, StageMedia, BootActive, BootKept, LoseRecord,
         RestoreRecord, SpoilOwner, Unwant, told, Held
<1>3. QED
  BY <1>1, <1>2 DEF Next, Ask, Step, SignInStep, BootStep, Mishap, Undeciding

\* Where every .owner can be judged, a bad one fails.
LEMMA SpoilOwnerIs ==
  ASSUME "unclear" \notin Faults, NEW d \in Dirs, NEW o \in {"foreign", "unclear"},
         SpoilOwner(d, o)
  PROVE  o = "foreign"
  BY DEF SpoilOwner, Fault

\* A held folder still opens after every step.
LEMMA OwnedStands ==
  ASSUME "unclear" \notin Faults, RecType, RunType, DiskType, ToldType, JobOK, RecordOK, CtxOK,
         DirOK, OwnedOK, TakenOK, [Next]_vars
  PROVE  /\ \A d \in Dirs : owner'[d] # "unclear"
         /\ \A d \in Held' : Openable(d)'
<1>1. Held \in SUBSET Dirs
  BY DEF ToldType, Held
<1>2. CASE Folderless /\ Held' \subseteq Held
  BY <1>2, FolderlessSame DEF OwnedOK, Openable
<1>3. CASE CommitSignIn
  <2>1. Openable(job.dir)
    BY <1>3 DEF CommitSignIn, At, TakenOK, Openable
  <2>2. QED
    BY <1>3, <2>1, FolderlessSame DEF Folderless, CommitSignIn, OwnedOK, Openable, Held
<1>4. CASE Build
  <2>1. job.dir \in Dirs /\ Held = {} /\ Held' \subseteq Held
    BY <1>4, OwnedShrinks DEF Build, At, JobOK, TakenOK, SignInBuilds, BootSteps, told, Held
  <2>2. QED
    BY <1>4, <2>1 DEF Build, OwnedOK, DiskType
<1>5. CASE Rename
  <2>1. job.dir \in Dirs /\ Held' = {}
    BY <1>5 DEF Rename, At, JobOK, TakenOK, SignInBuilds, BootSteps, told, Held
  <2>2. QED
    BY <1>5, <2>1 DEF Rename, OwnedOK
<1>6. CASE Undo \/ EraseFolder
  <2>1. job.dir \in Dirs /\ job.dir \notin Held /\ Held' = Held /\ Gone(job.dir)
    BY <1>6 DEF Undo, EraseFolder, At, JobOK, TakenOK, Leaving, BootSteps, told, Held
  <2>2. QED
    BY <1>1, <2>1, GoneDoes DEF OwnedOK, Openable
<1>7. CASE BootSweep
  <2>1. Held' = Held
    BY <1>7 DEF BootSweep, told, Held
  <2>2. CASE UNCHANGED disk
    BY <2>1, <2>2 DEF disk, OwnedOK, Openable
  <2>3. CASE \E d \in job.todo : Gone(d)
    <3>1. PICK d \in job.todo : Gone(d)
      BY <2>3
    <3>2. d \in Dirs /\ d \notin Held
      BY <1>7, <3>1, JobHas DEF BootSweep, At, TakenOK
    <3>3. QED
      BY <1>1, <2>1, <3>1, <3>2, GoneDoes DEF OwnedOK, Openable
  <2>4. QED
    BY <1>7, <2>2, <2>3 DEF BootSweep
<1>8. CASE FailErase \/ FailSweep \/ Crash
  <2>1. Held' = Held /\ folder' = folder /\ owner' = owner
    BY <1>8 DEF FailErase, FailSweep, Crash, Refused, told, Held
  <2>2. \A d \in Held : d \in key => d \in key'
    BY <1>8 DEF FailErase, FailSweep, Crash, KeyMayGo, At, TakenOK, Leaving
  <2>3. QED
    BY <2>1, <2>2 DEF OwnedOK, Openable
<1>9. CASE \E d \in Dirs, o \in {"foreign", "unclear"} : SpoilOwner(d, o)
  BY <1>1, <1>9, SpoilOwnerIs DEF SpoilOwner, DiskType, OwnedOK, Openable, Held
<1>10. QED
  BY <1>2, <1>3, <1>4, <1>5, <1>6, <1>7, <1>8, <1>9, OwnedShrinks
     DEF Next, Step, SignInStep, BootStep, Mishap, Folderless

\* And the record, while it is known, still names it.
LEMMA OwnedNamed ==
  ASSUME RecType, RunType, DiskType, ToldType, JobOK, RecordOK, CtxOK, DirOK, OwnedOK, TakenOK,
         HomeOK, [Next]_vars
  PROVE  rec'.known => Held' \subseteq Named(rec')
<1>1. Held \subseteq Undecided /\ Held \in SUBSET Dirs
  BY DEF OwnedOK, Openable, Undecided, ToldType, Held
<1>2. rec.known => Held \subseteq Named(rec)
  BY DEF OwnedOK
<1>3. CommitSignIn \/ Held' \subseteq Held
  BY OwnedShrinks
<1>4. CASE Recordless
  <2>1. CASE Held' \subseteq Held
    BY <1>2, <1>4, <2>1, RecordlessSame
  <2>2. CASE CommitSignIn
    <3>1. rec.known = rec'.known /\ Held = {} /\ job.dir \in Dirs
      BY <1>4, <2>2, RecordlessSame
         DEF CommitSignIn, At, TakenOK, SignInBuilds, JobOK, BootSteps
    <3>2. rec'.active = job.dir /\ rec'.known
      BY <2>2, CommitSignInDoes DEF Writes
    <3>3. Held' = {job.dir}
      BY <2>2, <3>1 DEF CommitSignIn, Held
    <3>4. QED
      BY <3>1, <3>2, <3>3, AccountsAssumption DEF Named, Active
  <2>3. QED
    BY <1>3, <2>1, <2>2
<1>5. CASE Hold
  <2>1. Held' = Held
    BY <1>5, UndecidingSame DEF Undeciding
  <2>2. job.op \in {"signin", "signout", "keep"} /\ job.at = "hold" /\ phase = "up"
    BY <1>5 DEF Hold, At, JobOK, RunType
  <2>3. ctx # Local => rec.known /\ rec.active = ctx
    BY <2>2 DEF CtxOK
  <2>4. ctx = Local => Active(rec) \cap Held = {}
    BY <2>2, RecordHas DEF HomeOK, CtxOK, JobOK, BootSteps, Active
  <2>5. QED
    BY <1>5, <1>1, <1>2, <2>1, <2>3, <2>4, HoldDoes, RecordHas DEF Writes, Named, Active, Kept
<1>6. CASE LookSame
  <2>1. Held' = Held
    BY <1>6, UndecidingSame DEF Undeciding
  <2>2. QED
    BY <1>6, <1>1, <1>2, <2>1, LookSameDoes, RecordHas, AccountsAssumption
       DEF Writes, RecordOK, Named, Active, Kept
<1>7. CASE Forget
  <2>1. job.dir \in Dirs /\ Held' = Held \ {job.dir}
    BY <1>7 DEF Forget, At, JobOK, BootSteps, Unwant, Held
  <2>2. QED
    BY <1>7, <1>1, <1>2, <2>1, ForgetDoes, RecordHas DEF Writes, Named, Active, Kept
<1>8. CASE CommitSignIn
  <2>1. Held = {} /\ job.dir \in Dirs /\ Held' = Held \cup {job.dir}
    BY <1>8 DEF CommitSignIn, At, TakenOK, SignInBuilds, JobOK, BootSteps, Held
  <2>2. QED
    BY <1>8, <2>1, CommitSignInDoes, AccountsAssumption DEF Writes, Named, Active, Kept
<1>9. CASE CommitSignOut
  <2>1. CASE UNCHANGED <<rec, told>>
    BY <1>2, <2>1 DEF told, Held
  <2>2. CASE OnlyStaged(job.dir) # {} => job.choice # None
    <3>1. Held' = Held \ {job.dir}
      BY <1>9, <2>2, CommitSignOutDoes DEF Unwant, Held
    <3>2. job.dir \in Named(rec) /\ job.op \in {"signout", "kept-erase"} /\ job.dir \in Dirs
      BY <1>9, RecordHas, AccountsAssumption
         DEF CommitSignOut, At, CtxOK, DirOK, JobOK, BootSteps, Named, Active, Kept
    <3>3. Named(rec) = {job.dir}
      BY <3>2, RecordHas DEF RecordOK, Named, Active, Kept
    <3>4. rec.known => Held' = {}
      BY <1>2, <3>1, <3>3
    <3>5. rec'.known = rec.known
      BY <1>9, <2>2, CommitSignOutDoes DEF SignsOut, Writes
    <3>6. QED
      BY <3>4, <3>5
  <2>3. QED
    BY <1>9, <2>1, <2>2, CommitSignOutDoes
<1>10. CASE CommitKeep
  <2>1. Held' = Held
    BY <1>10, UndecidingSame DEF Undeciding
  <2>2. rec.known /\ rec.active = job.dir /\ job.dir \in Dirs
    BY <1>10 DEF CommitKeep, At, CtxOK, JobOK, BootSteps
  <2>3. QED
    BY <1>10, <1>1, <1>2, <2>1, <2>2, CommitKeepDoes, RecordHas, AccountsAssumption
       DEF Writes, RecordOK, Named, Active, Kept
<1>11. CASE Enter
  <2>1. Held' = Held
    BY <1>11, UndecidingSame DEF Undeciding
  <2>2. IF job.op = "signin" THEN rec.known /\ rec.active = job.dir ELSE rec.active = Local
    BY <1>11 DEF Enter, At, CtxOK, JobOK, StageSteps
  <2>3. QED
    BY <1>11, <1>1, <1>2, <2>1, <2>2, EnterDoes, RecordHas DEF Writes, Named, Active, Kept
<1>12. CASE ImportDrop
  <2>1. Held' = Held
    BY <1>12, UndecidingSame DEF Undeciding
  <2>2. QED
    BY <1>12, <1>1, <1>2, <2>1, ImportDropDoes, RecordHas DEF Writes, Named, Active, Kept
<1>13. CASE StageDone
  <2>1. Held' = Held
    BY <1>13, UndecidingSame DEF Undeciding
  <2>2. QED
    BY <1>13, <1>1, <1>2, <2>1, StageDoneDoes, RecordHas DEF Writes, Named, Active, Kept
<1>14. CASE PutbackDrop
  <2>1. Held' = Held
    BY <1>14, UndecidingSame DEF Undeciding
  <2>2. QED
    BY <1>14, <1>1, <1>2, <2>1, PutbackDropDoes, RecordHas DEF Writes, Named, Active, Kept
<1>15. CASE Expire
  <2>1. Held' = Held
    BY <1>15, UndecidingSame DEF Undeciding
  <2>2. QED
    BY <1>15, <1>1, <1>2, <2>1, ExpireDoes, RecordHas DEF Writes, Named, Active, Kept
<1>16. CASE BootImports
  <2>1. Held' = Held
    BY <1>16, UndecidingSame DEF Undeciding
  <2>2. QED
    BY <1>16, <1>1, <1>2, <2>1, BootImportsDoes, RecordHas DEF Writes, Named, Active, Kept
<1>17. CASE BootActive
  <2>1. Held' = Held \ (Active(rec) \ Named(rec'))
    BY <1>17 DEF BootActive, Held
  <2>2. Kept(rec) \subseteq Named(rec') \/ rec'.kept # rec.kept
    BY <1>17, BootActiveDoes DEF Writes, Named, Kept
  <2>3. QED
    BY <1>17, <1>1, <1>2, <2>1, BootActiveDoes, RecordHas, AccountsAssumption
       DEF Writes, RecordOK, Named, Active, Kept
<1>18. CASE BootKept
  <2>1. QED
    BY <1>18, <1>1, <1>2, BootKeptDoes, RecordHas, AccountsAssumption
       DEF Writes, RecordOK, Named, Active, Kept
<1>19. CASE BootResume
  <2>1. Held' = Held
    BY <1>19, UndecidingSame DEF Undeciding
  <2>2. QED
    BY <1>19, <1>1, <1>2, <2>1, BootResumeDoes, RecordHas, AccountsAssumption
       DEF Writes, RecordOK, Named, Active, Kept
<1>20. CASE LoseRecord
  BY <1>20, LostIs DEF LoseRecord
<1>21. CASE RestoreRecord
  BY <1>21 DEF RestoreRecord, Held
<1>22. QED
  BY <1>4, <1>5, <1>6, <1>7, <1>8, <1>9, <1>10, <1>11, <1>12, <1>13, <1>14, <1>15, <1>16, <1>17,
     <1>18, <1>19, <1>20, <1>21
     DEF Next, Ask, Step, SignInStep, BootStep, Mishap, Recordless

\* The steps of an operation at which it takes a folder, or builds one.
Taking ==
  \/ job.at \in {"erase.folder", "undo", "boot.sweep"}
  \/ job.op = "signout" /\ job.at = "enter"
  \/ job.op = "signin" /\ job.at \in SignInBuilds

\* The steps that lead to where a folder is about to be taken or built.
LEMMA TakingFrom ==
  ASSUME RecType, RunType, JobOK, [Next]_vars
  PROVE  \/ UNCHANGED vars \/ LookNone \/ Forget \/ Build \/ AddBuild \/ Rename
         \/ CancelSignIn \/ CommitSignOut \/ Enter \/ BootKept \/ FailBootKeys \/ BootSweep
         \/ FailStep \/ FailSweep \/ ~Taking'
<1> USE NoJobHas
        DEF Taking, SignInBuilds, Starts, JobOK, Moves, MovesTo, Rests, At, BootSteps,
            StageSteps, ImportSteps, PutbackSteps
<1>1. CASE \E a \in Accts, add \in SUBSET Chats, e \in BOOLEAN : SignIn(a, add, e)
  BY <1>1, SignInDoes
<1>2. CASE \E c \in Choices : SignOut(c)
  BY <1>2, SignOutDoes
<1>3. CASE \E c \in Choices : KeptErase(c)
  BY <1>3, KeptEraseDoes
<1>4. CASE \E r \in {"signed-out", "removed", "deleted"} : Keep(r)
  BY <1>4, KeepDoes DEF Reasons
<1>5. CASE \E c \in Chats : DeleteChat(c)
  BY <1>5 DEF DeleteChat, Idle, run
<1>6. CASE SaveKey
  BY <1>6 DEF SaveKey, Idle, run
<1>7. CASE Quit
  BY <1>7 DEF Quit, Idle, run
<1>8. CASE Hold
  BY <1>8, HoldDoes DEF Hold
<1>9. CASE LookUndecided
  BY <1>9, EndDoes DEF LookUndecided
<1>10. CASE LookSame
  BY <1>10, LookSameDoes DEF LookSame
<1>11. CASE LookOther
  BY <1>11, LookOtherDoes DEF LookOther
<1>12. CASE CommitSignIn
  BY <1>12, CommitSignInDoes DEF CommitSignIn
<1>13. CASE Undo
  BY <1>13, EndDoes DEF Undo
<1>14. CASE CancelSignOut
  BY <1>14, EndDoes DEF CancelSignOut
<1>15. CASE CommitKeep
  BY <1>15, CommitKeepDoes DEF CommitKeep
<1>16. CASE KeptKeys
  BY <1>16, KeptKeysDoes DEF KeptKeys
<1>17. CASE EraseFolder
  BY <1>17, EraseFolderDoes DEF EraseFolder
<1>18. CASE ImportErase
  BY <1>18, ImportEraseDoes DEF ImportErase
<1>19. CASE ImportDrop
  BY <1>19, ImportDropDoes DEF ImportDrop
<1>20. CASE StageUnits
  BY <1>20, StageUnitsDoes DEF StageUnits
<1>21. CASE StageChats
  BY <1>21, StageChatsDoes DEF StageChats
<1>22. CASE StageMedia
  BY <1>22, StageMediaDoes DEF StageMedia
<1>23. CASE StageDone
  BY <1>23, StageDoneDoes DEF StageDone
<1>24. CASE PutbackMedia
  BY <1>24, PutbackMediaDoes DEF PutbackMedia
<1>25. CASE PutbackChats
  BY <1>25, PutbackChatsDoes DEF PutbackChats
<1>26. CASE PutbackDrop
  BY <1>26, PutbackDropDoes DEF PutbackDrop
<1>27. CASE PutbackErase
  BY <1>27, PutbackEraseDoes DEF PutbackErase
<1>28. CASE Start
  BY <1>28, StartDoes
<1>29. CASE BootActive
  BY <1>29, BootActiveDoes DEF BootActive
<1>30. CASE BootErase
  BY <1>30, BootEraseDoes DEF BootErase
<1>31. CASE BootImports
  BY <1>31, BootImportsDoes DEF BootImports
<1>32. CASE BootStep6
  BY <1>32, BootStep6Does DEF BootStep6
<1>33. CASE BootPutback
  BY <1>33, BootPutbackDoes DEF BootPutback
<1>34. CASE BootResume
  BY <1>34, BootResumeDoes DEF BootResume
<1>35. CASE FailErase
  BY <1>35, FailEraseDoes DEF FailErase, Refused
<1>36. CASE FailEnter
  BY <1>36, EndDoes DEF FailEnter, Refused
<1>37. CASE FailResume
  BY <1>37, EndDoes DEF FailResume, Refused
<1>38. CASE Crash
  BY <1>38 DEF Crash
<1>39. CASE LoseRecord
  BY <1>39 DEF LoseRecord
<1>40. CASE RestoreRecord
  BY <1>40 DEF RestoreRecord
<1>41. CASE Expire
  BY <1>41, ExpireDoes DEF Expire, run
<1>42. CASE \E d \in Dirs, o \in {"foreign", "unclear"} : SpoilOwner(d, o)
  BY <1>42 DEF SpoilOwner
<1>43. QED
  BY <1>1, <1>2, <1>3, <1>4, <1>5, <1>6, <1>7, <1>8, <1>9, <1>10, <1>11, <1>12, <1>13, <1>14,
     <1>15, <1>16, <1>17, <1>18, <1>19, <1>20, <1>21, <1>22, <1>23, <1>24, <1>25, <1>26, <1>27,
     <1>28, <1>29, <1>30, <1>31, <1>32, <1>33, <1>34, <1>35, <1>36, <1>37, <1>38, <1>39, <1>40,
     <1>41, <1>42
     DEF Next, Ask, Step, SignInStep, BootStep, Mishap

\* None of them aims at a held folder.
LEMMA TakenStep ==
  ASSUME RecType, RunType, DiskType, ToldType, JobOK, RecordOK, CtxOK, DirOK, OwnedOK, TakenOK,
         HomeOK, [Next]_vars
  PROVE  TakenOK'
<1>1. Held \subseteq Undecided /\ Held \in SUBSET Dirs
  BY DEF OwnedOK, Openable, Undecided, ToldType, Held
<1>2. CASE UNCHANGED vars
  BY <1>2 DEF vars, disk, told, Held, run, TakenOK, Leaving
<1>3. CASE LookNone
  <2>1. Held = {}
    BY <1>1, <1>3 DEF LookNone, OwnedOK
  <2>2. Held' = {}
    BY <1>3, <2>1, UndecidingSame DEF Undeciding
  <2>3. job'.at = "build"
    BY <1>3, LookNoneDoes DEF MovesTo
  <2>4. QED
    BY <2>2, <2>3 DEF TakenOK, Leaving
<1>4. CASE Forget
  <2>1. Held' = Held \ {job.dir}
    BY <1>4 DEF Forget, Unwant, Held
  <2>2. QED
    BY <1>4, <2>1, ForgetDoes
       DEF Forget, JobOK, At, TakenOK, Leaving, SignInBuilds, Moves, MovesTo
<1>5. CASE Build
  <2>1. job.op = "signin" /\ job.at = "build" /\ job.dir \in Dirs /\ Held = {}
    BY <1>5 DEF Build, At, JobOK, BootSteps, TakenOK, SignInBuilds
  <2>2. job'.op = "signin" /\ job'.at = "add" /\ job'.dir = job.dir /\ Held' = {}
    BY <1>5, <2>1, BuildDoes DEF Build, Moves, MovesTo, told, Held
  <2>3. job.dir \in key' /\ owner'[job.dir] = "ok"
    BY <1>5, <2>1 DEF Build, DiskType
  <2>4. QED
    BY <2>2, <2>3 DEF TakenOK, Leaving
<1>6. CASE AddBuild
  <2>1. job.op = "signin" /\ job.at = "add" /\ job.dir \in Dirs
    BY <1>6 DEF AddBuild, At, JobOK, BootSteps
  <2>2. UNCHANGED <<folder, owner, key, Held>>
    BY <1>6 DEF AddBuild, told, Held
  <2>3. QED
    BY <1>6, <2>1, <2>2, AddBuildDoes DEF TakenOK, Leaving, SignInBuilds, Starts
<1>7. CASE Rename
  <2>1. job.op = "signin" /\ job.at = "rename" /\ job.dir \in Dirs /\ Held = {}
    BY <1>7 DEF Rename, At, JobOK, BootSteps, TakenOK, SignInBuilds
  <2>2. UNCHANGED <<owner, key>> /\ folder'[job.dir] = "there" /\ Held' = {}
    BY <1>7, <2>1 DEF Rename, DiskType, told, Held
  <2>3. job'.op = "signin" /\ job'.at = "commit" /\ job'.dir = job.dir
    BY <1>7, <2>1, RenameDoes DEF Moves, MovesTo
  <2>4. QED
    BY <2>1, <2>2, <2>3 DEF TakenOK, Leaving
<1>8. CASE CancelSignIn
  BY <1>8, CancelSignInDoes
     DEF CancelSignIn, At, JobOK, told, Held, TakenOK, Leaving, SignInBuilds, Moves, MovesTo
<1>9. CASE CommitSignOut
  <2>1. CASE Rests
    BY <2>1 DEF Rests, Starts, TakenOK, Leaving
  <2>2. CASE OnlyStaged(job.dir) # {} => job.choice # None
    <3>1. /\ job'.op \in {"signout", "kept-erase"} /\ job'.at \in {"enter", "erase.folder"}
          /\ job'.dir = job.dir /\ Held' = Held \ {job.dir}
      BY <1>9, <2>2, CommitSignOutDoes DEF CommitSignOut, Moves, MovesTo, Unwant, Held
    <3>2. QED
      BY <3>1 DEF TakenOK, Leaving
  <2>3. QED
    BY <1>9, <2>1, <2>2, CommitSignOutDoes
<1>10. CASE Enter
  <2>1. Held' = Held
    BY <1>10 DEF Enter, told, Held
  <2>2. CASE Rests
    BY <2>2 DEF Rests, Starts, TakenOK, Leaving
  <2>3. CASE job.op = "signout" /\ Moves("erase.folder")
    BY <1>10, <2>1, <2>3 DEF Enter, At, TakenOK, Leaving, SignInBuilds, Moves, MovesTo
  <2>4. QED
    BY <1>10, <2>2, <2>3, EnterDoes
<1>11. CASE BootKept
  <2>1. job'.at = "boot.sweep" /\ job'.op = "boot" /\ job'.todo = Unnamed(rec')
    BY <1>11, BootKeptDoes DEF BootKept, At, JobOK, BootSteps, MovesTo
  <2>2. Held' \subseteq Held /\ folder' = folder
    BY <1>11 DEF BootKept, Held
  <2>3. Unnamed(rec') \cap Held' = {}
    BY <2>2, OwnedNamed DEF Unnamed, OwnedOK, Openable
  <2>4. QED
    BY <2>1, <2>3 DEF TakenOK, Leaving
<1>12. CASE FailBootKeys
  <2>1. job'.at = "boot.sweep" /\ job'.op = "boot" /\ job'.todo = Unnamed(rec)
    BY <1>12, FailBootKeysDoes DEF FailBootKeys, At, JobOK, BootSteps, MovesTo
  <2>2. Held' = Held
    BY <1>12 DEF FailBootKeys, Refused, told, Held
  <2>3. Unnamed(rec) \cap Held = {}
    BY DEF Unnamed, OwnedOK, Openable
  <2>4. QED
    BY <2>1, <2>2, <2>3 DEF TakenOK, Leaving
<1>13. CASE BootSweep
  <2>1. Held' = Held /\ job.at = "boot.sweep" /\ job.op = "boot"
    BY <1>13 DEF BootSweep, At, JobOK, BootSteps, told, Held
  <2>2. \/ job'.op = "boot" /\ job'.at = "boot.sweep" /\ job'.todo \subseteq job.todo
        \/ job'.op = "boot" /\ job'.at = "boot.erase"
    BY <1>13, <2>1, BootSweepDoes DEF MovesTo
  <2>3. QED
    BY <2>1, <2>2 DEF TakenOK, Leaving
<1>14. CASE FailStep
  <2>1. Held' = Held
    BY <1>14 DEF FailStep, Refused, told, Held
  <2>2. CASE job.at \in {"build", "add", "rename"} /\ Moves("undo")
    BY <2>1, <2>2 DEF JobOK, TakenOK, Leaving, SignInBuilds, Moves, MovesTo
  <2>3. CASE ~(job.at \in {"build", "add", "rename"} /\ Moves("undo"))
    <3>1. ~Taking'
      BY <1>14, <2>3, NoJobHas, FailStepDoes
         DEF JobOK, Rests, Starts, Taking, SignInBuilds, Moves, MovesTo, BootSteps, StageSteps,
             ImportSteps, PutbackSteps
    <3>2. QED
      BY <3>1 DEF Taking, TakenOK, Leaving, SignInBuilds
  <2>4. QED
    BY <2>2, <2>3
<1>15. CASE FailSweep
  <2>1. Held' = Held /\ job.at = "boot.sweep" /\ job.op = "boot"
    BY <1>15 DEF FailSweep, Refused, At, JobOK, BootSteps, told, Held
  <2>2. job'.op = "boot" /\ job'.at = "boot.sweep" /\ job'.todo \subseteq job.todo
    BY <1>15, <2>1, FailSweepDoes DEF MovesTo
  <2>3. QED
    BY <2>1, <2>2 DEF TakenOK, Leaving
<1>16. CASE ~Taking'
  BY <1>16 DEF Taking, TakenOK, Leaving, SignInBuilds
<1>17. QED
  BY <1>2, <1>3, <1>4, <1>5, <1>6, <1>7, <1>8, <1>9, <1>10, <1>11, <1>12, <1>13, <1>14, <1>15,
     <1>16, TakingFrom

\* This computer is in, and no operation has looked at who signs in.
Home ==
  phase = "up" /\ ctx = Local /\ (job.op = "idle" \/ (job.op = "signin" /\ job.at = "hold"))

\* The steps that lead to This computer with no operation under way.
LEMMA HomeFrom ==
  ASSUME RecType, RunType, JobOK, [Next]_vars
  PROVE  \/ ~Home' \/ UNCHANGED vars \/ BootResume \/ FailResume
         \/ \E a \in Accts, add \in SUBSET Chats, e \in BOOLEAN : SignIn(a, add, e)
         \/ \E c \in Chats : DeleteChat(c)
         \/ SaveKey \/ LookUndecided \/ LookSame \/ LookOther \/ CommitSignOut \/ CancelSignOut
         \/ Undo \/ Enter \/ FailEnter \/ EraseFolder \/ ImportDrop \/ PutbackErase
         \/ FailStep \/ FailErase
<1> USE DEF Home
<1>1. CASE \E c \in Choices : SignOut(c)
  BY <1>1, SignOutDoes DEF Starts
<1>2. CASE \E c \in Choices : KeptErase(c)
  BY <1>2, KeptEraseDoes DEF Starts
<1>3. CASE \E r \in {"signed-out", "removed", "deleted"} : Keep(r)
  BY <1>3, KeepDoes DEF Starts, Reasons
<1>4. CASE Quit
  BY <1>4 DEF Quit
<1>5. CASE Hold
  BY <1>5, NoJobHas, HoldDoes DEF Hold, At, JobOK, Moves, MovesTo
<1>6. CASE LookNone
  BY <1>6, NoJobHas, LookNoneDoes DEF LookNone, At, JobOK, Moves, MovesTo
<1>7. CASE Forget
  BY <1>7, NoJobHas, ForgetDoes DEF Forget, At, JobOK, Moves, MovesTo
<1>8. CASE Build
  BY <1>8, NoJobHas, BuildDoes DEF Build, At, JobOK, Moves, MovesTo
<1>9. CASE AddBuild
  BY <1>9, AddBuildDoes DEF Starts
<1>10. CASE Rename
  BY <1>10, NoJobHas, RenameDoes DEF Rename, At, JobOK, Moves, MovesTo
<1>11. CASE CommitSignIn
  BY <1>11, NoJobHas, CommitSignInDoes DEF CommitSignIn, At, JobOK, Moves, MovesTo
<1>12. CASE CancelSignIn
  BY <1>12, NoJobHas, CancelSignInDoes DEF CancelSignIn, At, JobOK, Moves, MovesTo
<1>13. CASE CommitKeep
  BY <1>13, NoJobHas, CommitKeepDoes DEF CommitKeep, At, JobOK, Moves, MovesTo
<1>14. CASE KeptKeys
  BY <1>14, NoJobHas, KeptKeysDoes DEF KeptKeys, At, JobOK, Moves, MovesTo
<1>15. CASE ImportErase
  BY <1>15, NoJobHas, ImportEraseDoes DEF ImportErase, At, JobOK, Moves, MovesTo
<1>16. CASE StageUnits
  BY <1>16, NoJobHas, StageUnitsDoes DEF StageUnits, At, JobOK, Moves, MovesTo
<1>17. CASE StageChats
  BY <1>17, NoJobHas, StageChatsDoes DEF StageChats, At, JobOK, Moves, MovesTo
<1>18. CASE StageMedia
  BY <1>18, NoJobHas, StageMediaDoes DEF StageMedia, At, JobOK, Moves, MovesTo
<1>19. CASE StageDone
  BY <1>19, NoJobHas, StageDoneDoes DEF StageDone, At, JobOK, Moves, MovesTo
<1>20. CASE PutbackMedia
  BY <1>20, NoJobHas, PutbackMediaDoes DEF PutbackMedia, At, JobOK, Moves, MovesTo
<1>21. CASE PutbackChats
  BY <1>21, NoJobHas, PutbackChatsDoes DEF PutbackChats, At, JobOK, Moves, MovesTo
<1>22. CASE PutbackDrop
  BY <1>22, NoJobHas, PutbackDropDoes DEF PutbackDrop, At, JobOK, Moves, MovesTo
<1>23. CASE Start
  BY <1>23 DEF Start
<1>24. CASE BootActive
  BY <1>24, NoJobHas, BootActiveDoes DEF BootActive, At, JobOK, Moves, MovesTo
<1>25. CASE BootKept
  BY <1>25, NoJobHas, BootKeptDoes DEF BootKept, At, JobOK, Moves, MovesTo
<1>26. CASE BootSweep
  BY <1>26, NoJobHas, BootSweepDoes DEF BootSweep, At, JobOK, Moves, MovesTo
<1>27. CASE BootErase
  BY <1>27, NoJobHas, BootEraseDoes DEF BootErase, At, JobOK, Moves, MovesTo
<1>28. CASE BootImports
  BY <1>28, NoJobHas, BootImportsDoes DEF BootImports, At, JobOK, Moves, MovesTo
<1>29. CASE BootStep6
  BY <1>29, NoJobHas, BootStep6Does DEF BootStep6, At, JobOK, Moves, MovesTo
<1>30. CASE BootPutback
  BY <1>30, NoJobHas, BootPutbackDoes DEF BootPutback, At, JobOK, Moves, MovesTo
<1>31. CASE FailBootKeys
  BY <1>31, NoJobHas, FailBootKeysDoes DEF FailBootKeys, Refused, At, JobOK, Moves, MovesTo
<1>32. CASE FailSweep
  BY <1>32, NoJobHas, FailSweepDoes DEF FailSweep, Refused, At, JobOK, Moves, MovesTo
<1>33. CASE Crash
  BY <1>33 DEF Crash
<1>34. CASE LoseRecord
  BY <1>34 DEF LoseRecord
<1>35. CASE RestoreRecord
  BY <1>35 DEF RestoreRecord
<1>36. CASE Expire
  BY <1>36 DEF Expire, run
<1>37. CASE \E d \in Dirs, o \in {"foreign", "unclear"} : SpoilOwner(d, o)
  BY <1>37 DEF SpoilOwner
<1>38. QED
  BY <1>1, <1>2, <1>3, <1>4, <1>5, <1>6, <1>7, <1>8, <1>9, <1>10, <1>11, <1>12, <1>13, <1>14,
     <1>15, <1>16, <1>17, <1>18, <1>19, <1>20, <1>21, <1>22, <1>23, <1>24, <1>25, <1>26, <1>27,
     <1>28, <1>29, <1>30, <1>31, <1>32, <1>33, <1>34, <1>35, <1>36, <1>37
     DEF Next, Ask, Step, SignInStep, BootStep, Mishap

\* They name no active folder, unless they end a start.
LEMMA ComesHome ==
  ASSUME RecType, RunType, DiskType, ToldType, JobOK, RecordOK, CtxOK, DirOK, [Next]_vars, Home'
  PROVE  \/ Home /\ rec' = rec /\ Held' = Held /\ (calm' => calm)
         \/ Active(rec') = {} \/ BootResume \/ FailResume
<1> DEFINE Out == rec'.known => rec'.active = Local
<1>1. Out => Active(rec') = {}
  BY DEF Active
<1>2. CASE UNCHANGED vars
  BY <1>2 DEF vars, run, told, Held, Home
<1>3. CASE \E a \in Accts, add \in SUBSET Chats, e \in BOOLEAN : SignIn(a, add, e)
  BY <1>3, NoJobHas DEF SignIn, Begin, Idle, told, Held, Home
<1>4. CASE SaveKey \/ \E c \in Chats : DeleteChat(c)
  BY <1>4 DEF SaveKey, DeleteChat, Unwant, Idle, run, told, Held, Home
<1>5. CASE LookUndecided
  BY <1>1, <1>5 DEF LookUndecided
<1>6. CASE LookSame \/ LookOther
  <2>1. rec.active = Local
    BY <1>6 DEF LookSame, LookOther, At, JobOK, CtxOK
  <2>2. CASE rec' = rec
    BY <1>1, <2>1, <2>2
  <2>3. CASE LookSame /\ \E d \in Dirs : MovesTo("enter", d, job.owed, job.todo)
    BY <2>3 DEF LookSame, At, JobOK, MovesTo, Home
  <2>4. QED
    BY <1>6, <2>2, <2>3, LookSameDoes DEF LookOther
<1>7. CASE CommitSignOut
  <2>1. CASE UNCHANGED <<rec, told>>
    <3>1. /\ job.op = "signout" => ctx \in Dirs
          /\ job.op # "signout" => rec.active = Local
      BY <1>7 DEF CommitSignOut, At, JobOK, BootSteps, CtxOK
    <3>2. ctx' = ctx
      BY <1>7 DEF CommitSignOut, Same
    <3>3. QED
      BY <1>1, <2>1, <3>1, <3>2, AccountsAssumption DEF Home
  <2>2. CASE Moves(IF job.op = "signout" THEN "enter" ELSE "erase.folder")
    BY <1>7, <2>2 DEF CommitSignOut, Moves, MovesTo, Home
  <2>3. QED
    BY <1>7, <2>1, <2>2, CommitSignOutDoes
<1>8. CASE CancelSignOut
  BY <1>8, AccountsAssumption DEF CancelSignOut, At, Same, JobOK, BootSteps, CtxOK, Home
<1>9. CASE Undo
  BY <1>1, <1>9 DEF Undo, At, JobOK, CtxOK, SignInBuilds
<1>10. CASE Enter
  <2>1. CASE job.op = "signin"
    BY <1>10, <2>1, EnterDoes, AccountsAssumption DEF Home
  <2>2. CASE job.op # "signin"
    BY <1>1, <1>10, <2>2, EnterDoes DEF Writes
  <2>3. QED
    BY <2>1, <2>2
<1>11. CASE FailEnter
  <2>1. CASE job.op = "signin"
    BY <1>11, <2>1, FailEntered, AccountsAssumption DEF Home
  <2>2. CASE job.op # "signin"
    BY <1>1, <1>11, <2>2 DEF FailEnter, At, JobOK, CtxOK, StageSteps
  <2>3. QED
    BY <2>1, <2>2
<1>12. CASE EraseFolder \/ FailErase
  <2>1. job.at \in {"erase.folder", "undo"} /\ rec' = rec
    BY <1>12 DEF EraseFolder, FailErase, At
  <2>2. rec.active = Local
    BY <2>1 DEF JobOK, CtxOK, SignInBuilds, StageSteps
  <2>3. QED
    BY <1>1, <2>1, <2>2
<1>13. CASE ImportDrop
  <2>1. job.at = "import.drop" /\ rec'.active = rec.active
    BY <1>13, ImportDropDoes DEF ImportDrop, At, Writes
  <2>2. job.op # "boot"
    BY <1>13, ImportDropDoes DEF Moves, MovesTo, Home
  <2>3. rec.active = Local
    BY <2>1, <2>2 DEF JobOK, CtxOK, ImportSteps, StageSteps
  <2>4. QED
    BY <1>1, <2>1, <2>3
<1>14. CASE PutbackErase
  <2>1. job.at = "putback.erase" /\ rec' = rec
    BY <1>14 DEF PutbackErase, At
  <2>2. job.op # "boot"
    BY <1>14, PutbackEraseDoes DEF Moves, MovesTo, Home
  <2>3. rec.active = Local
    BY <2>1, <2>2 DEF JobOK, CtxOK, PutbackSteps, StageSteps
  <2>4. QED
    BY <1>1, <2>1, <2>3
<1>15. CASE FailStep
  <2>1. rec' = rec /\ Held' = Held /\ ctx' = ctx /\ phase' = phase /\ ~calm'
    BY <1>15 DEF FailStep, Refused, told, Held
  <2>2. job'.op = "idle" \/ job'.at = "hold"
    BY DEF Home
  <2>3. /\ job.op # "boot"
        /\ job.at \in StageSteps => job.op # "keep" /\ ~(job.op = "signin" /\ rec.active = job.dir)
        /\ job.at \in {"hold", "look", "forget", "commit"} \cup StageSteps \cup PutbackSteps
                        \cup ImportSteps
    BY <1>15, <2>2, FailStepDoes, NoJobHas
       DEF JobOK, Moves, MovesTo, BootSteps, StageSteps, PutbackSteps, ImportSteps
  <2>4. CASE job.op = "signin" /\ job.at = "hold"
    BY <2>1, <2>4 DEF Home
  <2>5. CASE job.op = "signin" /\ job.at # "hold"
    BY <1>1, <2>1, <2>3, <2>5
       DEF JobOK, CtxOK, SignInBuilds, ImportSteps, StageSteps, PutbackSteps
  <2>6. CASE job.op \in {"signout", "keep"}
    <3>1. CASE job.at \in {"hold", "commit"} \cup StageSteps
      <4>1. ctx \in Dirs
        BY <2>6, <3>1 DEF CtxOK, JobOK, BootSteps, StageSteps
      <4>2. QED
        BY <2>1, <4>1, AccountsAssumption DEF Home
    <3>2. CASE job.at \notin {"hold", "commit"} \cup StageSteps
      BY <1>1, <2>1, <2>6, <3>2 DEF CtxOK
    <3>3. QED
      BY <3>1, <3>2
  <2>7. CASE job.op = "kept-erase"
    BY <1>1, <2>1, <2>7 DEF CtxOK
  <2>8. QED
    BY <2>3, <2>4, <2>5, <2>6, <2>7, JobHas, NoJobHas
       DEF Ops, JobOK, StageSteps, PutbackSteps, ImportSteps
<1>16. QED
  BY <1>2, <1>3, <1>4, <1>5, <1>6, <1>7, <1>8, <1>9, <1>10, <1>11, <1>12, <1>13, <1>14, <1>15,
     HomeFrom

\* And a start ends so only when the active folder does not open.
LEMMA ResumesHome ==
  ASSUME RecType, RunType, DiskType, ToldType, JobOK, RecordOK, CtxOK, DirOK, BootResume, Home'
  PROVE  (\A d \in Active(rec) : ~Openable(d)) /\ Active(rec') \subseteq Active(rec)
<1>1. ~(rec.known /\ rec.active \in Dirs /\ ctx' = rec.active)
  BY AccountsAssumption DEF Home
<1>2. /\ \A d \in Active(rec) : ~Openable(d)
      /\ \/ ~rec.known /\ rec'.active = rec.active
         \/ rec' = rec
         \/ rec'.active = Local
  BY <1>1, BootResumeDoes DEF Writes
<1>3. QED
  BY <1>2 DEF RecordOK, Active

\* This computer is in only when no held folder is active.
LEMMA HomeStep ==
  ASSUME RecType, RunType, DiskType, ToldType, JobOK, RecordOK, CtxOK, DirOK, OwnedOK, HomeOK,
         [Next]_vars
  PROVE  HomeOK'
<1> SUFFICES ASSUME Home'
             PROVE  Active(rec') \cap Held' = {}
  BY DEF HomeOK, Home
<1>1. CASE Home /\ rec' = rec /\ Held' = Held
  BY <1>1 DEF HomeOK, Home
<1>2. CASE Active(rec') = {}
  BY <1>2
<1>3. CASE BootResume
  BY <1>3, ResumesHome DEF BootResume, told, Held, OwnedOK
<1>4. CASE FailResume
  BY <1>4 DEF FailResume, Refused, told, Held, Home, OwnedOK
<1>5. QED
  BY <1>1, <1>2, <1>3, <1>4, ComesHome

\* All that is said of held folders is inductive together.
LEMMA OwnedStep ==
  ASSUME "unclear" \notin Faults, RecType, RunType, DiskType, ToldType, JobOK, RecordOK, CtxOK,
         DirOK, OwnedOK, TakenOK, HomeOK, [Next]_vars
  PROVE  OwnedOK' /\ TakenOK' /\ HomeOK'
  BY OwnedStands, OwnedNamed, TakenStep, HomeStep DEF OwnedOK

---------------------------------------------------------------------------
(* What a start that fails nowhere settles. *)

\* What is not a start and not a mishap.
Going == Ask \/ Step \/ BootStep \/ UNCHANGED vars

\* While no step fails, each is a start's first, or neither a start's nor a mishap.
LEMMA GoingOn ==
  ASSUME [Next]_vars, calm'
  PROVE  phase' = "down" \/ Start \/ (Going /\ calm)
<1>1. CASE Going
  <2>1. calm' = calm
    BY <1>1
       DEF Going, Ask, Step, SignInStep, BootStep, Same, vars, SignIn, Begin, SignOut,
           KeptErase, Keep, DeleteChat, run, SaveKey, Quit, Hold, LookUndecided, LookNone,
           LookSame, LookOther, Forget, Build, AddBuild, Rename, CommitSignIn, CancelSignIn,
           Undo, CommitSignOut, CancelSignOut, CommitKeep, KeptKeys, Enter, EraseFolder,
           ImportErase, ImportDrop, StageUnits, StageChats, StageMedia, StageDone, PutbackMedia,
           PutbackChats, PutbackDrop, PutbackErase, BootActive, BootKept, BootSweep, BootErase,
           BootImports, BootStep6, BootPutback, BootResume
  <2>2. QED
    BY <1>1, <2>1
<1>2. CASE FailStep \/ FailBootKeys \/ FailErase \/ FailSweep \/ FailEnter \/ FailResume
  BY <1>2 DEF FailStep, FailBootKeys, FailErase, FailSweep, FailEnter, FailResume, Refused
<1>3. CASE Crash
  BY <1>3 DEF Crash
<1>4. CASE \/ LoseRecord \/ RestoreRecord \/ Expire
           \/ \E d \in Dirs, o \in {"foreign", "unclear"} : SpoilOwner(d, o)
  BY <1>4 DEF LoseRecord, RestoreRecord, Expire, SpoilOwner, run
<1>5. QED
  BY <1>1, <1>2, <1>3, <1>4 DEF Next, Mishap, Going

\* The record is known until it is lost.
LEMMA KnownStays ==
  ASSUME RecType, RunType, JobOK, RecordOK, rec.known, [Next]_vars
  PROVE  rec'.known \/ LoseRecord
<1>1. CASE Recordless
  BY <1>1, RecordlessSame
<1>2. CASE Hold
  BY <1>2, HoldDoes, RecordHas DEF Writes
<1>3. CASE LookSame
  BY <1>3, LookSameDoes, RecordHas DEF Writes
<1>4. CASE Forget
  BY <1>4, ForgetDoes, RecordHas DEF Writes
<1>5. CASE CommitSignIn
  BY <1>5, CommitSignInDoes, RecordHas DEF Writes
<1>6. CASE CommitSignOut
  BY <1>6, CommitSignOutDoes, RecordHas DEF Writes, SignsOut
<1>7. CASE CommitKeep
  BY <1>7, CommitKeepDoes, RecordHas DEF Writes
<1>8. CASE Enter
  BY <1>8, EnterDoes, RecordHas DEF Writes
<1>9. CASE ImportDrop
  BY <1>9, ImportDropDoes, RecordHas DEF Writes
<1>10. CASE StageDone
  BY <1>10, StageDoneDoes, RecordHas DEF Writes
<1>11. CASE PutbackDrop
  BY <1>11, PutbackDropDoes, RecordHas DEF Writes
<1>12. CASE BootActive
  BY <1>12, BootActiveDoes, RecordHas DEF Writes
<1>13. CASE BootKept
  BY <1>13, BootKeptDoes, RecordHas DEF Writes
<1>14. CASE BootImports
  BY <1>14, BootImportsDoes, RecordHas DEF Writes
<1>15. CASE BootResume
  BY <1>15, BootResumeDoes, RecordHas DEF Writes, Named, Active, Kept
<1>16. CASE RestoreRecord
  BY <1>16, LostIs DEF Writes, RestoreRecord
<1>17. CASE Expire
  BY <1>17, ExpireDoes, RecordHas DEF Writes
<1>18. QED
  BY <1>1, <1>2, <1>3, <1>4, <1>5, <1>6, <1>7, <1>8, <1>9, <1>10, <1>11, <1>12, <1>13, <1>14,
     <1>15, <1>16, <1>17
     DEF Next, Ask, Step, SignInStep, BootStep, Mishap, Recordless

\* An operation stays the one it is until it ends.
LEMMA OperationStays ==
  ASSUME RecType, RunType, JobOK, [Next]_vars
  PROVE  job'.op \in {job.op, "idle"} \/ job.op = "idle"
<1>1. CASE \E a \in Accts, add \in SUBSET Chats, e \in BOOLEAN : SignIn(a, add, e)
  BY <1>1, NoJobHas DEF SignIn, Begin, Idle
<1>2. CASE \E c \in Choices : SignOut(c)
  BY <1>2, NoJobHas DEF SignOut, Begin, Idle
<1>3. CASE \E c \in Choices : KeptErase(c)
  BY <1>3, NoJobHas DEF KeptErase, Begin, Idle
<1>4. CASE \E r \in {"signed-out", "removed", "deleted"} : Keep(r)
  BY <1>4, NoJobHas DEF Keep, Begin, Idle
<1>5. CASE \E c \in Chats : DeleteChat(c)
  BY <1>5, NoJobHas DEF DeleteChat, Idle
<1>6. CASE SaveKey
  BY <1>6, NoJobHas DEF SaveKey, Idle
<1>7. CASE Quit
  BY <1>7, NoJobHas DEF Quit, Idle
<1>8. CASE Hold
  BY <1>8, NoJobHas, HoldDoes DEF Hold, Rests, Starts, Moves, MovesTo
<1>9. CASE LookUndecided
  BY <1>9, NoJobHas, EndDoes DEF LookUndecided, Rests, Starts, Moves, MovesTo
<1>10. CASE LookNone
  BY <1>10, NoJobHas, LookNoneDoes DEF LookNone, Rests, Starts, Moves, MovesTo
<1>11. CASE LookSame
  BY <1>11, NoJobHas, LookSameDoes DEF LookSame, Rests, Starts, Moves, MovesTo
<1>12. CASE LookOther
  BY <1>12, NoJobHas, LookOtherDoes DEF LookOther, Rests, Starts, Moves, MovesTo
<1>13. CASE Forget
  BY <1>13, NoJobHas, ForgetDoes DEF Forget, Rests, Starts, Moves, MovesTo
<1>14. CASE Build
  BY <1>14, NoJobHas, BuildDoes DEF Build, Rests, Starts, Moves, MovesTo
<1>15. CASE AddBuild
  BY <1>15, NoJobHas, AddBuildDoes DEF AddBuild, At, JobOK, Rests, Starts, Moves, MovesTo
<1>16. CASE Rename
  BY <1>16, NoJobHas, RenameDoes DEF Rename, Rests, Starts, Moves, MovesTo
<1>17. CASE CommitSignIn
  BY <1>17, NoJobHas, CommitSignInDoes DEF CommitSignIn, Rests, Starts, Moves, MovesTo
<1>18. CASE CancelSignIn
  BY <1>18, NoJobHas, CancelSignInDoes DEF CancelSignIn, Rests, Starts, Moves, MovesTo
<1>19. CASE Undo
  BY <1>19, NoJobHas, EndDoes DEF Undo, Rests, Starts, Moves, MovesTo
<1>20. CASE CommitSignOut
  BY <1>20, NoJobHas, CommitSignOutDoes DEF CommitSignOut, Rests, Starts, Moves, MovesTo
<1>21. CASE CancelSignOut
  BY <1>21, NoJobHas, EndDoes DEF CancelSignOut, Rests, Starts, Moves, MovesTo
<1>22. CASE CommitKeep
  BY <1>22, NoJobHas, CommitKeepDoes DEF CommitKeep, Rests, Starts, Moves, MovesTo
<1>23. CASE KeptKeys
  BY <1>23, NoJobHas, KeptKeysDoes DEF KeptKeys, Rests, Starts, Moves, MovesTo
<1>24. CASE Enter
  BY <1>24, NoJobHas, EnterDoes DEF Enter, Rests, Starts, Moves, MovesTo
<1>25. CASE EraseFolder
  BY <1>25, NoJobHas, EraseFolderDoes DEF EraseFolder, Rests, Starts, Moves, MovesTo
<1>26. CASE ImportErase
  BY <1>26, NoJobHas, ImportEraseDoes DEF ImportErase, Rests, Starts, Moves, MovesTo
<1>27. CASE ImportDrop
  BY <1>27, NoJobHas, ImportDropDoes DEF ImportDrop, Rests, Starts, Moves, MovesTo
<1>28. CASE StageUnits
  BY <1>28, NoJobHas, StageUnitsDoes DEF StageUnits, Rests, Starts, Moves, MovesTo
<1>29. CASE StageChats
  BY <1>29, NoJobHas, StageChatsDoes DEF StageChats, Rests, Starts, Moves, MovesTo
<1>30. CASE StageMedia
  BY <1>30, NoJobHas, StageMediaDoes DEF StageMedia, Rests, Starts, Moves, MovesTo
<1>31. CASE StageDone
  BY <1>31, NoJobHas, StageDoneDoes DEF StageDone, Rests, Starts, Moves, MovesTo
<1>32. CASE PutbackMedia
  BY <1>32, NoJobHas, PutbackMediaDoes DEF PutbackMedia, Rests, Starts, Moves, MovesTo
<1>33. CASE PutbackChats
  BY <1>33, NoJobHas, PutbackChatsDoes DEF PutbackChats, Rests, Starts, Moves, MovesTo
<1>34. CASE PutbackDrop
  BY <1>34, NoJobHas, PutbackDropDoes DEF PutbackDrop, Rests, Starts, Moves, MovesTo
<1>35. CASE PutbackErase
  BY <1>35, NoJobHas, PutbackEraseDoes DEF PutbackErase, Rests, Starts, Moves, MovesTo
<1>36. CASE Start
  BY <1>36, NoJobHas DEF Start, JobOK
<1>37. CASE BootActive
  BY <1>37, NoJobHas, BootActiveDoes DEF BootActive, Rests, Starts, Moves, MovesTo
<1>38. CASE BootKept
  BY <1>38, NoJobHas, BootKeptDoes DEF BootKept, Rests, Starts, Moves, MovesTo
<1>39. CASE BootSweep
  BY <1>39, NoJobHas, BootSweepDoes DEF BootSweep, Rests, Starts, Moves, MovesTo
<1>40. CASE BootErase
  BY <1>40, NoJobHas, BootEraseDoes DEF BootErase, Rests, Starts, Moves, MovesTo
<1>41. CASE BootImports
  BY <1>41, NoJobHas, BootImportsDoes DEF BootImports, Rests, Starts, Moves, MovesTo
<1>42. CASE BootStep6
  BY <1>42, NoJobHas, BootStep6Does DEF BootStep6, Rests, Starts, Moves, MovesTo
<1>43. CASE BootPutback
  BY <1>43, NoJobHas, BootPutbackDoes DEF BootPutback, Rests, Starts, Moves, MovesTo
<1>44. CASE BootResume
  BY <1>44, NoJobHas, BootResumeDoes DEF BootResume, Rests, Starts, Moves, MovesTo
<1>45. CASE FailStep
  BY <1>45, NoJobHas, FailStepDoes DEF FailStep, Refused, Rests, Starts, Moves, MovesTo
<1>46. CASE FailBootKeys
  BY <1>46, NoJobHas, FailBootKeysDoes DEF FailBootKeys, Refused, Rests, Starts, Moves, MovesTo
<1>47. CASE FailErase
  BY <1>47, NoJobHas, FailEraseDoes DEF FailErase, Refused, Rests, Starts, Moves, MovesTo
<1>48. CASE FailSweep
  BY <1>48, NoJobHas, FailSweepDoes DEF FailSweep, Refused, Rests, Starts, Moves, MovesTo
<1>49. CASE FailEnter
  BY <1>49, NoJobHas, EndDoes DEF FailEnter, Refused, Rests, Starts, Moves, MovesTo
<1>50. CASE FailResume
  BY <1>50, NoJobHas, EndDoes DEF FailResume, Refused, Rests, Starts, Moves, MovesTo
<1>51. CASE Crash
  BY <1>51, NoJobHas DEF Crash
<1>52. CASE LoseRecord
  BY <1>52, NoJobHas DEF LoseRecord, JobOK
<1>53. CASE RestoreRecord
  BY <1>53, NoJobHas DEF RestoreRecord, JobOK
<1>54. CASE Expire
  BY <1>54, NoJobHas DEF Expire, JobOK
<1>55. CASE \E d \in Dirs, o \in {"foreign", "unclear"} : SpoilOwner(d, o)
  BY <1>55, NoJobHas DEF SpoilOwner, JobOK
<1>56. CASE UNCHANGED vars
  BY <1>56 DEF vars, run
<1>57. QED
  BY <1>1, <1>2, <1>3, <1>4, <1>5, <1>6, <1>7, <1>8, <1>9, <1>10, <1>11, <1>12, <1>13, <1>14,
     <1>15, <1>16, <1>17, <1>18, <1>19, <1>20, <1>21, <1>22, <1>23, <1>24, <1>25, <1>26, <1>27,
     <1>28, <1>29, <1>30, <1>31, <1>32, <1>33, <1>34, <1>35, <1>36, <1>37, <1>38, <1>39, <1>40,
     <1>41, <1>42, <1>43, <1>44, <1>45, <1>46, <1>47, <1>48, <1>49, <1>50, <1>51, <1>52, <1>53,
     <1>54, <1>55, <1>56
     DEF Next, Ask, Step, SignInStep, BootStep, Mishap

\* A sign-in past its look has a record to write.
SignInKnown ==
  job.op = "signin" =>
    job.at = "hold" \/ rec.known \/ (job.at = "look" /\ Undecided # {})

\* At hold and look only the steps of that name are taken.
LEMMA StepsElsewhere ==
  ASSUME Step \/ BootStep \/ FailBootKeys \/ FailErase \/ FailSweep \/ FailEnter \/ FailResume
  PROVE  \/ job.at \notin {"idle", "hold", "look"}
         \/ job.at = "hold" /\ Hold
         \/ job.at = "look" /\ (LookUndecided \/ LookNone \/ LookSame \/ LookOther)
  BY DEF Step, SignInStep, BootStep, At, Hold, LookUndecided, LookNone, LookSame, LookOther,
         Forget, Build, AddBuild, Rename, CommitSignIn, CancelSignIn, Undo, CommitSignOut,
         CancelSignOut, CommitKeep, KeptKeys, Enter, EraseFolder, ImportErase, ImportDrop,
         StageUnits, StageChats, StageMedia, StageDone, PutbackMedia, PutbackChats, PutbackDrop,
         PutbackErase, BootActive, BootKept, BootSweep, BootErase, BootImports, BootStep6,
         BootPutback, BootResume, FailBootKeys, FailErase, FailSweep, FailEnter, FailResume

\* A sign-in goes past its look only with a record that is known.
LEMMA SignInKnownStep ==
  ASSUME RecType, RunType, DiskType, JobOK, RecordOK, SignInKnown, [Next]_vars
  PROVE  SignInKnown'
<1> SUFFICES ASSUME job'.op = "signin"
             PROVE  SignInKnown'
  BY DEF SignInKnown
<1>1. CASE rec.known
  BY <1>1, KnownStays, NoJobHas DEF LoseRecord, JobOK, SignInKnown
<1>2. CASE Ask
  <2>1. CASE \E a \in Accts, add \in SUBSET Chats, e \in BOOLEAN : SignIn(a, add, e)
    BY <2>1, SignInDoes DEF Starts, SignInKnown
  <2>2. CASE \E c \in Choices : SignOut(c) \/ KeptErase(c)
    BY <2>2, SignOutDoes, KeptEraseDoes DEF Starts
  <2>3. CASE \E r \in {"signed-out", "removed", "deleted"} : Keep(r)
    BY <2>3, KeepDoes DEF Starts, Reasons
  <2>4. CASE SaveKey \/ Quit \/ \E c \in Chats : DeleteChat(c)
    BY <2>4, NoJobHas DEF SaveKey, Quit, DeleteChat, Idle, run
  <2>5. QED
    BY <1>2, <2>1, <2>2, <2>3, <2>4 DEF Ask
<1>3. CASE Start \/ Crash \/ LoseRecord \/ RestoreRecord \/ Expire
           \/ \E d \in Dirs, o \in {"foreign", "unclear"} : SpoilOwner(d, o)
  BY <1>3, StartDoes, NoJobHas
     DEF Starts, Crash, LoseRecord, RestoreRecord, Expire, SpoilOwner, run, JobOK
<1>4. CASE UNCHANGED vars
  BY <1>4 DEF vars, run, disk, SignInKnown, Undecided
<1>5. CASE ~rec.known /\ (FailStep \/ Step \/ BootStep \/ FailBootKeys \/ FailErase \/ FailSweep
                            \/ FailEnter \/ FailResume)
  <2>1. job.op \in {"signin", "idle"} /\ job.at \in {"hold", "look", "idle"}
    BY <1>5, OperationStays, NoJobHas DEF SignInKnown, JobOK
  <2>2. CASE FailStep
    BY <2>1, <2>2, FailStepDoes, NoJobHas
       DEF Rests, Starts, JobOK, StageSteps, PutbackSteps, ImportSteps
  <2>3. CASE Hold /\ job.at = "hold"
    <3>1. folder' = folder /\ staged' = staged /\ job.op = "signin"
      BY <2>1, <2>3 DEF Hold, disk, JobOK
    <3>2. QED
      BY <2>3, <3>1, HoldDoes DEF Moves, MovesTo, Writes, SignInKnown, Undecided
  <2>4. CASE job.at = "look" /\ (LookUndecided \/ LookNone \/ LookSame \/ LookOther)
    <3>1. Named(rec) = {} /\ Undecided # {}
      BY <1>5, <2>1, <2>4 DEF SignInKnown, JobOK, Named, Active, Kept
    <3>2. LookUndecided
      BY <1>5, <2>4, <3>1 DEF LookNone, LookSame, LookOther
    <3>3. QED
      BY <3>2, NoJobHas DEF LookUndecided, End
  <2>5. QED
    BY <1>5, <2>1, <2>2, <2>3, <2>4, StepsElsewhere
<1>6. QED
  BY <1>1, <1>2, <1>3, <1>4, <1>5 DEF Next, Mishap

\* A start's look at the record leaves only a folder that opens, and the
\* folders it sweeps are not the record's; This computer in is on record.
ActiveSettled ==
  /\ phase = "boot" /\ job.at # "boot.active" => \A d \in Active(rec) : Openable(d)
  /\ job.at = "boot.sweep" => job.todo \cap Named(rec) = {}
  /\ Home => Active(rec) = {}

\* How the folders the record names can change while nothing fails.
LEMMA NamesMove ==
  ASSUME RecType, RunType, DiskType, ToldType, JobOK, RecordOK, CtxOK, DirOK, SignInKnown,
         ActiveSettled, Going
  PROVE  \/ ~rec'.known
         \/ ~rec.known /\ UNCHANGED disk /\ Undecided \subseteq Named(rec')
         \/ rec.known /\ Named(rec') = Named(rec)
         \/ /\ rec.known /\ (Forget \/ CommitSignOut)
            /\ Named(rec') = Named(rec) \ {job.dir} /\ Leaving' /\ job'.dir = job.dir
         \/ rec.known /\ CommitSignIn /\ Named(rec) = {} /\ Named(rec') = {job.dir}
         \/ rec.known /\ (BootActive \/ BootKept)
<1>1. CASE Recordless
  <2>1. rec' = rec
    BY <1>1, RecordlessSame
  <2>2. QED
    BY <2>1
<1>2. CASE Hold
  <2>1. UNCHANGED disk
    BY <1>2 DEF Hold
  <2>2. job.op \in {"signin", "signout", "keep"} /\ job.at = "hold" /\ phase = "up"
    BY <1>2 DEF Hold, At, JobOK, RunType
  <2>3. ctx # Local => rec.known /\ rec.active = ctx
    BY <2>2 DEF CtxOK
  <2>4. ctx = Local => Active(rec) = {}
    <3>1. ctx = Local => job.op = "signin"
      BY <2>2, AccountsAssumption DEF CtxOK, JobOK, BootSteps
    <3>2. QED
      BY <2>2, <3>1 DEF ActiveSettled, Home
  <2>5. CASE rec' = rec
    BY <2>5
  <2>6. CASE rec.known /\ Writes(TRUE, ctx, rec.kept, rec.reason, rec.past, rec.putback, rec.erase,
                                rec.pending)
    BY <2>3, <2>4, <2>6, RecordHas DEF Writes, Named, Active, Kept
  <2>7. CASE ~rec.known /\ Undecided = {}
    BY <2>1, <2>7
  <2>8. QED
    BY <1>2, <2>3, <2>5, <2>6, <2>7, HoldDoes
<1>3. CASE LookSame
  <2>1. rec.known /\ rec.active = Local
    BY <1>3 DEF LookSame, At, JobOK, CtxOK, Named, Active, Kept
  <2>2. QED
    BY <1>3, <2>1, LookSameDoes, RecordHas, AccountsAssumption DEF Writes, Named, Active, Kept
<1>4. CASE Forget
  <2>1. rec.known /\ job.dir \in Dirs
    BY <1>4 DEF Forget, At, JobOK, BootSteps, DirOK, Named, Active, Kept
  <2>2. Named(rec') = Named(rec) \ {job.dir}
    BY <1>4, <2>1, ForgetDoes, RecordHas DEF Writes, Named, Active, Kept
  <2>3. Leaving' /\ job'.dir = job.dir
    BY <1>4, ForgetDoes DEF Moves, MovesTo, Leaving
  <2>4. QED
    BY <1>4, <2>1, <2>2, <2>3
<1>5. CASE CommitSignIn
  <2>1. rec.known /\ Named(rec) = {} /\ job.dir \in Dirs
    BY <1>5 DEF CommitSignIn, At, SignInKnown, DirOK, SignInBuilds, JobOK, BootSteps
  <2>2. Named(rec') = {job.dir}
    BY <1>5, <2>1, CommitSignInDoes, AccountsAssumption DEF Writes, Named, Active, Kept
  <2>3. QED
    BY <1>5, <2>1, <2>2
<1>6. CASE CommitSignOut
  <2>1. CASE UNCHANGED <<rec, told>>
    BY <2>1
  <2>2. CASE OnlyStaged(job.dir) # {} => job.choice # None
    <3>1. /\ job.dir \in Named(rec) /\ job.op \in {"signout", "kept-erase"} /\ job.dir \in Dirs
          /\ rec.known
          /\ job.op = "kept-erase" => rec.active = Local
      BY <1>6, RecordHas, AccountsAssumption
         DEF CommitSignOut, At, CtxOK, DirOK, JobOK, BootSteps, Named, Active, Kept
    <3>2. Named(rec) = {job.dir}
      BY <3>1, RecordHas DEF RecordOK, Named, Active, Kept
    <3>3. rec'.active = Local /\ rec'.kept = None
      BY <1>6, <2>2, <3>1, CommitSignOutDoes DEF SignsOut, Writes
    <3>4. Named(rec') = {}
      BY <3>3 DEF Named, Active, Kept
    <3>5. Leaving' /\ job'.dir = job.dir
      BY <1>6, <2>2, <3>1, CommitSignOutDoes DEF Moves, MovesTo, Leaving
    <3>6. QED
      BY <1>6, <3>1, <3>2, <3>4, <3>5
  <2>3. QED
    BY <1>6, <2>1, <2>2, CommitSignOutDoes
<1>7. CASE CommitKeep
  <2>1. rec.known /\ rec.active = job.dir /\ job.dir \in Dirs
    BY <1>7 DEF CommitKeep, At, CtxOK, JobOK, BootSteps
  <2>2. QED
    BY <1>7, <2>1, CommitKeepDoes, RecordHas, AccountsAssumption
       DEF Writes, RecordOK, Named, Active, Kept
<1>8. CASE Enter
  <2>1. IF job.op = "signin" THEN rec.known /\ rec.active = job.dir ELSE rec.active = Local
    BY <1>8 DEF Enter, At, CtxOK, JobOK, StageSteps
  <2>2. UNCHANGED disk
    BY <1>8 DEF Enter
  <2>3. CASE rec' = rec
    BY <2>3
  <2>4. CASE rec.known /\ Writes(TRUE, Entered, rec.kept, rec.reason, rec.past, rec.putback,
                                rec.erase, rec.pending)
    BY <2>1, <2>4 DEF Entered, Writes, Named, Active, Kept
  <2>5. CASE ~rec.known /\ Undecided = {}
    BY <2>2, <2>5
  <2>6. QED
    BY <1>8, <2>1, <2>3, <2>4, <2>5, EnterDoes
<1>9. CASE ImportDrop
  <2>1. rec'.known = rec.known /\ rec'.active = rec.active /\ rec'.kept = rec.kept
    BY <1>9, ImportDropDoes DEF Writes
  <2>2. QED
    BY <2>1 DEF Named, Active, Kept
<1>10. CASE StageDone
  <2>1. rec'.known = rec.known /\ rec'.active = rec.active /\ rec'.kept = rec.kept
    BY <1>10, StageDoneDoes DEF Writes
  <2>2. QED
    BY <2>1 DEF Named, Active, Kept
<1>11. CASE PutbackDrop
  <2>1. rec'.known = rec.known /\ rec'.active = rec.active /\ rec'.kept = rec.kept
    BY <1>11, PutbackDropDoes DEF Writes
  <2>2. QED
    BY <2>1 DEF Named, Active, Kept
<1>12. CASE BootImports
  <2>1. rec'.known = rec.known /\ rec'.active = rec.active /\ rec'.kept = rec.kept
    BY <1>12, BootImportsDoes DEF Writes
  <2>2. QED
    BY <2>1 DEF Named, Active, Kept
<1>13. CASE BootResume
  <2>1. UNCHANGED disk
    BY <1>13 DEF BootResume
  <2>2. CASE rec.known
    BY <1>13, <2>2, BootResumeDoes, RecordHas DEF Writes, Named, Active, Kept
  <2>3. CASE ~rec.known
    BY <1>13, <2>1, <2>3, BootResumeDoes, RecordHas, AccountsAssumption
       DEF Writes, RecordOK, Named, Active, Kept
  <2>4. QED
    BY <2>2, <2>3
<1>14. CASE BootActive
  BY <1>14, BootActiveDoes DEF Writes
<1>15. CASE BootKept
  BY <1>15, BootKeptDoes DEF Writes
<1>16. QED
  BY <1>1, <1>2, <1>3, <1>4, <1>5, <1>6, <1>7, <1>8, <1>9, <1>10, <1>11, <1>12, <1>13, <1>14,
     <1>15
     DEF Going, Step, SignInStep, BootStep, Recordless

\* A start past its look at imports/.
Late == {"boot.step6", "boot.putback", "boot.resume"} \cup StageSteps \cup PutbackSteps

\* The folder the operation is at is on its way in, or out.
Passing ==
  Leaving \/ (job.op = "signin" /\ job.at \in {"add", "rename", "commit", "undo"})

\* No start is under way, or it is past its sweep.
Swept == phase = "up" \/ (phase = "boot" /\ job.at \notin {"boot.active", "boot.kept", "boot.sweep"})

\* A start past its sweep leaves only named folders, and the one an
\* operation is building or erasing.
FoldersSettled ==
  /\ rec.known /\ job.at = "boot.sweep" =>
       \A d \in Dirs : folder[d] # "none" => d \in Named(rec) \cup job.todo
  /\ rec.known /\ Swept =>
       \A d \in Dirs : folder[d] # "none" => d \in Named(rec) \/ (d = job.dir /\ Passing)

\* The imports to erase are those the operation is about to erase.
EraseSettled ==
  /\ job.at = "boot.erase" => rec.erase \subseteq job.todo
  /\ job.op = "boot" /\ job.at \in ImportSteps => rec.erase \subseteq job.todo \cup {job.dir}
  /\ job.op = "boot" /\ job.at \in Late \cup {"boot.imports"} => rec.erase = {}
  /\ phase = "up" =>
       rec.erase \subseteq IF Leaving \/ job.at \in ImportSteps THEN {job.dir} ELSE {}

\* And so the imports to put back.
PutbackSettled ==
  /\ job.at = "boot.putback" \/ (job.op = "boot" /\ job.at = "putback.erase") =>
       rec.putback \subseteq job.todo
  /\ job.op = "boot" /\ job.at \in PutbackSteps => rec.putback \subseteq job.todo \cup {job.dir}
  /\ job.at = "boot.resume" => rec.putback = {}
  /\ phase = "up" =>
       rec.putback \subseteq
         IF (Leaving /\ job.choice = "putback") \/ job.at \in PutbackSteps \ {"putback.erase"}
         THEN {job.dir} ELSE {}

\* An Add is owed only of a folder that does not open.
AddSettled ==
  /\ ~job.owed
  /\ (\/ phase = "up" /\ job.at \notin StageSteps
      \/ job.op = "boot" /\ job.at \in {"boot.putback", "boot.resume"} \cup PutbackSteps) =>
       (rec.pending => \A d \in Target : ~Openable(d))

\* A kept folder holds no synced key.
KeysSettled ==
  rec.known /\ (\/ phase = "up" /\ job.at # "keys"
                \/ phase = "boot" /\ job.at \notin {"boot.active", "boot.kept"}) =>
    (rec.reason # "record-lost" => rec.kept \notin synced)

\* A chat waits only in an imports/ the record names.
StagedSettled ==
  rec.known /\ (phase = "up" \/ (job.op = "boot" /\ job.at \in Late)) =>
    \A d \in Dirs : \A c \in staged[d] :
      c \in chats \/ c \in unwanted \/ \E e \in Named(rec) \cup rec.putback : c \in staged[e]

SettledOK ==
  calm => /\ ActiveSettled /\ FoldersSettled /\ EraseSettled /\ PutbackSettled
          /\ AddSettled /\ KeysSettled /\ StagedSettled

\* The steps a start takes while it goes on.
LEMMA BootMoves ==
  ASSUME RunType, JobOK, Going, phase' = "boot"
  PROVE  /\ phase = "boot" /\ job.op = "boot"
         /\ \/ UNCHANGED vars \/ BootActive \/ BootKept \/ BootSweep \/ BootErase \/ BootImports
            \/ BootStep6 \/ BootPutback \/ ImportErase \/ ImportDrop
            \/ StageUnits \/ StageChats \/ StageMedia \/ StageDone
            \/ PutbackMedia \/ PutbackChats \/ PutbackDrop \/ PutbackErase
<1>1. phase = "boot" /\ ~Ask
  <2>1. CASE Ask
    BY <2>1
       DEF Ask, SignIn, SignOut, KeptErase, Keep, Begin, Idle, DeleteChat, SaveKey, Quit, run
  <2>2. CASE ~Ask
    BY <2>2
       DEF Going, Step, SignInStep, BootStep, vars, run, Same, Hold, LookUndecided, LookNone,
           LookSame, LookOther, Forget, Build, AddBuild, Rename, CommitSignIn, CancelSignIn,
           Undo, CommitSignOut, CancelSignOut, CommitKeep, KeptKeys, Enter, EraseFolder,
           ImportErase, ImportDrop, StageUnits, StageChats, StageMedia, StageDone, PutbackMedia,
           PutbackChats, PutbackDrop, PutbackErase, BootActive, BootKept, BootSweep, BootErase,
           BootImports, BootStep6, BootPutback, BootResume
  <2>3. QED
    BY <2>1, <2>2
<1>2. job.op = "boot"
  BY <1>1 DEF JobOK
<1>3. job.at \notin {"hold", "look", "forget", "build", "add", "rename", "undo", "commit", "keys",
                     "enter", "erase.folder"}
  BY <1>2 DEF JobOK
<1>4. ~(Hold \/ SignInStep \/ CommitSignOut \/ CancelSignOut \/ CommitKeep \/ KeptKeys \/ Enter \/ EraseFolder)
  BY <1>3
     DEF Hold, SignInStep, LookUndecided, LookNone, LookSame, LookOther, Forget, Build,
         AddBuild, Rename, CommitSignIn, CancelSignIn, Undo, CommitSignOut, CancelSignOut,
         CommitKeep, KeptKeys, Enter, EraseFolder, At
<1>5. ~BootResume
  BY DEF BootResume
<1>6. QED
  BY <1>1, <1>2, <1>4, <1>5 DEF Going, Step, BootStep

\* The app comes up only at the end of a start.
LEMMA UpMoves ==
  ASSUME RunType, JobOK, Going, phase' = "up"
  PROVE  phase = "up" \/ (phase = "boot" /\ job.op = "boot" /\ job.at = "boot.resume" /\ BootResume)
<1>1. CASE BootResume
  BY <1>1 DEF BootResume, At, JobOK, RunType
<1>2. CASE ~BootResume
  BY <1>2
     DEF Going, Ask, SignIn, SignOut, KeptErase, Keep, Begin, Idle, DeleteChat, SaveKey, Quit,
         Step, SignInStep, BootStep, vars, run, Same, Hold, LookUndecided, LookNone, LookSame,
         LookOther, Forget, Build, AddBuild, Rename, CommitSignIn, CancelSignIn, Undo,
         CommitSignOut, CancelSignOut, CommitKeep, KeptKeys, Enter, EraseFolder, ImportErase,
         ImportDrop, StageUnits, StageChats, StageMedia, StageDone, PutbackMedia, PutbackChats,
         PutbackDrop, PutbackErase, BootActive, BootKept, BootSweep, BootErase, BootImports,
         BootStep6, BootPutback
<1>3. QED
  BY <1>1, <1>2

\* The sweep is entered with its list, and goes through it.
LEMMA SweepFrom ==
  ASSUME RecType, RunType, JobOK, JobOK', Going, job'.at = "boot.sweep"
  PROVE  phase' = "boot" /\ (UNCHANGED vars \/ BootKept \/ BootSweep)
<1>1. phase' = "boot"
  BY DEF JobOK, BootSteps
<1>2. CASE BootActive
  BY <1>2, BootActiveDoes DEF Moves, MovesTo
<1>3. CASE StageMedia \/ PutbackMedia
  BY <1>3, StageMediaDoes, PutbackMediaDoes DEF StageMedia, PutbackMedia, At, Moves, MovesTo
<1>4. CASE BootErase \/ BootImports \/ BootStep6 \/ BootPutback \/ ImportErase \/ ImportDrop
  BY <1>1, <1>4, BootEraseDoes, BootImportsDoes, BootStep6Does, BootPutbackDoes,
     ImportEraseDoes, ImportDropDoes
     DEF Moves, MovesTo, Rests, Starts
<1>5. CASE StageUnits \/ StageChats \/ StageDone \/ PutbackChats \/ PutbackDrop \/ PutbackErase
  BY <1>1, <1>5, StageUnitsDoes, StageChatsDoes, StageDoneDoes, PutbackChatsDoes,
     PutbackDropDoes, PutbackEraseDoes
     DEF Moves, MovesTo, Rests, Starts
<1>6. QED
  BY <1>1, <1>2, <1>3, <1>4, <1>5, BootMoves

\* And is left only when the list is empty.
LEMMA SweptFrom ==
  ASSUME RecType, RunType, JobOK, JobOK', Going, phase' # "down", Swept'
  PROVE  Swept \/ (BootSweep /\ job.at = "boot.sweep" /\ job.todo = {} /\ UNCHANGED disk)
<1>1. CASE phase' = "up"
  BY <1>1, UpMoves DEF Swept
<1>2. CASE phase' = "boot"
  <2>1. phase = "boot" /\ job.op = "boot"
    BY <1>2, BootMoves
  <2>2. job'.at \notin {"boot.active", "boot.kept", "boot.sweep"}
    BY <1>2 DEF Swept
  <2>3. CASE BootActive \/ BootKept
    BY <2>2, <2>3, BootActiveDoes, BootKeptDoes DEF Moves, MovesTo
  <2>4. CASE BootSweep
    BY <2>2, <2>4, BootSweepDoes DEF MovesTo, BootSweep, At
  <2>5. CASE UNCHANGED vars
    BY <2>1, <2>2, <2>5 DEF vars, run, Swept
  <2>6. CASE BootErase \/ BootImports \/ BootStep6 \/ BootPutback \/ ImportErase \/ ImportDrop
    BY <2>1, <2>6
       DEF BootErase, BootImports, BootStep6, BootPutback, ImportErase, ImportDrop, At, Swept
  <2>7. CASE \/ StageUnits \/ StageChats \/ StageMedia \/ StageDone
             \/ PutbackMedia \/ PutbackChats \/ PutbackDrop \/ PutbackErase
    BY <2>1, <2>7
       DEF StageUnits, StageChats, StageMedia, StageDone, PutbackMedia, PutbackChats,
           PutbackDrop, PutbackErase, At, Swept
  <2>8. QED
    BY <1>2, <2>3, <2>4, <2>5, <2>6, <2>7, BootMoves
<1>3. QED
  BY <1>1, <1>2 DEF Swept

\* What a start has settled of the active folder stays so.
LEMMA ActiveSettledStep ==
  ASSUME RecType, RunType, DiskType, ToldType, JobOK, RecordOK, CtxOK, DirOK, RecordOK', JobOK',
         OwnedOK, ActiveSettled, Going, phase' # "down"
  PROVE  ActiveSettled'
<1>1. ASSUME phase' = "boot", job'.at # "boot.active", NEW d \in Active(rec')
      PROVE  Openable(d)'
  <2>1. phase = "boot" /\ job.op = "boot"
    BY <1>1, BootMoves
  <2>2. CASE BootActive
    <3>1. /\ rec' = rec /\ d \in Dirs
          /\ folder[d] = "there" /\ ~OwnerFails(d) /\ (d \in key \/ rec.kept # None)
          /\ rec.active # Local
      BY <1>1, <2>2, BootActiveDoes, RecordHas, AccountsAssumption DEF Writes, Active
    <3>2. d \in key /\ owner[d] = "ok"
      BY <3>1 DEF RecordOK, OwnedOK, OwnerFails, DiskType
    <3>3. UNCHANGED <<folder, owner, key>>
      BY <2>2, FolderlessSame DEF Folderless
    <3>4. QED
      BY <3>1, <3>2, <3>3 DEF Openable
  <2>3. CASE BootKept
    <3>1. d \in Active(rec) /\ Openable(d)
      BY <1>1, <2>1, <2>3, BootKeptDoes, RecordHas
         DEF Writes, Active, ActiveSettled, BootKept, At
    <3>2. UNCHANGED <<folder, owner, key>>
      BY <2>3, FolderlessSame DEF Folderless
    <3>3. QED
      BY <3>1, <3>2 DEF Openable
  <2>4. CASE BootSweep
    <3>1. rec' = rec /\ Openable(d) /\ d \notin job.todo
      BY <1>1, <2>1, <2>4 DEF BootSweep, At, ActiveSettled, Named
    <3>2. CASE UNCHANGED disk
      BY <3>1, <3>2 DEF disk, Openable
    <3>3. CASE \E e \in job.todo : Gone(e)
      <4>1. d \in Dirs
        BY <1>1, <3>1, RecordHas DEF Active
      <4>2. PICK e \in job.todo : Gone(e)
        BY <3>3
      <4>3. e \in Dirs /\ d # e
        BY <3>1, JobHas
      <4>4. QED
        BY <3>1, <4>1, <4>2, <4>3, GoneDoes DEF Openable
    <3>4. QED
      BY <2>4, <3>2, <3>3, BootSweepDoes
  <2>5. CASE ~(BootActive \/ BootKept \/ BootSweep)
    <3>1. UNCHANGED <<folder, owner, key>>
      BY <1>1, <2>5, BootMoves, FolderlessSame DEF Folderless
    <3>2. rec'.known = rec.known /\ rec'.active = rec.active
      BY <1>1, <2>5, BootMoves, RecordlessSame, BootImportsDoes, ImportDropDoes, StageDoneDoes,
         PutbackDropDoes
         DEF Recordless, Writes
    <3>3. job.at # "boot.active"
      <4>1. CASE UNCHANGED vars
        BY <1>1, <4>1 DEF vars, run
      <4>2. CASE ~UNCHANGED vars
        BY <1>1, <2>5, <4>2, BootMoves
           DEF At, BootErase, BootImports, BootStep6, BootPutback, ImportErase, ImportDrop,
               StageUnits, StageChats, StageMedia, StageDone, PutbackMedia, PutbackChats,
               PutbackDrop, PutbackErase
      <4>3. QED
        BY <4>1, <4>2
    <3>4. QED
      BY <1>1, <2>1, <3>1, <3>2, <3>3 DEF ActiveSettled, Active, Openable
  <2>6. QED
    BY <2>2, <2>3, <2>4, <2>5
<1>2. ASSUME job'.at = "boot.sweep"
      PROVE  job'.todo \cap Named(rec') = {}
  <2>1. CASE UNCHANGED vars
    BY <1>2, <2>1 DEF vars, run, ActiveSettled, Named, Active, Kept
  <2>2. CASE BootKept
    BY <2>2, BootKeptDoes DEF MovesTo, Unnamed, RecordOK, Named, Active, Kept
  <2>3. CASE BootSweep
    <3>1. rec' = rec /\ job.at = "boot.sweep"
      BY <2>3 DEF BootSweep, At
    <3>2. job'.todo \subseteq job.todo
      BY <1>2, <2>3, BootSweepDoes, StepNames DEF MovesTo
    <3>3. QED
      BY <3>1, <3>2 DEF ActiveSettled
  <2>4. QED
    BY <1>2, <2>1, <2>2, <2>3, SweepFrom
<1>3. ASSUME Home'
      PROVE  Active(rec') = {}
  <2>1. [Next]_vars /\ phase' = "up"
    BY <1>3 DEF Going, Next, Home
  <2>2. CASE Home /\ rec' = rec
    BY <2>2 DEF ActiveSettled
  <2>3. CASE BootResume \/ FailResume
    <3>1. BootResume /\ job.at = "boot.resume" /\ phase = "boot"
      BY <2>1, <2>3, UpMoves DEF BootResume, FailResume, At, JobOK, BootSteps
    <3>2. QED
      BY <1>3, <3>1, ResumesHome DEF ActiveSettled
  <2>4. QED
    BY <1>3, <2>1, <2>2, <2>3, ComesHome
<1>4. QED
  BY <1>1, <1>2, <1>3 DEF ActiveSettled

\* The steps taken while a folder is on its way in or out.
LEMMA PassingOn ==
  ASSUME RunType, JobOK, Going, Passing
  PROVE  \/ UNCHANGED vars \/ AddBuild \/ Rename \/ CancelSignIn \/ CommitSignIn \/ Undo
         \/ Enter \/ EraseFolder
<1>1. ~Ask
  BY NoJobHas
     DEF Ask, SignIn, SignOut, KeptErase, Keep, Begin, Idle, DeleteChat, SaveKey, Quit, Passing,
         Leaving
<1>2. ~BootStep
  BY DEF BootStep, BootActive, BootKept, BootSweep, BootErase, BootImports, BootStep6,
         BootPutback, BootResume, At, Passing, Leaving
<1>3. ~(Hold \/ LookUndecided \/ LookNone \/ LookSame \/ LookOther \/ Forget \/ Build
        \/ CommitSignOut \/ CancelSignOut \/ CommitKeep \/ KeptKeys)
  BY DEF Hold, LookUndecided, LookNone, LookSame, LookOther, Forget, Build, CommitSignOut,
         CancelSignOut, CommitKeep, KeptKeys, At, Passing, Leaving
<1>4. ~(\/ ImportErase \/ ImportDrop \/ StageUnits \/ StageChats \/ StageMedia \/ StageDone
        \/ PutbackMedia \/ PutbackChats \/ PutbackDrop \/ PutbackErase)
  BY DEF ImportErase, ImportDrop, StageUnits, StageChats, StageMedia, StageDone, PutbackMedia,
         PutbackChats, PutbackDrop, PutbackErase, At, Passing, Leaving
<1>5. QED
  BY <1>1, <1>2, <1>3, <1>4 DEF Going, Step, SignInStep

\* Where a step can leave an account folder that was not there, or take one.
LEMMA FolderMoves ==
  ASSUME RecType, RunType, DiskType, ToldType, JobOK, RecordOK, CtxOK, DirOK, Going,
         NEW d \in Dirs, folder'[d] # "none"
  PROVE  \/ folder[d] # "none"
         \/ d = job.dir /\ (Build \/ Rename)
<1>1. CASE Folderless
  BY <1>1, FolderlessSame
<1>2. CASE Build \/ Rename
  BY <1>2 DEF Build, Rename, DiskType
<1>3. CASE Undo \/ EraseFolder
  <2>1. job.dir \in Dirs /\ Gone(job.dir)
    BY <1>3 DEF Undo, EraseFolder, At, JobOK, BootSteps
  <2>2. QED
    BY <2>1, GoneDoes
<1>4. CASE BootSweep
  BY <1>4, BootSweepDoes, GoneDoes, JobHas DEF disk
<1>5. QED
  BY <1>1, <1>2, <1>3, <1>4 DEF Going, Step, SignInStep, BootStep, Folderless

\* They go on with it until the record names it or it is gone.
LEMMA PassingLast ==
  ASSUME RecType, RunType, DiskType, ToldType, JobOK, RecordOK, CtxOK, DirOK,
         CommitSignIn => FALSE, Going, Passing,
         folder[job.dir] # "none", folder'[job.dir] # "none"
  PROVE  Passing' /\ job'.dir = job.dir
<1>1. CASE UNCHANGED vars
  BY <1>1 DEF vars, run, Passing, Leaving
<1>2. CASE AddBuild
  BY <1>2, AddBuildDoes DEF Starts, Passing
<1>3. CASE Rename
  BY <1>3, RenameDoes DEF Rename, At, JobOK, Moves, MovesTo, Passing
<1>4. CASE CancelSignIn
  BY <1>4, CancelSignInDoes DEF CancelSignIn, At, JobOK, Moves, MovesTo, Passing
<1>5. CASE Undo \/ EraseFolder
  <2>1. job.dir \in Dirs /\ Gone(job.dir)
    BY <1>5 DEF Undo, EraseFolder, At, JobOK, BootSteps
  <2>2. QED
    BY <2>1, GoneDoes
<1>6. CASE Enter
  <2>1. job.op = "signout"
    BY <1>6 DEF Enter, At, Passing, Leaving
  <2>2. QED
    BY <1>6, <2>1, EnterDoes DEF Moves, MovesTo, Passing, Leaving
<1>7. QED
  BY <1>1, <1>2, <1>3, <1>4, <1>5, <1>6, PassingOn

\* No folder stays behind that nobody names.
LEMMA FoldersSettledStep ==
  ASSUME RecType, RunType, DiskType, ToldType, JobOK, RecordOK, CtxOK, DirOK, JobOK',
         SignInKnown, ActiveSettled, FoldersSettled, Going, phase' # "down"
  PROVE  FoldersSettled'
<1>1. ASSUME rec'.known, job'.at = "boot.sweep", NEW d \in Dirs, folder'[d] # "none"
      PROVE  d \in Named(rec') \cup job'.todo
  <2>1. CASE UNCHANGED vars
    BY <1>1, <2>1 DEF vars, disk, run, FoldersSettled, Named, Active, Kept
  <2>2. CASE BootKept
    <3>1. folder' = folder
      BY <2>2, FolderlessSame DEF Folderless
    <3>2. job'.todo = Unnamed(rec')
      BY <2>2, BootKeptDoes DEF MovesTo
    <3>3. QED
      BY <1>1, <3>1, <3>2 DEF Unnamed
  <2>3. CASE BootSweep
    <3>1. rec' = rec /\ job.at = "boot.sweep"
      BY <2>3 DEF BootSweep, At
    <3>2. PICK e \in job.todo : Gone(e) /\ job'.todo = job.todo \ {e}
      BY <1>1, <2>3, BootSweepDoes DEF MovesTo
    <3>3. e \in Dirs
      BY <3>2, JobHas
    <3>4. d # e /\ folder[d] # "none"
      BY <1>1, <3>2, <3>3, GoneDoes
    <3>5. QED
      BY <1>1, <3>1, <3>2, <3>4 DEF FoldersSettled
  <2>4. QED
    BY <1>1, <2>1, <2>2, <2>3, SweepFrom
<1>2. ASSUME rec'.known, Swept', NEW d \in Dirs, folder'[d] # "none"
      PROVE  d \in Named(rec') \/ (d = job'.dir /\ Passing')
  <2>1. CASE ~rec.known /\ UNCHANGED disk /\ Undecided \subseteq Named(rec')
    BY <1>2, <2>1 DEF disk, Undecided
  <2>2. CASE rec.known /\ (BootActive \/ BootKept)
    BY <1>2, <2>2, BootActiveDoes, BootKeptDoes
       DEF Moves, MovesTo, Swept, BootActive, BootKept, At, JobOK, Same, BootSteps
  <2>3. ASSUME rec.known, ~(BootActive \/ BootKept), folder[d] # "none"
        PROVE  d \in Named(rec) \/ (d = job.dir /\ Passing)
    <3>1. CASE Swept
      BY <2>3, <3>1 DEF FoldersSettled
    <3>2. CASE job.at = "boot.sweep" /\ job.todo = {}
      BY <2>3, <3>2 DEF FoldersSettled
    <3>3. QED
      BY <1>2, <3>1, <3>2, SweptFrom
  <2>4. CASE rec.known /\ Named(rec') = Named(rec) /\ ~(CommitSignIn \/ BootActive \/ BootKept)
    <3>1. CASE folder[d] # "none"
      <4>1. d \in Named(rec) \/ (d = job.dir /\ Passing)
        BY <2>3, <2>4, <3>1
      <4>2. QED
        BY <1>2, <2>4, <3>1, <4>1, PassingLast
    <3>2. CASE d = job.dir /\ (Build \/ Rename)
      BY <3>2, BuildDoes, RenameDoes DEF Build, Rename, At, JobOK, Moves, MovesTo, Passing
    <3>3. QED
      BY <1>2, <3>1, <3>2, FolderMoves
  <2>5. CASE /\ rec.known /\ (Forget \/ CommitSignOut)
             /\ Named(rec') = Named(rec) \ {job.dir} /\ Leaving' /\ job'.dir = job.dir
    <3>1. folder' = folder /\ ~Passing /\ ~(BootActive \/ BootKept)
      BY <2>5, FolderlessSame
         DEF Folderless, Forget, CommitSignOut, BootActive, BootKept, At, JobOK, Passing,
             Leaving
    <3>2. d \in Named(rec)
      BY <1>2, <2>2, <2>3, <2>5, <3>1
    <3>3. QED
      BY <2>5, <3>2 DEF Passing
  <2>6. CASE rec.known /\ CommitSignIn /\ Named(rec) = {} /\ Named(rec') = {job.dir}
    <3>1. folder' = folder
      BY <2>6, FolderlessSame DEF Folderless
    <3>2. QED
      BY <1>2, <2>2, <2>3, <2>6, <3>1
  <2>7. ~(CommitSignIn /\ Named(rec') = Named(rec))
    <3>1. SUFFICES ASSUME CommitSignIn PROVE Named(rec') # Named(rec)
      OBVIOUS
    <3>2. Named(rec) = {} /\ job.dir \in Dirs
      BY <3>1 DEF CommitSignIn, At, DirOK, SignInBuilds, JobOK, BootSteps
    <3>3. job.dir \in Named(rec')
      BY <3>1, <3>2, CommitSignInDoes, AccountsAssumption DEF Writes, Named, Active, Kept
    <3>4. QED
      BY <3>2, <3>3
  <2>8. QED
    BY <1>2, <2>1, <2>2, <2>4, <2>5, <2>6, <2>7, NamesMove
<1>3. QED
  BY <1>1, <1>2 DEF FoldersSettled

\* An erasing, a put-back and a staging are each gone through step by step.
LEMMA ListsOn ==
  ASSUME RunType, JobOK, Going
  PROVE  /\ job.at \in ImportSteps => UNCHANGED vars \/ ImportErase \/ ImportDrop
         /\ job.at \in PutbackSteps =>
              \/ UNCHANGED vars \/ PutbackMedia \/ PutbackChats \/ PutbackDrop \/ PutbackErase
         /\ job.at \in StageSteps =>
              \/ UNCHANGED vars \/ StageUnits \/ StageChats \/ StageMedia \/ StageDone
<1> SUFFICES ASSUME job.at \in ImportSteps \cup PutbackSteps \cup StageSteps
             PROVE  /\ job.at \in ImportSteps => UNCHANGED vars \/ ImportErase \/ ImportDrop
                    /\ job.at \in PutbackSteps =>
                         \/ UNCHANGED vars \/ PutbackMedia \/ PutbackChats \/ PutbackDrop \/ PutbackErase
                    /\ job.at \in StageSteps =>
                         \/ UNCHANGED vars \/ StageUnits \/ StageChats \/ StageMedia \/ StageDone
  OBVIOUS
<1>1. ~Ask
  BY NoJobHas
     DEF Ask, SignIn, SignOut, KeptErase, Keep, Begin, Idle, DeleteChat, SaveKey, Quit,
         ImportSteps, PutbackSteps, StageSteps
<1>2. ~BootStep
  BY DEF BootStep, BootActive, BootKept, BootSweep, BootErase, BootImports, BootStep6,
         BootPutback, BootResume, At, ImportSteps, PutbackSteps, StageSteps
<1>3. ~(Hold \/ SignInStep \/ CommitSignOut \/ CancelSignOut \/ CommitKeep \/ KeptKeys \/ Enter \/ EraseFolder)
  BY DEF Hold, SignInStep, LookUndecided, LookNone, LookSame, LookOther, Forget, Build,
         AddBuild, Rename, CommitSignIn, CancelSignIn, Undo, CommitSignOut, CancelSignOut,
         CommitKeep, KeptKeys, Enter, EraseFolder, At, ImportSteps, PutbackSteps, StageSteps
<1>4. QED
  BY <1>1, <1>2, <1>3
     DEF Going, Step, ImportErase, ImportDrop, StageUnits, StageChats, StageMedia, StageDone,
         PutbackMedia, PutbackChats, PutbackDrop, PutbackErase, At, ImportSteps, PutbackSteps,
         StageSteps

\* No import stays on the list to erase.
LEMMA EraseSettledStep ==
  ASSUME RecType, RunType, DiskType, ToldType, JobOK, RecordOK, CtxOK, DirOK, JobOK',
         EraseSettled, Going, phase' # "down"
  PROVE  EraseSettled'
<1>1. [Next]_vars
  BY DEF Going, Next
<1>2. CASE phase' = "boot"
  <2> SUFFICES /\ job'.at = "boot.erase" => rec'.erase \subseteq job'.todo
               /\ job'.at \in ImportSteps => rec'.erase \subseteq job'.todo \cup {job'.dir}
               /\ job'.at \in Late \cup {"boot.imports"} => rec'.erase = {}
    BY <1>2 DEF EraseSettled
  <2>1. phase = "boot" /\ job.op = "boot"
    BY <1>2, BootMoves
  <2>2. CASE BootActive \/ BootKept
    BY <2>2, BootActiveDoes, BootKeptDoes
       DEF Moves, MovesTo, Late, ImportSteps, StageSteps, PutbackSteps
  <2>3. CASE BootSweep
    <3>1. rec' = rec
      BY <2>3, RecordlessSame DEF Recordless
    <3>2. QED
      BY <2>3, <3>1, BootSweepDoes DEF MovesTo, Late, ImportSteps, StageSteps, PutbackSteps
  <2>4. CASE BootErase
    <3>1. rec' = rec /\ job.at = "boot.erase"
      BY <2>4, RecordlessSame DEF Recordless, BootErase, At
    <3>2. QED
      BY <2>4, <3>1, BootEraseDoes
         DEF EraseSettled, Moves, MovesTo, Late, ImportSteps, StageSteps, PutbackSteps
  <2>5. CASE ImportErase
    <3>1. rec' = rec /\ job.at = "import.erase"
      BY <2>5, RecordlessSame DEF Recordless, ImportErase, At
    <3>2. QED
      BY <2>1, <2>5, <3>1, ImportEraseDoes
         DEF EraseSettled, Moves, MovesTo, Late, ImportSteps, StageSteps, PutbackSteps
  <2>6. CASE ImportDrop
    <3>1. rec'.erase = rec.erase \ {job.dir} /\ job.at = "import.drop"
      BY <2>6, ImportDropDoes DEF Writes, ImportDrop, At
    <3>2. QED
      BY <2>1, <2>6, <3>1, ImportDropDoes
         DEF EraseSettled, Moves, MovesTo, Late, ImportSteps, StageSteps, PutbackSteps
  <2>7. CASE UNCHANGED vars
    BY <2>1, <2>7 DEF vars, run, EraseSettled
  <2>8. CASE \/ BootImports \/ BootStep6 \/ BootPutback \/ StageUnits \/ StageChats \/ StageMedia \/ StageDone
             \/ PutbackMedia \/ PutbackChats \/ PutbackDrop \/ PutbackErase
    <3>1. rec'.erase = rec.erase
      BY <1>1, <2>8, EraseList
         DEF BootImports, BootStep6, BootPutback, StageUnits, StageChats, StageMedia, StageDone,
             PutbackMedia, PutbackChats, PutbackDrop, PutbackErase, Forget, CommitSignOut,
             ImportDrop, LoseRecord, RestoreRecord, At
    <3>2. job.at \in Late \cup {"boot.imports"}
      BY <2>8
         DEF BootImports, BootStep6, BootPutback, StageUnits, StageChats, StageMedia, StageDone,
             PutbackMedia, PutbackChats, PutbackDrop, PutbackErase, At, Late, StageSteps,
             PutbackSteps
    <3>3. rec'.erase = {}
      BY <2>1, <3>1, <3>2 DEF EraseSettled
    <3>4. QED
      BY <3>3
  <2>9. QED
    BY <1>2, <2>2, <2>3, <2>4, <2>5, <2>6, <2>7, <2>8, BootMoves
<1>3. CASE phase' = "up"
  <2> SUFFICES rec'.erase \subseteq IF Leaving' \/ job'.at \in ImportSteps THEN {job'.dir} ELSE {}
    BY <1>3 DEF EraseSettled, JobOK, BootSteps
  <2>1. CASE BootResume
    <3>1. rec.erase = {} /\ rec'.erase = rec.erase
      BY <2>1, BootResumeDoes DEF BootResume, At, EraseSettled, Late, JobOK, BootSteps, Writes
    <3>2. QED
      BY <3>1
  <2>2. CASE phase = "up" /\ Leaving
    <3>1. rec.erase \subseteq {job.dir}
      BY <2>2 DEF EraseSettled
    <3>2. CASE UNCHANGED vars
      BY <2>2, <3>1, <3>2 DEF vars, run, Leaving
    <3>3. CASE Enter
      <4>1. rec'.erase = rec.erase
        BY <3>3, EnterDoes DEF Writes
      <4>2. Leaving' /\ job'.dir = job.dir
        BY <2>2, <3>3, EnterDoes DEF Leaving, Enter, At, Moves, MovesTo
      <4>3. QED
        BY <3>1, <4>1, <4>2
    <3>4. CASE EraseFolder
      <4>1. rec' = rec /\ job.at = "erase.folder"
        BY <3>4 DEF EraseFolder, At
      <4>2. job.choice = "putback" => rec.erase = {}
        BY <3>1, <4>1 DEF DirOK, RecType
      <4>3. QED
        BY <3>1, <3>4, <4>1, <4>2, EraseFolderDoes DEF Moves, MovesTo, ImportSteps
    <3>5. ~(AddBuild \/ Rename \/ CancelSignIn \/ CommitSignIn \/ Undo)
      BY <2>2 DEF Leaving, AddBuild, Rename, CancelSignIn, CommitSignIn, Undo, At
    <3>6. QED
      BY <2>2, <3>2, <3>3, <3>4, <3>5, PassingOn DEF Passing
  <2>3. CASE phase = "up" /\ job.at \in ImportSteps
    <3>1. rec.erase \subseteq {job.dir}
      BY <2>3 DEF EraseSettled
    <3>2. CASE UNCHANGED vars
      BY <2>3, <3>1, <3>2 DEF vars, run
    <3>3. CASE ImportErase
      BY <3>1, <3>3, ImportEraseDoes DEF ImportErase, Moves, MovesTo, ImportSteps
    <3>4. CASE ImportDrop
      <4>1. rec'.erase = {}
        BY <3>1, <3>4, ImportDropDoes DEF Writes
      <4>2. QED
        BY <4>1
    <3>5. QED
      BY <2>3, <3>2, <3>3, <3>4, ListsOn
  <2>4. CASE phase = "up" /\ ~Leaving /\ job.at \notin ImportSteps
    <3>1. rec.erase = {}
      BY <2>4 DEF EraseSettled
    <3>2. CASE Forget
      BY <3>1, <3>2, ForgetDoes DEF Writes, Moves, MovesTo, Leaving
    <3>3. CASE CommitSignOut
      <4>1. CASE UNCHANGED <<rec, told>>
        BY <3>1, <4>1
      <4>2. CASE OnlyStaged(job.dir) # {} => job.choice # None
        BY <3>1, <3>3, <4>2, CommitSignOutDoes
           DEF CommitSignOut, SignsOut, Writes, Moves, MovesTo, Leaving
      <4>3. QED
        BY <3>3, <4>1, <4>2, CommitSignOutDoes
    <3>4. CASE rec'.erase = rec.erase
      BY <3>1, <3>4
    <3>5. QED
      BY <1>1, <1>3, <2>4, <3>2, <3>3, <3>4, EraseList
         DEF ImportDrop, At, ImportSteps, LoseRecord, RestoreRecord
  <2>5. QED
    BY <1>3, <2>1, <2>2, <2>3, <2>4, UpMoves
<1>4. QED
  BY <1>2, <1>3 DEF EraseSettled, JobOK, BootSteps

\* Only these steps change the list of imports to put back, while nothing fails.
LEMMA PutbackList ==
  ASSUME RecType, RunType, JobOK, RecordOK, Going
  PROVE  \/ Forget \/ CommitSignOut \/ PutbackDrop \/ BootActive \/ BootKept \/ BootImports
         \/ rec'.putback = rec.putback
<1>1. CASE Recordless
  BY <1>1, RecordlessSame
<1>2. CASE Hold
  BY <1>2, HoldDoes, RecordHas DEF Writes
<1>3. CASE LookSame
  BY <1>3, LookSameDoes, RecordHas DEF Writes
<1>4. CASE CommitSignIn
  BY <1>4, CommitSignInDoes, RecordHas DEF Writes
<1>5. CASE CommitKeep
  BY <1>5, CommitKeepDoes, RecordHas DEF Writes
<1>6. CASE Enter
  BY <1>6, EnterDoes, RecordHas DEF Writes
<1>7. CASE ImportDrop
  BY <1>7, ImportDropDoes, RecordHas DEF Writes
<1>8. CASE StageDone
  BY <1>8, StageDoneDoes, RecordHas DEF Writes
<1>9. CASE BootResume
  BY <1>9, BootResumeDoes, RecordHas DEF Writes
<1>10. QED
  BY <1>1, <1>2, <1>3, <1>4, <1>5, <1>6, <1>7, <1>8, <1>9
     DEF Going, Step, SignInStep, BootStep, Recordless

\* No import stays on the list to put back.
LEMMA PutbackSettledStep ==
  ASSUME RecType, RunType, DiskType, ToldType, JobOK, RecordOK, CtxOK, DirOK, JobOK',
         PutbackSettled, Going, phase' # "down"
  PROVE  PutbackSettled'
<1>1. CASE phase' = "boot"
  <2> SUFFICES /\ job'.at = "boot.putback" \/ job'.at = "putback.erase" => rec'.putback \subseteq job'.todo
               /\ job'.at \in PutbackSteps => rec'.putback \subseteq job'.todo \cup {job'.dir}
               /\ job'.at = "boot.resume" => rec'.putback = {}
    BY <1>1 DEF PutbackSettled
  <2>1. phase = "boot" /\ job.op = "boot"
    BY <1>1, BootMoves
  <2>2. CASE BootActive \/ BootKept \/ BootImports
    BY <2>2, BootActiveDoes, BootKeptDoes, BootImportsDoes DEF Moves, MovesTo, PutbackSteps
  <2>3. CASE BootSweep \/ BootErase \/ ImportErase \/ ImportDrop
    BY <2>1, <2>3, BootSweepDoes, BootEraseDoes, ImportEraseDoes, ImportDropDoes
       DEF Moves, MovesTo, PutbackSteps
  <2>4. CASE StageUnits \/ StageChats \/ StageMedia
    BY <2>4, StageUnitsDoes, StageChatsDoes, StageMediaDoes
       DEF StageMedia, At, Moves, MovesTo, PutbackSteps
  <2>5. CASE BootStep6
    <3>1. rec' = rec
      BY <2>5, RecordlessSame DEF Recordless
    <3>2. QED
      BY <2>5, <3>1, BootStep6Does DEF MovesTo, PutbackSteps
  <2>6. CASE StageDone
    BY <2>1, <2>6, StageDoneDoes DEF Writes, MovesTo, PutbackSteps
  <2>7. CASE BootPutback
    <3>1. rec' = rec /\ job.at = "boot.putback"
      BY <2>7, RecordlessSame DEF Recordless, BootPutback, At
    <3>2. QED
      BY <2>7, <3>1, BootPutbackDoes DEF PutbackSettled, Moves, MovesTo, PutbackSteps
  <2>8. CASE PutbackMedia \/ PutbackChats
    <3>1. rec' = rec /\ job.at \in {"putback.media", "putback.chats"}
      BY <2>8, RecordlessSame DEF Recordless, PutbackMedia, PutbackChats, At
    <3>2. job' = job \/ Moves("putback.chats") \/ Moves("putback.drop")
      BY <2>8, PutbackMediaDoes, PutbackChatsDoes
    <3>3. QED
      BY <2>1, <3>1, <3>2 DEF PutbackSettled, Moves, MovesTo, PutbackSteps
  <2>9. CASE PutbackDrop
    <3>1. rec'.putback = rec.putback \ {job.dir} /\ job.at = "putback.drop"
      BY <2>9, PutbackDropDoes DEF Writes, PutbackDrop, At
    <3>2. QED
      BY <2>1, <2>9, <3>1, PutbackDropDoes DEF PutbackSettled, Moves, MovesTo, PutbackSteps
  <2>10. CASE PutbackErase
    <3>1. rec' = rec /\ job.at = "putback.erase"
      BY <2>10, RecordlessSame DEF Recordless, PutbackErase, At
    <3>2. QED
      BY <2>1, <2>10, <3>1, PutbackEraseDoes DEF PutbackSettled, Moves, MovesTo, PutbackSteps
  <2>11. CASE UNCHANGED vars
    BY <2>1, <2>11 DEF vars, run, PutbackSettled
  <2>12. QED
    BY <1>1, <2>2, <2>3, <2>4, <2>5, <2>6, <2>7, <2>8, <2>9, <2>10, <2>11, BootMoves
<1>2. CASE phase' = "up"
  <2> DEFINE W == (Leaving /\ job.choice = "putback") \/ job.at \in PutbackSteps \ {"putback.erase"}
  <2> SUFFICES rec'.putback \subseteq IF W' THEN {job'.dir} ELSE {}
    BY <1>2 DEF PutbackSettled, JobOK, BootSteps
  <2>1. CASE BootResume
    <3>1. rec.putback = {} /\ rec'.putback = rec.putback
      BY <2>1, BootResumeDoes DEF BootResume, At, PutbackSettled, Writes
    <3>2. QED
      BY <3>1
  <2>2. phase = "up" => rec.putback \subseteq IF W THEN {job.dir} ELSE {}
    BY DEF PutbackSettled
  <2>3. CASE phase = "up" /\ Leaving /\ job.choice = "putback"
    <3>1. CASE UNCHANGED vars
      BY <2>2, <2>3, <3>1 DEF vars, run, Leaving
    <3>2. CASE Enter
      <4>1. rec'.putback = rec.putback
        BY <3>2, EnterDoes DEF Writes
      <4>2. W' /\ job'.dir = job.dir
        BY <2>3, <3>2, EnterDoes DEF Leaving, Enter, At, Moves, MovesTo
      <4>3. QED
        BY <2>2, <2>3, <4>1, <4>2
    <3>3. CASE EraseFolder
      <4>1. rec' = rec
        BY <3>3 DEF EraseFolder
      <4>2. W' /\ job'.dir = job.dir
        BY <2>3, <3>3, EraseFolderDoes DEF Moves, MovesTo, PutbackSteps
      <4>3. QED
        BY <2>2, <2>3, <4>1, <4>2
    <3>4. ~(AddBuild \/ Rename \/ CancelSignIn \/ CommitSignIn \/ Undo)
      BY <2>3 DEF Leaving, AddBuild, Rename, CancelSignIn, CommitSignIn, Undo, At
    <3>5. QED
      BY <2>3, <3>1, <3>2, <3>3, <3>4, PassingOn DEF Passing
  <2>4. CASE phase = "up" /\ job.at \in PutbackSteps \ {"putback.erase"}
    <3>1. CASE UNCHANGED vars
      BY <2>2, <2>4, <3>1 DEF vars, run
    <3>2. CASE PutbackMedia \/ PutbackChats
      <4>1. rec' = rec
        BY <3>2, RecordlessSame DEF Recordless
      <4>2. job' = job \/ Moves("putback.chats") \/ Moves("putback.drop")
        BY <3>2, PutbackMediaDoes, PutbackChatsDoes
      <4>3. job'.at \in PutbackSteps \ {"putback.erase"} /\ job'.dir = job.dir
        BY <2>4, <4>2 DEF Moves, MovesTo, PutbackSteps
      <4>4. QED
        BY <2>2, <2>4, <4>1, <4>3
    <3>3. CASE PutbackDrop
      <4>1. rec'.putback = {}
        BY <2>2, <2>4, <3>3, PutbackDropDoes DEF Writes
      <4>2. QED
        BY <4>1
    <3>4. QED
      BY <2>4, <3>1, <3>2, <3>3, ListsOn DEF PutbackErase, At
  <2>5. CASE phase = "up" /\ ~W
    <3>1. rec.putback = {}
      BY <2>2, <2>5
    <3>2. CASE Forget \/ PutbackDrop
      <4>1. rec'.putback = {}
        BY <3>1, <3>2, ForgetDoes, PutbackDropDoes DEF Writes
      <4>2. QED
        BY <4>1
    <3>3. CASE CommitSignOut
      <4>1. CASE UNCHANGED <<rec, told>>
        BY <3>1, <4>1
      <4>2. CASE OnlyStaged(job.dir) # {} => job.choice # None
        <5>1. /\ job.op \in {"signout", "kept-erase"}
              /\ Moves(IF job.op = "signout" THEN "enter" ELSE "erase.folder") \/ rec' = rec
          BY <3>3, <4>2, CommitSignOutDoes DEF CommitSignOut
        <5>2. rec'.putback = {} \/ (job.choice = "putback" /\ rec'.putback = {job.dir})
          BY <3>1, <3>3, <4>2, CommitSignOutDoes DEF SignsOut, Writes
        <5>3. QED
          BY <3>1, <5>1, <5>2 DEF Moves, MovesTo, Leaving
      <4>3. QED
        BY <3>3, <4>1, <4>2, CommitSignOutDoes
    <3>4. CASE rec'.putback = rec.putback
      BY <3>1, <3>4
    <3>5. ~(BootActive \/ BootKept \/ BootImports)
      BY <2>5 DEF BootActive, BootKept, BootImports, At, JobOK, BootSteps
    <3>6. QED
      BY <3>2, <3>3, <3>4, <3>5, PutbackList
  <2>6. QED
    BY <1>2, <2>1, <2>3, <2>4, <2>5, UpMoves
<1>3. QED
  BY <1>1, <1>2 DEF PutbackSettled, JobOK, BootSteps, PutbackSteps

\* While nothing fails a staging owes nothing.
LEMMA OwedStays ==
  ASSUME RecType, RunType, JobOK, Going, ~job.owed
  PROVE  ~job'.owed
<1>1. CASE Ask
  <2>1. CASE \E a \in Accts, add \in SUBSET Chats, e \in BOOLEAN : SignIn(a, add, e)
    BY <2>1, SignInDoes DEF Starts
  <2>2. CASE \E c \in Choices : SignOut(c) \/ KeptErase(c)
    BY <2>2, SignOutDoes, KeptEraseDoes DEF Starts
  <2>3. CASE \E r \in {"signed-out", "removed", "deleted"} : Keep(r)
    BY <2>3, KeepDoes DEF Starts, Reasons
  <2>4. CASE SaveKey \/ Quit \/ \E c \in Chats : DeleteChat(c)
    BY <2>4 DEF SaveKey, Quit, DeleteChat, run
  <2>5. QED
    BY <1>1, <2>1, <2>2, <2>3, <2>4 DEF Ask
<1>2. CASE \/ Hold \/ LookUndecided \/ LookNone \/ LookSame \/ LookOther \/ Forget \/ Build \/ AddBuild
           \/ Rename \/ CommitSignIn \/ CancelSignIn \/ Undo
  BY <1>2, HoldDoes, LookNoneDoes, LookSameDoes, LookOtherDoes, ForgetDoes, BuildDoes,
     AddBuildDoes, RenameDoes, CommitSignInDoes, CancelSignInDoes, EndDoes
     DEF LookUndecided, Undo, Moves, MovesTo, Rests, Starts
<1>3. CASE \/ CommitSignOut \/ CancelSignOut \/ CommitKeep \/ KeptKeys \/ Enter \/ EraseFolder
           \/ ImportErase \/ ImportDrop
  BY <1>3, CommitSignOutDoes, CommitKeepDoes, KeptKeysDoes, EnterDoes, EraseFolderDoes,
     ImportEraseDoes, ImportDropDoes, EndDoes
     DEF CancelSignOut, Moves, MovesTo, Rests, Starts
<1>4. CASE \/ StageUnits \/ StageChats \/ StageMedia \/ StageDone
           \/ PutbackMedia \/ PutbackChats \/ PutbackDrop \/ PutbackErase
  BY <1>4, StageUnitsDoes, StageChatsDoes, StageMediaDoes, StageDoneDoes, PutbackMediaDoes,
     PutbackChatsDoes, PutbackDropDoes, PutbackEraseDoes
     DEF Moves, MovesTo, Rests, Starts
<1>5. CASE \/ BootActive \/ BootKept \/ BootSweep \/ BootErase \/ BootImports \/ BootStep6 \/ BootPutback
           \/ BootResume
  BY <1>5, BootActiveDoes, BootKeptDoes, BootSweepDoes, BootEraseDoes, BootImportsDoes,
     BootStep6Does, BootPutbackDoes, BootResumeDoes
     DEF Moves, MovesTo, Rests, Starts
<1>6. CASE UNCHANGED vars
  BY <1>6 DEF vars, run
<1>7. QED
  BY <1>1, <1>2, <1>3, <1>4, <1>5, <1>6 DEF Going, Step, SignInStep, BootStep

\* Only a build's rename makes a folder one that opens.
LEMMA OpensBy ==
  ASSUME RecType, RunType, DiskType, ToldType, JobOK, RecordOK, CtxOK, DirOK, Going,
         NEW d \in Dirs, Openable(d)'
  PROVE  Openable(d) \/ (Rename /\ d = job.dir)
<1>1. CASE Folderless
  BY <1>1, FolderlessSame DEF Openable
<1>2. CASE Build
  <2>1. job.dir \in Dirs
    BY <1>2 DEF Build, At, JobOK, BootSteps
  <2>2. QED
    BY <1>2, <2>1 DEF Build, DiskType, Openable
<1>3. CASE Rename
  BY <1>3 DEF Rename, DiskType, Openable
<1>4. CASE Undo \/ EraseFolder
  <2>1. job.dir \in Dirs /\ Gone(job.dir)
    BY <1>4 DEF Undo, EraseFolder, At, JobOK, BootSteps
  <2>2. QED
    BY <2>1, GoneDoes DEF Openable
<1>5. CASE BootSweep
  <2>1. CASE UNCHANGED disk
    BY <2>1 DEF disk, Openable
  <2>2. CASE \E e \in job.todo : Gone(e)
    BY <2>2, GoneDoes, JobHas DEF Openable
  <2>3. QED
    BY <1>5, <2>1, <2>2, BootSweepDoes
<1>6. QED
  BY <1>1, <1>2, <1>3, <1>4, <1>5 DEF Going, Step, SignInStep, BootStep, Folderless

\* No Add is being staged, nor is one still to be by the start under way.
Staged ==
  \/ phase = "up" /\ job.at \notin StageSteps
  \/ job.op = "boot" /\ job.at \in {"boot.putback", "boot.resume"} \cup PutbackSteps

\* Past the staging of an owed Add lead only its end, and a start that has none.
LEMMA StagedFrom ==
  ASSUME RecType, RunType, JobOK, JobOK', Going, phase' # "down", Staged'
  PROVE  Staged \/ StageDone \/ BootStep6
<1>1. CASE phase' = "up"
  <2>1. CASE BootResume
    BY <2>1 DEF BootResume, At, Staged, JobOK, BootSteps
  <2>2. CASE phase = "up" /\ job.at \in StageSteps
    <3>1. job'.at \notin StageSteps
      BY <1>1 DEF Staged, JobOK
    <3>2. CASE UNCHANGED vars
      BY <2>2, <3>1, <3>2 DEF vars, run
    <3>3. CASE StageUnits \/ StageChats \/ StageMedia
      BY <3>1, <3>3, StageUnitsDoes, StageChatsDoes, StageMediaDoes
         DEF StageMedia, At, Moves, MovesTo, StageSteps
    <3>4. QED
      BY <2>2, <3>2, <3>3, ListsOn
  <2>3. QED
    BY <1>1, <2>1, <2>2, UpMoves DEF Staged
<1>2. CASE phase' = "boot"
  <2>1. phase = "boot" /\ job.op = "boot" /\ job'.at \in {"boot.putback", "boot.resume"} \cup PutbackSteps
    BY <1>2, BootMoves DEF Staged
  <2>2. CASE UNCHANGED vars
    BY <2>1, <2>2 DEF vars, run, Staged
  <2>3. CASE BootActive \/ BootKept \/ BootSweep \/ BootErase \/ BootImports
    BY <2>1, <2>3, BootActiveDoes, BootKeptDoes, BootSweepDoes, BootEraseDoes, BootImportsDoes
       DEF Moves, MovesTo, PutbackSteps
  <2>4. CASE ImportErase \/ ImportDrop \/ StageUnits \/ StageChats \/ StageMedia
    BY <2>1, <2>4, ImportEraseDoes, ImportDropDoes, StageUnitsDoes, StageChatsDoes,
       StageMediaDoes
       DEF StageMedia, At, Moves, MovesTo, PutbackSteps
  <2>5. CASE BootPutback \/ PutbackMedia \/ PutbackChats \/ PutbackDrop \/ PutbackErase
    BY <2>1, <2>5
       DEF BootPutback, PutbackMedia, PutbackChats, PutbackDrop, PutbackErase, At, PutbackSteps,
           Staged
  <2>6. QED
    BY <1>2, <2>2, <2>3, <2>4, <2>5, BootMoves
<1>3. QED
  BY <1>1, <1>2 DEF Staged, JobOK

\* No Add stays owed of a folder that opens.
LEMMA AddSettledStep ==
  ASSUME RecType, RunType, DiskType, ToldType, JobOK, RecordOK, CtxOK, DirOK, JobOK',
         ActiveSettled, AddSettled, Going, phase' # "down"
  PROVE  AddSettled'
<1>1. ~job'.owed
  BY OwedStays DEF AddSettled
<1>2. ASSUME Staged', rec'.pending, NEW d \in Target', Openable(d)'
      PROVE  FALSE
  <2>1. Staged \/ StageDone \/ BootStep6
    BY <1>2, StagedFrom
  <2>2. ~StageDone
    BY <1>2, StageDoneDoes DEF Writes
  <2>3. ~(Staged /\ rec.pending /\ d \in Target /\ Openable(d))
    BY DEF AddSettled, Staged
  <2>4. CASE Recordless
    <3>1. rec' = rec /\ d \in Target /\ d \in Dirs
      BY <1>2, <2>4, RecordlessSame, RecordHas DEF Target, Named, Active, Kept
    <3>2. ~Rename
      BY <3>1 DEF Rename, At, JobOK, DirOK, SignInBuilds, Target, Named
    <3>3. Openable(d)
      BY <1>2, <3>1, <3>2, OpensBy
    <3>4. CASE BootStep6
      <4>1. job'.at = "boot.putback"
        BY <1>2, <3>4, BootStep6Does
           DEF BootStep6, At, JobOK, BootSteps, Same, Staged, Moves, MovesTo, PutbackSteps,
               StageSteps
      <4>2. QED
        BY <1>2, <3>1, <3>3, <3>4, <4>1, BootStep6Does DEF MovesTo
    <3>5. QED
      BY <1>2, <2>1, <2>2, <2>3, <3>1, <3>3, <3>4
  <2>5. ASSUME Folderless, rec.pending, d \in Target, Staged
        PROVE  FALSE
    BY <1>2, <2>3, <2>5, FolderlessSame DEF Openable
  <2>6. CASE Hold
    <3>1. Folderless /\ Staged /\ job.at = "hold" /\ phase = "up" /\ job.op \in {"signin", "signout", "keep"}
      BY <2>6 DEF Folderless, Hold, At, JobOK, RunType, Staged, StageSteps
    <3>2. job.op = "signin" /\ ctx = Local
      BY <1>2, <2>6, <3>1, HoldDoes
         DEF Hold, Same, Writes, Moves, MovesTo, Staged, StageSteps, CtxOK, PutbackSteps
    <3>3. Active(rec) = {}
      BY <3>1, <3>2 DEF ActiveSettled, Home
    <3>4. rec.pending /\ d \in Target
      BY <1>2, <2>6, <3>2, <3>3, HoldDoes DEF Writes, RecordOK, Target, Named, Active, Kept
    <3>5. QED
      BY <2>5, <3>1, <3>4
  <2>7. CASE LookSame
    <3>1. Folderless /\ Staged /\ rec.active = Local
      BY <2>7 DEF Folderless, LookSame, At, JobOK, RunType, Staged, StageSteps, CtxOK
    <3>2. rec.pending /\ d \in Target
      BY <1>2, <2>7, <3>1, LookSameDoes, RecordHas, AccountsAssumption
         DEF Writes, Target, Named, Active, Kept
    <3>3. QED
      BY <2>5, <3>1, <3>2
  <2>8. CASE Forget
    <3>1. job.dir \in Named(rec)
      BY <2>8 DEF Forget, At, DirOK
    <3>2. QED
      BY <1>2, <2>8, <3>1, ForgetDoes DEF Writes, Named, Active, Kept
  <2>9. CASE CommitSignIn
    BY <1>2, <2>9, CommitSignInDoes
       DEF CommitSignIn, At, Writes, Moves, MovesTo, Staged, StageSteps, PutbackSteps
  <2>10. CASE CommitSignOut
    <3>1. CASE UNCHANGED <<rec, told>>
      <4>1. Folderless /\ Staged
        BY <2>10 DEF Folderless, CommitSignOut, At, JobOK, RunType, Staged, StageSteps
      <4>2. rec.pending /\ d \in Target
        BY <1>2, <3>1 DEF Target, Named, Active, Kept
      <4>3. QED
        BY <2>5, <4>1, <4>2
    <3>2. CASE OnlyStaged(job.dir) # {} => job.choice # None
      BY <1>2, <2>10, <3>2, CommitSignOutDoes DEF SignsOut, Writes
    <3>3. QED
      BY <2>10, <3>1, <3>2, CommitSignOutDoes
  <2>11. CASE CommitKeep
    BY <1>2, <2>11, CommitKeepDoes DEF Writes, AddSettled
  <2>12. CASE Enter
    <3>1. Folderless /\ Staged
      BY <2>12 DEF Folderless, Enter, At, JobOK, RunType, Staged, StageSteps
    <3>2. IF job.op = "signin" THEN rec.known /\ rec.active = job.dir ELSE rec.active = Local
      BY <2>12 DEF Enter, At, CtxOK, JobOK, StageSteps
    <3>3. rec.pending /\ d \in Target
      BY <1>2, <2>12, <3>2, EnterDoes DEF Writes, RecordOK, Target, Named, Active, Kept
    <3>4. QED
      BY <2>5, <3>1, <3>3
  <2>13. CASE ImportDrop \/ PutbackDrop
    <3>1. Folderless /\ Staged
      BY <2>1, <2>2, <2>13 DEF Folderless, ImportDrop, PutbackDrop, BootStep6, At
    <3>2. rec.pending /\ d \in Target
      BY <1>2, <2>13, ImportDropDoes, PutbackDropDoes DEF Writes, Target, Named, Active, Kept
    <3>3. QED
      BY <2>5, <3>1, <3>2
  <2>14. CASE BootActive \/ BootKept \/ BootImports
    BY <2>1, <2>2, <2>14
       DEF BootActive, BootKept, BootImports, BootStep6, At, Staged, JobOK, BootSteps,
           PutbackSteps
  <2>15. CASE BootResume
    <3>1. Folderless /\ Staged /\ \A e \in Active(rec) : Openable(e)
      BY <2>15 DEF Folderless, BootResume, At, JobOK, RunType, Staged, ActiveSettled, BootSteps
    <3>2. rec.pending /\ d \in Target
      BY <1>2, <2>15, <3>1, BootResumeDoes, RecordHas
         DEF Writes, RecordOK, Target, Named, Active, Kept
    <3>3. QED
      BY <2>5, <3>1, <3>2
  <2>16. QED
    BY <2>2, <2>4, <2>6, <2>7, <2>8, <2>9, <2>10, <2>11, <2>12, <2>13, <2>14, <2>15
       DEF Going, Step, SignInStep, BootStep, Recordless
<1>3. QED
  BY <1>1, <1>2 DEF AddSettled, Staged

\* The steps that touch no synced key.
Keyless ==
  \/ Ask /\ ~SaveKey
  \/ Hold \/ LookUndecided \/ LookNone \/ LookSame \/ LookOther \/ Forget \/ Build \/ AddBuild
  \/ Rename \/ CommitSignIn \/ CancelSignIn \/ CommitSignOut \/ CancelSignOut \/ CommitKeep
  \/ Enter \/ ImportErase \/ ImportDrop
  \/ StageUnits \/ StageChats \/ StageMedia \/ StageDone
  \/ PutbackMedia \/ PutbackChats \/ PutbackDrop \/ PutbackErase
  \/ BootActive \/ BootErase \/ BootImports \/ BootStep6 \/ BootPutback \/ BootResume
  \/ UNCHANGED vars

\* They leave the synced keys as they are.
LEMMA KeylessSame ==
  ASSUME Keyless
  PROVE  synced' = synced
<1>1. CASE Ask /\ ~SaveKey
  BY <1>1 DEF Ask, SignIn, SignOut, KeptErase, Keep, Begin, DeleteChat, Quit, disk
<1>2. CASE ~(Ask /\ ~SaveKey)
  BY <1>2
     DEF Keyless, vars, disk, Hold, LookUndecided, LookNone, LookSame, LookOther, Forget, Build,
         AddBuild, Rename, CommitSignIn, CancelSignIn, CommitSignOut, CancelSignOut, CommitKeep,
         Enter, ImportErase, ImportDrop, StageUnits, StageChats, StageMedia, StageDone,
         PutbackMedia, PutbackChats, PutbackDrop, PutbackErase, BootActive, BootErase,
         BootImports, BootStep6, BootPutback, BootResume
<1>3. QED
  BY <1>1, <1>2

\* The keys of what a record keeps are gone.
Keyed ==
  \/ phase = "up" /\ job.at # "keys"
  \/ phase = "boot" /\ job.at \notin {"boot.active", "boot.kept"}

\* No kept folder stays with synced keys.
LEMMA KeysSettledStep ==
  ASSUME RecType, RunType, DiskType, ToldType, JobOK, RecordOK, CtxOK, DirOK, JobOK',
         KeysSettled, Going, phase' # "down"
  PROVE  KeysSettled'
<1> SUFFICES ASSUME rec'.known, rec'.reason # "record-lost", rec'.kept \in synced', Keyed'
             PROVE  FALSE
  BY DEF KeysSettled, Keyed
<1>1. rec'.kept \in Dirs /\ synced \in SUBSET Dirs /\ None \notin Dirs
  <2>1. DiskType'
    BY DiskStep DEF Going, Next
  <2>2. QED
    BY <2>1, AccountsAssumption DEF DiskType
<1>2. ASSUME rec.known, rec.reason # "record-lost", rec.kept \in synced, Keyed
      PROVE  FALSE
  BY <1>2 DEF KeysSettled, Keyed
<1>3. ASSUME job.at \notin {"keys", "boot.active", "boot.kept"}, ~BootResume
      PROVE  Keyed
  <2>1. CASE phase' = "up"
    BY <1>3, <2>1, UpMoves DEF Keyed
  <2>2. CASE phase' = "boot"
    BY <1>3, <2>2, BootMoves DEF Keyed
  <2>3. QED
    BY <2>1, <2>2 DEF Keyed
<1>4. CASE \/ Ask /\ ~SaveKey
           \/ LookUndecided \/ LookNone \/ LookOther \/ Build \/ AddBuild \/ Rename \/ CancelSignIn
           \/ CancelSignOut \/ ImportErase \/ StageUnits \/ StageChats \/ StageMedia
           \/ PutbackMedia \/ PutbackChats \/ PutbackErase \/ BootErase \/ BootStep6 \/ BootPutback
           \/ UNCHANGED vars
  <2>1. rec' = rec /\ synced' = synced
    BY <1>4, RecordlessSame, KeylessSame DEF Recordless, Keyless
  <2>2. CASE UNCHANGED vars
    BY <1>2, <2>1, <2>2 DEF vars, run, Keyed
  <2>3. CASE Ask
    BY <1>2, <1>3, <2>1, <2>3, NoJobHas
       DEF Ask, SignIn, SignOut, KeptErase, Keep, Begin, Idle, DeleteChat, SaveKey, Quit, Keyed
  <2>4. CASE \/ LookUndecided \/ LookNone \/ LookOther \/ Build \/ AddBuild \/ Rename \/ CancelSignIn
             \/ CancelSignOut \/ ImportErase \/ StageUnits \/ StageChats \/ StageMedia
             \/ PutbackMedia \/ PutbackChats \/ PutbackErase \/ BootErase \/ BootStep6 \/ BootPutback
    <3>1. job.at \notin {"keys", "boot.active", "boot.kept", "boot.resume"}
      BY <2>4
         DEF LookUndecided, LookNone, LookOther, Build, AddBuild, Rename, CancelSignIn,
             CancelSignOut, ImportErase, StageUnits, StageChats, StageMedia, PutbackMedia,
             PutbackChats, PutbackErase, BootErase, BootStep6, BootPutback, At
    <3>2. QED
      BY <1>2, <1>3, <2>1, <3>1 DEF BootResume, At
  <2>5. QED
    BY <1>4, <2>2, <2>3, <2>4
<1>5. ASSUME synced' \subseteq synced, rec'.kept = rec.kept, rec'.reason = rec.reason,
             rec.known, Keyed
      PROVE  FALSE
  BY <1>2, <1>5
<1>6. CASE Hold
  <2>1. synced' = synced /\ Keyed
    BY <1>3, <1>6, KeylessSame DEF Keyless, Hold, BootResume, At
  <2>2. QED
    BY <1>1, <1>5, <1>6, <2>1, HoldDoes DEF Writes, RecordOK
<1>7. CASE LookSame
  <2>1. synced' = synced /\ Keyed
    BY <1>3, <1>7, KeylessSame DEF Keyless, LookSame, BootResume, At
  <2>2. QED
    BY <1>1, <1>5, <1>7, <2>1, LookSameDoes DEF Writes
<1>8. CASE Forget
  <2>1. synced' = synced /\ Keyed
    BY <1>3, <1>8, KeylessSame DEF Keyless, Forget, BootResume, At
  <2>2. QED
    BY <1>1, <1>5, <1>8, <2>1, ForgetDoes DEF Writes
<1>9. CASE CommitSignIn
  BY <1>1, <1>9, CommitSignInDoes DEF Writes
<1>10. CASE CommitSignOut
  <2>1. synced' = synced /\ Keyed
    BY <1>3, <1>10, KeylessSame DEF Keyless, CommitSignOut, BootResume, At
  <2>2. CASE UNCHANGED <<rec, told>>
    BY <1>5, <2>1, <2>2
  <2>3. CASE OnlyStaged(job.dir) # {} => job.choice # None
    BY <1>1, <1>10, <2>3, CommitSignOutDoes DEF SignsOut, Writes
  <2>4. QED
    BY <1>10, <2>2, <2>3, CommitSignOutDoes
<1>11. CASE CommitKeep
  BY <1>11, CommitKeepDoes DEF CommitKeep, At, Same, Keyed, Moves, MovesTo, JobOK
<1>12. CASE Enter
  <2>1. synced' = synced /\ Keyed
    BY <1>3, <1>12, KeylessSame DEF Keyless, Enter, BootResume, At
  <2>2. QED
    BY <1>1, <1>5, <1>12, <2>1, EnterDoes DEF Writes, RecordOK
<1>13. CASE ImportDrop \/ StageDone \/ PutbackDrop \/ BootImports
  <2>1. synced' = synced /\ Keyed
    BY <1>3, <1>13, KeylessSame
       DEF Keyless, ImportDrop, StageDone, PutbackDrop, BootImports, BootResume, At
  <2>2. QED
    BY <1>5, <1>13, <2>1, ImportDropDoes, StageDoneDoes, PutbackDropDoes, BootImportsDoes
       DEF Writes
<1>14. CASE BootActive
  BY <1>14, BootActiveDoes DEF BootActive, At, JobOK, BootSteps, Same, Keyed, Moves, MovesTo
<1>15. CASE BootKept
  <2>1. CASE rec' = rec /\ synced' = synced \ {rec.kept}
    BY <2>1
  <2>2. CASE rec'.kept = None
    BY <1>1, <2>2
  <2>3. CASE Kept(rec) = {} /\ rec' = rec
    BY <1>1, <2>3 DEF Kept
  <2>4. QED
    BY <1>15, <2>1, <2>2, <2>3, BootKeptDoes DEF Writes
<1>16. CASE BootResume
  <2>1. synced' = synced /\ Keyed
    BY <1>16, KeylessSame DEF Keyless, BootResume, At, Keyed, JobOK, BootSteps
  <2>2. QED
    BY <1>1, <1>5, <1>16, <2>1, BootResumeDoes DEF Writes, RecordOK
<1>17. CASE SaveKey
  <2>1. rec' = rec /\ synced' = synced \cup {ctx} /\ ctx # Local /\ job = NoJob /\ phase = "up"
    BY <1>17 DEF SaveKey, Idle
  <2>2. rec.known /\ rec.active = ctx /\ Keyed
    BY <2>1, NoJobHas DEF CtxOK, Keyed
  <2>3. rec.kept = None
    BY <2>1, <2>2 DEF RecordOK
  <2>4. QED
    BY <1>1, <2>1, <2>3
<1>18. CASE KeptKeys
  <2>1. rec' = rec /\ synced' = synced \ {job.dir} /\ job.at = "keys"
    BY <1>18 DEF KeptKeys, At
  <2>2. rec.kept = job.dir
    BY <2>1 DEF JobOK, CtxOK
  <2>3. QED
    BY <2>1, <2>2
<1>19. CASE Undo \/ EraseFolder
  <2>1. job.dir \in Dirs /\ Gone(job.dir) /\ rec' = rec /\ Keyed
    BY <1>3, <1>19 DEF Undo, EraseFolder, BootResume, At, JobOK, BootSteps
  <2>2. QED
    BY <1>5, <2>1 DEF Gone
<1>20. CASE BootSweep
  <2>1. rec' = rec /\ Keyed
    BY <1>3, <1>20 DEF BootSweep, BootResume, At
  <2>2. synced' \subseteq synced
    BY <1>20, BootSweepDoes DEF Gone, disk
  <2>3. QED
    BY <1>5, <2>1, <2>2
<1>21. QED
  BY <1>4, <1>6, <1>7, <1>8, <1>9, <1>10, <1>11, <1>12, <1>13, <1>14, <1>15, <1>16, <1>17,
     <1>18, <1>19, <1>20
     DEF Going, Step, SignInStep, BootStep, Recordless, Keyless

\* No start is under way, or it is past its look at imports/.
Looked == phase = "up" \/ (job.op = "boot" /\ job.at \in Late)

\* Past a start's look at imports/ leads only that look.
LEMMA LookedFrom ==
  ASSUME RecType, RunType, JobOK, JobOK', Going, phase' # "down", Looked'
  PROVE  Looked \/ BootImports
<1>1. CASE phase' = "up"
  BY <1>1, UpMoves DEF Looked, Late
<1>2. CASE phase' = "boot"
  <2>1. phase = "boot" /\ job.op = "boot" /\ job'.at \in Late
    BY <1>2, BootMoves DEF Looked
  <2>2. CASE UNCHANGED vars
    BY <2>1, <2>2 DEF vars, run, Looked
  <2>3. CASE BootActive \/ BootKept \/ BootSweep \/ BootErase \/ ImportErase \/ ImportDrop
    BY <2>1, <2>3, BootActiveDoes, BootKeptDoes, BootSweepDoes, BootEraseDoes, ImportEraseDoes,
       ImportDropDoes
       DEF Moves, MovesTo, Late, StageSteps, PutbackSteps
  <2>4. CASE \/ BootStep6 \/ BootPutback \/ StageUnits \/ StageChats \/ StageMedia \/ StageDone
             \/ PutbackMedia \/ PutbackChats \/ PutbackDrop \/ PutbackErase
    BY <2>1, <2>4
       DEF BootStep6, BootPutback, StageUnits, StageChats, StageMedia, StageDone, PutbackMedia,
           PutbackChats, PutbackDrop, PutbackErase, At, Late, StageSteps, PutbackSteps, Looked
  <2>5. QED
    BY <1>2, <2>2, <2>3, <2>4, BootMoves
<1>3. QED
  BY <1>1, <1>2 DEF Looked, JobOK, Late, RunType

\* No chat stays staged where the record does not name its imports/.
LEMMA StagedSettledStep ==
  ASSUME RecType, RunType, DiskType, ToldType, JobOK, RecordOK, CtxOK, DirOK, JobOK',
         SignInKnown, UnitsOK, ActiveSettled, EraseSettled, StagedSettled, Going,
         phase' # "down"
  PROVE  StagedSettled'
<1> SUFFICES ASSUME rec'.known, Looked', NEW d \in Dirs, NEW c \in staged'[d], c \notin chats',
                    c \notin unwanted'
             PROVE  \E e \in Named(rec') \cup rec'.putback : c \in staged'[e]
  BY DEF StagedSettled, Looked
<1>1. ASSUME rec.known, Looked, c \in staged[d], c \notin chats, c \notin unwanted
      PROVE  \E e \in Named(rec) \cup rec.putback : c \in staged[e]
  BY <1>1 DEF StagedSettled, Looked
<1>2. [Next]_vars /\ ~LoseRecord /\ ~RestoreRecord
  BY DEF Going, Next, LoseRecord, RestoreRecord
<1>3. CASE ~rec.known
  <2>1. UNCHANGED disk /\ Undecided \subseteq Named(rec')
    BY <1>3, NamesMove
  <2>2. QED
    BY <2>1 DEF disk, Undecided
<1>4. CASE rec.known /\ BootImports
  <2>1. UNCHANGED <<staged, chats>> /\ job.at = "boot.imports" /\ job.op = "boot"
    BY <1>4 DEF BootImports, disk, At, JobOK, BootSteps
  <2>2. rec.erase = {}
    BY <2>1 DEF EraseSettled
  <2>3. Named(rec') = Named(rec) /\ rec'.putback = rec.putback \cup Orphans
    BY <1>4, BootImportsDoes DEF Writes, Named, Active, Kept
  <2>4. d \in Named(rec) \cup Orphans
    BY <1>4, <2>1, <2>2 DEF Orphans
  <2>5. QED
    BY <2>1, <2>3, <2>4
<1>5. CASE rec.known /\ Forget
  <2>1. UNCHANGED <<staged, chats>> /\ Looked /\ job.dir \in Dirs
    BY <1>4, <1>5, LookedFrom DEF Forget, disk, At, JobOK, BootSteps, RunType, Looked
  <2>2. c \notin unwanted /\ c \notin staged[job.dir]
    BY <1>5, <2>1 DEF Forget, Unwant, OnlyStaged
  <2>3. PICK e \in Named(rec) \cup rec.putback : c \in staged[e]
    BY <1>1, <1>5, <2>1, <2>2
  <2>4. e # job.dir
    BY <2>2, <2>3
  <2>5. e \in Named(rec') \cup rec'.putback
    BY <1>5, <2>3, <2>4, ForgetDoes DEF Writes, Named, Active, Kept
  <2>6. QED
    BY <2>1, <2>3, <2>5
<1>6. CASE rec.known /\ CommitSignOut
  <2>1. /\ UNCHANGED <<staged, chats>> /\ Looked /\ job.dir \in Dirs
        /\ job.at = "commit" /\ job.op \in {"signout", "kept-erase"}
    BY <1>6 DEF CommitSignOut, disk, At, JobOK, BootSteps, RunType, Looked
  <2>2. CASE UNCHANGED <<rec, told>>
    BY <1>1, <1>6, <2>1, <2>2 DEF told, Named, Active, Kept
  <2>3. CASE OnlyStaged(job.dir) # {} => job.choice # None
    <3>1. c \notin unwanted
      BY <1>6, <2>3, CommitSignOutDoes DEF Unwant
    <3>2. PICK e \in Named(rec) \cup rec.putback : c \in staged[e]
      BY <1>1, <1>6, <2>1, <3>1
    <3>3. CASE job.choice = "putback" /\ rec'.putback = rec.putback \cup {job.dir}
      <4>1. Named(rec) = {job.dir}
        <5>1. job.dir \in Named(rec)
          BY <1>6, <2>1, AccountsAssumption DEF CtxOK, DirOK, Named, Active, Kept
        <5>2. QED
          BY <5>1, RecordHas DEF RecordOK, Named, Active, Kept
      <4>2. QED
        BY <2>1, <3>2, <3>3, <4>1
    <3>4. CASE job.choice # "putback"
      <4>1. c \notin staged[job.dir]
        BY <1>6, <2>1, <2>3, <3>4, CommitSignOutDoes DEF Unwant, OnlyStaged
      <4>2. e # job.dir
        BY <3>2, <4>1
      <4>3. e \in rec.putback
        <5>1. job.dir \in Named(rec)
          BY <1>6, <2>1, AccountsAssumption DEF CtxOK, DirOK, Named, Active, Kept
        <5>2. QED
          BY <3>2, <4>2, <5>1, RecordHas DEF RecordOK, Named, Active, Kept
      <4>4. e \in rec'.putback
        BY <1>6, <2>3, <3>4, <4>2, <4>3, CommitSignOutDoes DEF SignsOut, Writes
      <4>5. QED
        BY <2>1, <3>2, <4>4
    <3>5. QED
      BY <1>6, <2>3, <3>3, <3>4, CommitSignOutDoes DEF SignsOut, Writes
  <2>4. QED
    BY <1>6, <2>2, <2>3, CommitSignOutDoes
<1>7. CASE rec.known /\ PutbackDrop
  <2>1. UNCHANGED <<staged, chats, unwanted>> /\ job.at = "putback.drop" /\ Looked
    BY <1>7, LookedFrom DEF PutbackDrop, BootImports, At, disk, told
  <2>2. staged[job.dir] \subseteq chats
    BY <2>1 DEF UnitsOK
  <2>3. PICK e \in Named(rec) \cup rec.putback : c \in staged[e]
    BY <1>1, <1>7, <2>1
  <2>4. e # job.dir
    BY <2>1, <2>2, <2>3
  <2>5. e \in Named(rec') \cup rec'.putback
    BY <1>7, <2>3, <2>4, PutbackDropDoes DEF Writes, Named, Active, Kept
  <2>6. QED
    BY <2>1, <2>3, <2>5
<1>8. rec.known /\ ~(BootImports \/ Forget \/ CommitSignOut \/ PutbackDrop) =>
        /\ Looked /\ Named(rec) \cup rec.putback \subseteq Named(rec') \cup rec'.putback
        /\ Named(rec) \cup rec.putback \in SUBSET Dirs
  <2> SUFFICES ASSUME rec.known, ~(BootImports \/ Forget \/ CommitSignOut \/ PutbackDrop)
               PROVE  /\ Looked
                      /\ Named(rec) \cup rec.putback \subseteq Named(rec') \cup rec'.putback
    BY RecordHas
  <2>1. Looked
    BY LookedFrom
  <2>2. ~(BootActive \/ BootKept)
    BY BootActiveDoes, BootKeptDoes
       DEF BootActive, BootKept, At, JobOK, BootSteps, Looked, Late, StageSteps, PutbackSteps,
           Moves, MovesTo, Same
  <2>3. rec'.putback = rec.putback
    BY <2>2, PutbackList
  <2>4. Named(rec) \subseteq Named(rec')
    BY <2>2, NamesMove
  <2>5. QED
    BY <2>1, <2>3, <2>4
<1>9. CASE rec.known /\ ~(BootImports \/ Forget \/ CommitSignOut \/ PutbackDrop)
  <2>1. /\ Looked /\ Named(rec) \cup rec.putback \subseteq Named(rec') \cup rec'.putback
        /\ Named(rec) \cup rec.putback \in SUBSET Dirs
    BY <1>8, <1>9
  <2>2. ASSUME staged' = staged, chats \subseteq chats', unwanted \subseteq unwanted'
        PROVE  \E e \in Named(rec') \cup rec'.putback : c \in staged'[e]
    BY <1>1, <1>9, <2>1, <2>2
  <2>3. CASE Unitless
    <3>1. unwanted' = unwanted
      BY <1>2, <1>9, <2>3, Wanted, UnitlessSame DEF DeleteChat
    <3>2. QED
      BY <2>2, <2>3, <3>1, UnitlessSame
  <2>4. CASE \E q \in Chats : DeleteChat(q)
    <3>1. PICK q \in Chats : chats' = chats \ {q} /\ unwanted' = unwanted \cup {q} /\ staged' = staged
      BY <2>4 DEF DeleteChat, Unwant
    <3>2. QED
      BY <1>1, <1>9, <2>1, <3>1
  <2>5. CASE StageMedia \/ PutbackMedia
    BY <2>2, <2>5 DEF StageMedia, PutbackMedia, told
  <2>6. CASE PutbackChats
    BY <2>2, <2>6 DEF PutbackChats, told
  <2>7. CASE StageUnits
    <3>1. /\ staged' = [staged EXCEPT ![job.dir] = @ \cup (man[job.dir].chats \cap chats)]
          /\ UNCHANGED <<chats, unwanted>>
      BY <2>7 DEF StageUnits, told
    <3>2. staged \in [Dirs -> SUBSET Chats]
      BY DEF DiskType
    <3>3. c \in staged[d]
      BY <3>1, <3>2
    <3>4. PICK e \in Named(rec) \cup rec.putback : c \in staged[e]
      BY <1>1, <1>9, <2>1, <3>1, <3>3
    <3>5. e \in Dirs /\ c \in staged'[e]
      BY <2>1, <3>1, <3>2, <3>4
    <3>6. QED
      BY <2>1, <3>4, <3>5
  <2>8. CASE StageChats
    <3>1. /\ chats' = chats \ man[job.dir].chats /\ UNCHANGED <<staged, unwanted>>
          /\ job.at = "stage.chats"
      BY <2>8 DEF StageChats, told, At
    <3>2. CASE c \in chats
      <4>1. c \in staged[job.dir]
        BY <3>1, <3>2 DEF UnitsOK
      <4>2. job.dir \in Named(rec)
        BY <3>1 DEF DirOK, StageSteps
      <4>3. QED
        BY <2>1, <3>1, <4>1, <4>2
    <3>3. CASE c \notin chats
      BY <1>1, <1>9, <2>1, <3>1, <3>3
    <3>4. QED
      BY <3>2, <3>3
  <2>9. CASE PutbackErase \/ ImportErase
    <3>1. /\ staged' = [staged EXCEPT ![job.dir] = {}] /\ UNCHANGED <<chats, unwanted>>
          /\ job.at \in {"putback.erase", "import.erase"} /\ job.dir \in Dirs
      BY <2>9 DEF PutbackErase, ImportErase, told, At, JobOK, BootSteps
    <3>2. staged \in [Dirs -> SUBSET Chats]
      BY DEF DiskType
    <3>3. c \in staged[d]
      BY <3>1, <3>2
    <3>4. PICK e \in Named(rec) \cup rec.putback : c \in staged[e]
      BY <1>1, <1>9, <2>1, <3>1, <3>3
    <3>5. e # job.dir
      <4>1. CASE job.at = "putback.erase"
        BY <3>1, <3>4, <4>1 DEF UnitsOK
      <4>2. CASE job.at = "import.erase"
        BY <3>4, <4>2 DEF DirOK, ImportSteps, RecordOK, RecType
      <4>3. QED
        BY <3>1, <4>1, <4>2
    <3>6. c \in staged'[e]
      BY <2>1, <3>1, <3>2, <3>4, <3>5
    <3>7. QED
      BY <2>1, <3>4, <3>6
  <2>10. QED
    BY <2>3, <2>4, <2>5, <2>6, <2>7, <2>8, <2>9
       DEF Going, Ask, Step, SignInStep, BootStep, Unitless
<1>10. QED
  BY <1>3, <1>4, <1>5, <1>6, <1>7, <1>9

---------------------------------------------------------------------------
(* The invariant, and the theorems. *)

\* A start that fails nowhere settles all of it, and what follows without a
\* failure keeps it settled.
LEMMA SettledOKStep ==
  ASSUME RecType, RunType, DiskType, ToldType, JobOK, RecordOK, CtxOK, DirOK, RecordOK', JobOK',
         OwnedOK, SignInKnown, UnitsOK, SettledOK, [Next]_vars
  PROVE  SettledOK'
<1> SUFFICES ASSUME calm'
             PROVE  /\ ActiveSettled' /\ FoldersSettled' /\ EraseSettled' /\ PutbackSettled'
                    /\ AddSettled' /\ KeysSettled' /\ StagedSettled'
  BY DEF SettledOK
<1>1. CASE phase' = "down"
  <2>1. job' = NoJob
    BY <1>1 DEF JobOK
  <2>2. job'.op = "idle" /\ job'.at = "idle" /\ job'.owed = FALSE
    BY <2>1, NoJobHas
  <2>3. ActiveSettled' /\ FoldersSettled' /\ KeysSettled' /\ StagedSettled'
    BY <1>1, <2>2 DEF ActiveSettled, Home, FoldersSettled, Swept, KeysSettled, StagedSettled
  <2>4. EraseSettled' /\ PutbackSettled' /\ AddSettled'
    BY <1>1, <2>2 DEF EraseSettled, PutbackSettled, AddSettled
  <2>5. QED
    BY <2>3, <2>4
<1>2. CASE Start
  <2>1. phase' = "boot"
    BY <1>2 DEF Start
  <2>2. job'.op = "boot" /\ job'.at = "boot.active" /\ job'.owed = FALSE
    BY <1>2, StartDoes DEF Starts
  <2>3. ActiveSettled' /\ FoldersSettled' /\ KeysSettled' /\ StagedSettled'
    BY <2>1, <2>2
       DEF ActiveSettled, Home, FoldersSettled, Swept, KeysSettled, StagedSettled, Late,
           StageSteps, PutbackSteps
  <2>4. EraseSettled' /\ PutbackSettled' /\ AddSettled'
    BY <2>1, <2>2
       DEF EraseSettled, PutbackSettled, AddSettled, Late, ImportSteps, StageSteps, PutbackSteps
  <2>5. QED
    BY <2>3, <2>4
<1>3. CASE Going /\ calm /\ phase' # "down"
  <2>1. /\ ActiveSettled /\ FoldersSettled /\ EraseSettled /\ PutbackSettled
        /\ AddSettled /\ KeysSettled /\ StagedSettled
    BY <1>3 DEF SettledOK
  <2>2. ActiveSettled'
    BY <1>3, <2>1, ActiveSettledStep
  <2>3. FoldersSettled'
    BY <1>3, <2>1, FoldersSettledStep
  <2>4. EraseSettled' /\ PutbackSettled'
    BY <1>3, <2>1, EraseSettledStep, PutbackSettledStep
  <2>5. AddSettled' /\ KeysSettled'
    BY <1>3, <2>1, AddSettledStep, KeysSettledStep
  <2>6. StagedSettled'
    BY <1>3, <2>1, StagedSettledStep
  <2>7. QED
    BY <2>2, <2>3, <2>4, <2>5, <2>6
<1>4. QED
  BY <1>1, <1>2, <1>3, GoingOn

\* With no operation under way, that is what Settled says.
LEMMA SettledOf ==
  ASSUME RecType, DiskType, SettledOK
  PROVE  Settled
<1> SUFFICES ASSUME Idle, calm, rec.known
             PROVE  /\ \A d \in Dirs : folder[d] # "none" => d \in Named(rec)
                    /\ UNION {OnlyStaged(d) : d \in Dirs}
                         \subseteq unwanted \cup UNION {staged[d] : d \in Named(rec)}
                    /\ rec.putback = {} /\ rec.erase = {}
                    /\ rec.pending => \A d \in Target : ~Openable(d)
                    /\ rec.reason # "record-lost" => rec.kept \notin synced
  BY DEF Settled
<1>1. phase = "up" /\ job.op = "idle" /\ job.at = "idle"
  BY NoJobHas DEF Idle
<1>2. rec.putback = {} /\ rec.erase = {}
  BY <1>1, RecordHas
     DEF SettledOK, EraseSettled, PutbackSettled, Leaving, ImportSteps, PutbackSteps
<1>3. \A d \in Dirs : folder[d] # "none" => d \in Named(rec)
  BY <1>1 DEF SettledOK, FoldersSettled, Swept, Passing, Leaving
<1>4. rec.pending => \A d \in Target : ~Openable(d)
  BY <1>1 DEF SettledOK, AddSettled, StageSteps
<1>5. rec.reason # "record-lost" => rec.kept \notin synced
  BY <1>1 DEF SettledOK, KeysSettled
<1>6. ASSUME NEW c \in UNION {OnlyStaged(d) : d \in Dirs}
      PROVE  c \in unwanted \cup UNION {staged[d] : d \in Named(rec)}
  <2>1. PICK d \in Dirs : c \in staged[d] /\ c \notin chats
    BY <1>6 DEF OnlyStaged
  <2>2. c \in unwanted \/ \E e \in Named(rec) \cup rec.putback : c \in staged[e]
    BY <1>1, <2>1 DEF SettledOK, StagedSettled
  <2>3. QED
    BY <1>2, <2>2
<1>7. QED
  BY <1>2, <1>3, <1>4, <1>5, <1>6

\* Every part of the inductive invariant that needs nothing of the faults.
Sound ==
  /\ RecType /\ RunType /\ DiskType /\ ToldType
  /\ JobOK /\ RecordOK /\ CtxOK /\ DirOK /\ SignInKnown
  /\ UnitsOK /\ AwayOK /\ MediaOK

\* And those that need every .owner to be judged.
Judged == OwnedOK /\ TakenOK /\ HomeOK /\ SettledOK

\* A first run starts so.
LEMMA InitSound == Init => Sound
<1> SUFFICES ASSUME Init
             PROVE  Sound
  OBVIOUS
<1>1. RecType
  BY LostIs DEF Init, RecType
<1>2. /\ phase = "up" /\ ctx = Local /\ job \in Jobs /\ job.op = "idle" /\ job.at = "idle"
      /\ job.dir = None /\ job.choice = None /\ job.reason = None
  BY NoJobHas DEF Init
<1>3. RunType
  BY <1>2, AccountsAssumption DEF Init, RunType
<1>4. DiskType /\ ToldType
  BY DEF Init, DiskType, ToldType
<1>5. Named(rec) = {} /\ rec.known /\ rec.active = Local /\ rec.kept = None
      /\ rec.putback = {} /\ rec.erase = {}
  BY LostIs DEF Init, Named, Active, Kept
<1>6. JobOK
  BY <1>2 DEF Init, JobOK, BootSteps, StageSteps, ImportSteps, PutbackSteps
<1>7. RecordOK /\ CtxOK /\ DirOK /\ SignInKnown
  BY <1>2, <1>5 DEF RecordOK, CtxOK, DirOK, SignInKnown, StageSteps, ImportSteps, PutbackSteps
<1>8. UnitsOK /\ AwayOK
  BY <1>2 DEF Init, UnitsOK, AwayOK
<1>9. MediaOK
  BY <1>2, AccountsAssumption DEF Init, MediaOK
<1>10. QED
  BY <1>1, <1>3, <1>4, <1>6, <1>7, <1>8, <1>9 DEF Sound

\* And with nothing held and nothing owed.
LEMMA InitJudged == Init => Judged
<1> SUFFICES ASSUME Init
             PROVE  Judged
  OBVIOUS
<1>1. /\ phase = "up" /\ job.op = "idle" /\ job.at = "idle" /\ ~job.owed
  BY NoJobHas DEF Init
<1>2. Active(rec) = {} /\ Kept(rec) = {} /\ Named(rec) = {} /\ rec.kept = None /\ ~rec.pending
      /\ rec.putback = {} /\ rec.erase = {}
  BY LostIs DEF Init, Named, Active, Kept
<1>3. OwnedOK /\ TakenOK /\ HomeOK
  BY <1>1, <1>2 DEF Init, Held, OwnedOK, TakenOK, HomeOK, Leaving
<1>4. ActiveSettled /\ FoldersSettled /\ KeysSettled /\ StagedSettled
  BY <1>1, <1>2, AccountsAssumption
     DEF Init, ActiveSettled, Home, FoldersSettled, Swept, KeysSettled, StagedSettled
<1>5. EraseSettled /\ PutbackSettled /\ AddSettled
  BY <1>1, <1>2
     DEF EraseSettled, PutbackSettled, AddSettled, Late, ImportSteps, StageSteps, PutbackSteps
<1>6. QED
  BY <1>3, <1>4, <1>5 DEF Judged, SettledOK

\* Sound is inductive.
LEMMA SoundStep == Sound /\ [Next]_vars => Sound'
<1> SUFFICES ASSUME Sound, [Next]_vars
             PROVE  Sound'
  OBVIOUS
<1>1. /\ RecType /\ RunType /\ DiskType /\ ToldType
      /\ JobOK /\ RecordOK /\ CtxOK /\ DirOK /\ SignInKnown
      /\ UnitsOK /\ AwayOK /\ MediaOK
  BY DEF Sound
<1>2. RecType' /\ RunType' /\ DiskType' /\ ToldType' /\ JobOK'
  BY <1>1, RecordStep, RunStep, DiskStep, ToldStep, JobStep
<1>3. RecordOK' /\ CtxOK' /\ DirOK' /\ SignInKnown'
  BY <1>1, RecordOKStep, CtxStep, DirStep, SignInKnownStep
<1>4. UnitsOK' /\ AwayOK' /\ MediaOK'
  BY <1>1, UnitsStep, AwayStep, MediaStep
<1>5. QED
  BY <1>2, <1>3, <1>4 DEF Sound

\* And so is the rest, where every .owner can be judged.
LEMMA JudgedStep ==
  ASSUME "unclear" \notin Faults, Sound, Judged, [Next]_vars
  PROVE  Judged'
<1>1. /\ RecType /\ RunType /\ DiskType /\ ToldType
      /\ JobOK /\ RecordOK /\ CtxOK /\ DirOK /\ SignInKnown /\ UnitsOK
  BY DEF Sound
<1>2. OwnedOK /\ TakenOK /\ HomeOK /\ SettledOK
  BY DEF Judged
<1>3. OwnedOK' /\ TakenOK' /\ HomeOK'
  BY <1>1, <1>2, OwnedStep
<1>4. RecordOK' /\ JobOK'
  BY SoundStep DEF Sound
<1>5. SettledOK'
  BY <1>1, <1>2, <1>4, SettledOKStep
<1>6. QED
  BY <1>3, <1>5 DEF Judged

\* Chat by chat, that is what ShownMediaWhole says.
LEMMA ShownMediaOf ==
  ASSUME MediaOK
  PROVE  ShownMediaWhole
  BY DEF MediaOK, ShownMediaWhole, Shown

\* And RootUnitsSafe.
LEMMA RootUnitsOf ==
  ASSUME UnitsOK
  PROVE  RootUnitsSafe
<1> SUFFICES ASSUME NEW c \in Chats
             PROVE  c \in chats \cup unwanted \cup UNION {staged[d] : d \in Dirs}
  BY DEF RootUnitsSafe
<1>1. c \in chats \/ c \in unwanted \/ \E d \in Dirs : c \in staged[d]
  BY DEF UnitsOK
<1>2. QED
  BY <1>1

\* Sound always holds.
LEMMA AlwaysSound == Spec => []Sound
  BY InitSound, SoundStep, PTL DEF Spec

\* The rest always holds, where every .owner can be judged.
LEMMA AlwaysJudged ==
  ASSUME "unclear" \notin Faults
  PROVE  Spec => []Judged
<1>1. Sound /\ Judged /\ [Next]_vars => Judged'
  BY JudgedStep
<1>2. QED
  BY InitJudged, AlwaysSound, <1>1, PTL DEF Spec

\* At every step and after every mishap the files, the record and the
\* operation have their types (the rules profile.json is read by).
THEOREM TypesHold == Spec => []TypeOK
<1>1. Sound => TypeOK
  BY TypeParts DEF Sound
<1>2. QED
  BY AlwaysSound, <1>1, PTL

\* Whatever the sign-ins, sign-outs, starts, failed writes, crashes and lost
\* or restored records: each chat of this computer is in root or in an
\* imports/, unless a person deleted or erased it.
THEOREM RootUnitsKept == Spec => []RootUnitsSafe
<1>1. Sound => RootUnitsSafe
  BY RootUnitsOf DEF Sound
<1>2. QED
  BY AlwaysSound, <1>1, PTL

\* A chat a person deleted or erased is never in root again, but from a copy
\* another imports/ held when it went.
THEOREM UnwantedKeptAway == Spec => []UnwantedStaysAway
<1>1. Sound => UnwantedStaysAway
  BY DEF Sound, AwayOK, UnwantedStaysAway
<1>2. QED
  BY AlwaysSound, <1>1, PTL

\* A chat in root has its pictures in root, at every step of an Add and of a
\* put-back, but for one an Add moved while another imports/ needed it.
THEOREM MediaStayWhole == Spec => []ShownMediaWhole
<1>1. Sound => ShownMediaWhole
  BY ShownMediaOf DEF Sound
<1>2. QED
  BY AlwaysSound, <1>1, PTL

\* A committed account folder is there until its sign-out, erase, expiry or
\* failed .owner is on record, at every crash, refused write and lost record,
\* if every .owner can be judged.  One that was committed before an older
\* profile.json came back is excepted until it is committed again: that
\* record names no folder, and a start erases it.  (AccountsUnclear.cfg and
\* AccountsRestored.cfg show why the assumption and the exception are needed.)
THEOREM FoldersStay ==
  ASSUME "unclear" \notin Faults
  PROVE  Spec => []FolderStays
<1>1. Judged => FolderStays
  BY DEF Judged, OwnedOK, Openable, FolderStays, Held
<1>2. QED
  BY AlwaysJudged, <1>1, PTL

\* After a start none of whose steps failed, and whatever is done since
\* without a failure, nothing is left half done: only named folders, nothing
\* owed, to erase or to put back, no chat in an imports/ nobody names, no
\* synced keys in a kept folder.  Again if every .owner can be judged.
THEOREM StartsSettle ==
  ASSUME "unclear" \notin Faults
  PROVE  Spec => []Settled
<1>1. Sound /\ Judged => Settled
  BY SettledOf DEF Sound, Judged
<1>2. QED
  BY AlwaysSound, AlwaysJudged, <1>1, PTL
=============================================================================
