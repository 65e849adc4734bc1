------------------------------ MODULE Accounts ------------------------------
(***************************************************************************)
(* millenai.py, "accounts/: the layout" to profile_kept_erase: signing in  *)
(* to an account and out of it, its kept state, Add (root's chats moved    *)
(* into imports/ once they are in the account), putting them back, and     *)
(* what a start makes of whatever a crash or a refused write left.         *)
(*                                                                         *)
(* The disk is profile.json (rec), the folders of accounts/ (folder, key,  *)
(* owner, ...), imports/ (staged, stagedMedia) and root's own chats and    *)
(* media.  One operation runs at a time (_switch_lock): job says which and *)
(* at which step.  A step is one write of the disk; it can fail, and a     *)
(* crash can fall between any two.                                         *)
(*                                                                         *)
(* A folder being built (.new-) has the name it is to get.  Putting       *)
(* something in the trash stands for deleting it.                          *)
(***************************************************************************)
EXTENDS FiniteSets, Naturals

CONSTANTS
  Dirs,       \* names of account folders (32 hex); an unused one is a fresh one
  Accts,      \* account ids
  Chats,      \* the chats of "This computer"
  Media,      \* its pictures and videos
  Shows,      \* the media each chat shows (_chat_media)
  Faults,     \* what may go wrong besides the program
  MaxFaults,  \* how often, in one history
  Local,      \* "local": This computer
  None

AllFaults == {"crash", "fail", "lost", "restored", "foreign", "unclear"}

\* kept's reason; "record-lost" is signed-out with that cause (profile_resume).
Reasons == {"signed-out", "removed", "deleted", "record-lost"}

\* What the sheet's question about units only imports/ holds is answered.
Answers == {"putback", "erase"}

ASSUME AccountsAssumption ==
  /\ IsFiniteSet(Dirs)
  /\ Shows \in [Chats -> SUBSET Media]
  /\ Faults \subseteq AllFaults
  /\ MaxFaults \in Nat
  /\ Local \notin Dirs /\ None \notin Dirs \cup Accts \cup {Local} \cup Reasons \cup Answers

VARIABLES
  rec,          \* profile.json
  folder,       \* accounts/<dir>: none, new (.new-), there
  acct,         \* whose it is (account.key's acct_id)
  key,          \* folders that hold their account.key
  owner,        \* what .owner tells: ok, foreign (fails), unclear (damaged)
  synced,       \* folders that hold synced provider keys
  man,          \* what its Add took: chats and media (sync/state.json)
  staged,       \* the units of imports/<dir>/units.json
  stagedMedia,  \* the files of imports/<dir>/media
  chats,        \* root's chats
  media,        \* root's media
  phase,        \* down, boot, up
  ctx,          \* the active profile
  job,          \* the operation under way
  faults,       \* faults so far
  calm,         \* no step has failed since the start
  owned,        \* committed account folders no recorded decision covers
  disowned,     \* folders committed when a record that names nobody came back
  unwanted,     \* chats a person deleted in root or chose to erase
  copied,       \* those of them another imports/ still held
  borrowed      \* media an Add moved although another imports/ still needs it

disk == <<folder, acct, key, owner, synced, man, staged, stagedMedia, chats, media>>
told == <<owned, disowned, unwanted, copied, borrowed>>
run == <<phase, ctx, job, faults, calm>>
vars == <<rec, disk, run, told>>

Choices == {None} \cup Answers
StageSteps == {"stage.units", "stage.chats", "stage.media", "stage.done"}
PutbackSteps == {"putback.media", "putback.chats", "putback.drop", "putback.erase"}
ImportSteps == {"import.erase", "import.drop"}
BootSteps == {"boot.active", "boot.kept", "boot.sweep", "boot.erase", "boot.imports",
              "boot.step6", "boot.putback", "boot.resume"}
Ops == {"idle", "signin", "signout", "keep", "kept-erase", "boot"}
Steps == {"idle"} \cup StageSteps \cup PutbackSteps \cup ImportSteps \cup BootSteps \cup
  {"hold", "look", "forget", "build", "add", "rename", "undo", "commit", "enter",
   "erase.folder", "keys"}

Job(op, at, d) ==
  [op |-> op, at |-> at, dir |-> d, acct |-> None, add |-> {}, erase |-> FALSE,
   choice |-> None, reason |-> None, owed |-> FALSE, todo |-> {}]
NoJob == Job("idle", "idle", None)
Jobs ==
  [op : Ops, at : Steps, dir : Dirs \cup {None}, acct : Accts \cup {None},
   add : SUBSET Chats, erase : BOOLEAN, choice : Choices, reason : Reasons \cup {None},
   owed : BOOLEAN, todo : SUBSET Dirs]

TypeOK ==
  /\ rec \in [known : BOOLEAN, active : Dirs \cup {Local}, kept : Dirs \cup {None},
              reason : Reasons \cup {None}, past : BOOLEAN, putback : SUBSET Dirs,
              erase : SUBSET Dirs, pending : BOOLEAN]
  /\ folder \in [Dirs -> {"none", "new", "there"}]
  /\ acct \in [Dirs -> Accts \cup {None}]
  /\ key \in SUBSET Dirs
  /\ owner \in [Dirs -> {"ok", "foreign", "unclear"}]
  /\ synced \in SUBSET Dirs
  /\ man \in [Dirs -> [chats : SUBSET Chats, media : SUBSET Media]]
  /\ staged \in [Dirs -> SUBSET Chats]
  /\ stagedMedia \in [Dirs -> SUBSET Media]
  /\ chats \in SUBSET Chats
  /\ media \in SUBSET Media
  /\ phase \in {"down", "boot", "up"}
  /\ ctx \in Dirs \cup {Local}
  /\ job \in Jobs
  /\ faults \in 0..MaxFaults
  /\ calm \in BOOLEAN
  /\ owned \in SUBSET Dirs /\ disowned \in SUBSET Dirs
  /\ unwanted \in SUBSET Chats /\ copied \in SUBSET Chats /\ borrowed \in SUBSET Media
  /\ rec.kept = None <=> rec.reason = None
  /\ rec.putback \cap rec.erase = {}

Shown(C) == UNION {Shows[c] : c \in C}

\* A record with no "active": lost, or never this build's.
Lost == [known |-> FALSE, active |-> Local, kept |-> None, reason |-> None, past |-> FALSE,
         putback |-> {}, erase |-> {}, pending |-> FALSE]
Fresh == [Lost EXCEPT !.known = TRUE]

\* _named: the folders the record names; none when it has no "active".
Active(r) == IF r.known /\ r.active # Local THEN {r.active} ELSE {}
Kept(r) == IF r.known /\ r.kept # None THEN {r.kept} ELSE {}
Named(r) == Active(r) \cup Kept(r)

\* _undecided: folders and imports nobody decides on when the record is lost.
Undecided == {d \in Dirs : folder[d] # "none" \/ staged[d] # {}}

\* owner_check, _account_openable.
OwnerFails(d) == d \in key /\ owner[d] = "foreign"
Openable(d) == folder[d] = "there" /\ d \in key /\ owner[d] = "ok"

\* _profile_fields: what every bare switch writes for the profile it enters.
Fields(r, c) ==
  IF ~r.known /\ c = Local /\ Undecided # {} THEN r
  ELSE [r EXCEPT !.known = TRUE, !.active = c]

\* _imported_count: what imports/<d> holds that root doesn't.
OnlyStaged(d) == staged[d] \ chats

\* A person deletes or erases chats C; imports/d goes with them.
Unwant(C, d) ==
  /\ unwanted' = unwanted \cup C
  /\ copied' = copied \cup (C \cap UNION {staged[e] : e \in Dirs \ {d}})
  /\ UNCHANGED <<disowned, borrowed>>

\* _pb_add, _er_add: a name is on one list or the other.
PutbackAdd(r, D) == [r EXCEPT !.putback = @ \cup D, !.erase = @ \ D]

EraseAdd(r, d) == [r EXCEPT !.erase = @ \cup {d}, !.putback = @ \ {d}]

Init ==
  /\ rec = Fresh
  /\ folder = [d \in Dirs |-> "none"]
  /\ acct = [d \in Dirs |-> None]
  /\ key = {} /\ synced = {}
  /\ owner = [d \in Dirs |-> "ok"]
  /\ man = [d \in Dirs |-> [chats |-> {}, media |-> {}]]
  /\ staged = [d \in Dirs |-> {}] /\ stagedMedia = [d \in Dirs |-> {}]
  /\ chats = Chats /\ media = Media
  /\ phase = "up" /\ ctx = Local /\ job = NoJob
  /\ faults = 0 /\ calm = TRUE
  /\ owned = {} /\ disowned = {} /\ unwanted = {} /\ copied = {} /\ borrowed = {}

---------------------------------------------------------------------------
(* One operation at a time. *)

Idle == phase = "up" /\ job = NoJob
Begin(j) == Idle /\ job' = j /\ UNCHANGED <<rec, disk, phase, ctx, faults, calm, told>>

\* profile_signin: account a, with what the Add ticked and the answer to
\* the offer to erase a folder already here.
SignIn(a, add, erase) ==
  /\ ctx = Local
  /\ Begin([Job("signin", "hold", None) EXCEPT !.acct = a, !.add = add, !.erase = erase])

\* profile_signout, after the sheet's question.
SignOut(choice) ==
  /\ ctx # Local
  /\ OnlyStaged(ctx) # {} => choice # None
  /\ Begin([Job("signout", "hold", ctx) EXCEPT !.choice = choice])

\* profile_keep: signed out by the server, removed or deleted.
Keep(reason) ==
  /\ ctx # Local
  /\ Begin([Job("keep", "hold", ctx) EXCEPT !.reason = reason])

\* profile_kept_erase, which holds nothing: an Add still owed is staged,
\* then the question asked.
KeptErase(choice) ==
  /\ ctx = Local /\ Kept(rec) # {}
  /\ LET d == rec.kept IN
     Begin([Job("kept-erase", IF rec.pending /\ Openable(d) THEN "stage.units" ELSE "commit", d)
              EXCEPT !.choice = choice])

\* The page in use: a chat of root deleted, a synced key saved in an account.
DeleteChat(c) ==
  /\ Idle /\ ctx = Local /\ c \in chats
  /\ chats' = chats \ {c} /\ Unwant({c}, None)
  /\ UNCHANGED <<rec, folder, acct, key, owner, synced, man, staged, stagedMedia, media,
                 run, owned>>

SaveKey ==
  /\ Idle /\ ctx # Local
  /\ synced' = synced \cup {ctx}
  /\ UNCHANGED <<rec, folder, acct, key, owner, man, staged, stagedMedia, chats, media, run, told>>

Quit ==
  /\ Idle
  /\ phase' = "down" /\ ctx' = Local
  /\ UNCHANGED <<rec, disk, job, faults, calm, told>>

---------------------------------------------------------------------------
(* Steps.  Each is the step's success; Fail has what a failure leads to. *)

At(s) == phase # "down" /\ job.at = s
Goto(s) == job' = [job EXCEPT !.at = s]
GotoWith(s, D) == job' = [job EXCEPT !.at = s, !.todo = D]
End == job' = NoJob
Same == UNCHANGED <<phase, ctx, faults, calm>>

\* _hold: the same profile under a new epoch.
Hold ==
  /\ At("hold")
  /\ rec' = Fields(rec, ctx)
  /\ Goto(CASE job.op = "signin" -> "look"
            [] job.op # "signin" /\ rec.pending -> "stage.units"
            [] OTHER -> "commit")
  /\ Same /\ UNCHANGED <<disk, told>>

\* Sign-in step 2, each turn of its loop.
SameAccount(d) == d \in key /\ acct[d] = job.acct

LookUndecided ==
  /\ At("look") /\ ~rec.known /\ Undecided # {}
  /\ End /\ Same /\ UNCHANGED <<rec, disk, told>>

LookNone ==
  /\ At("look") /\ Named(rec) = {} /\ (~rec.known => Undecided = {})
  /\ \E d \in Dirs \ (Undecided \cup rec.putback \cup rec.erase) :
       job' = [job EXCEPT !.at = "build", !.dir = d]
  /\ Same /\ UNCHANGED <<rec, disk, told>>

\* The same account again: resumed, unless a deletion proof named it.
LookSame ==
  /\ At("look")
  /\ \E d \in Named(rec) :
       /\ SameAccount(d)
       /\ IF d \in Kept(rec) /\ rec.reason = "deleted"
          THEN End /\ UNCHANGED rec
          ELSE /\ owner[d] = "ok"
               /\ rec' = [rec EXCEPT !.active = d, !.kept = None, !.reason = None, !.past = FALSE]
               /\ job' = [job EXCEPT !.at = "enter", !.dir = d]
  /\ Same /\ UNCHANGED <<disk, told>>

\* Another's, or one that doesn't verify: its Add is finished, then it is
\* erased if the person said so.
LookOther ==
  /\ At("look")
  /\ \E d \in Named(rec) :
       /\ ~(SameAccount(d) /\ (owner[d] = "ok" \/ rec.reason = "deleted"))
       /\ IF rec.pending /\ Openable(d)
          THEN job' = [job EXCEPT !.at = "stage.units", !.dir = d]
          ELSE IF job.erase THEN job' = [job EXCEPT !.at = "forget", !.dir = d] ELSE End
  /\ Same /\ UNCHANGED <<rec, disk, told>>

\* Mutant: why it was kept stays behind.
UnnameOnly(r, d) ==
  LET a == IF r.active = d THEN [r EXCEPT !.active = Local, !.pending = FALSE] ELSE r IN
  IF a.kept = d THEN [a EXCEPT !.kept = None, !.pending = FALSE] ELSE a

\* The choice recorded first, with the staged units'.
Unname(r, d) ==
  LET a == IF r.active = d THEN [r EXCEPT !.active = Local, !.pending = FALSE] ELSE r IN
  IF a.kept = d
  THEN [a EXCEPT !.kept = None, !.reason = None, !.past = FALSE, !.pending = FALSE] ELSE a

Forget ==
  /\ At("forget")
  /\ LET r == Unname(rec, job.dir) IN
     rec' = IF staged[job.dir] # {} THEN EraseAdd(r, job.dir)
            ELSE [r EXCEPT !.putback = @ \ {job.dir}]
  /\ owned' = owned \ {job.dir} /\ Unwant(OnlyStaged(job.dir), job.dir)
  /\ Goto("erase.folder")
  /\ Same /\ UNCHANGED disk

\* Steps 3 and 4: .new-*, then what was ticked copied in.
Build ==
  /\ At("build")
  /\ folder' = [folder EXCEPT ![job.dir] = "new"]
  /\ acct' = [acct EXCEPT ![job.dir] = job.acct]
  /\ owner' = [owner EXCEPT ![job.dir] = "ok"]
  /\ key' = key \cup {job.dir}
  /\ Goto("add")
  /\ Same /\ UNCHANGED <<rec, synced, man, staged, stagedMedia, chats, media, told>>

AddBuild ==
  /\ At("add")
  /\ LET C == job.add \cap chats IN
     man' = [man EXCEPT ![job.dir] = [chats |-> C, media |-> Shown(C) \cap media]]
  /\ job' = Job("signin", "rename", job.dir)
  /\ Same /\ UNCHANGED <<rec, folder, acct, key, owner, synced, staged, stagedMedia, chats,
                         media, told>>

\* Step 5: the rename, then profile.json.
Rename ==
  /\ At("rename")
  /\ folder' = [folder EXCEPT ![job.dir] = "there"]
  /\ Goto("commit")
  /\ Same /\ UNCHANGED <<rec, acct, key, owner, synced, man, staged, stagedMedia, chats, media,
                         told>>

CommitSignIn ==
  /\ At("commit") /\ job.op = "signin"
  /\ LET added == man[job.dir].chats # {} IN
     /\ rec' = [rec EXCEPT !.known = TRUE, !.active = job.dir, !.kept = None, !.reason = None,
                           !.past = FALSE, !.pending = added]
     /\ Goto(IF added THEN "stage.units" ELSE "enter")
  /\ owned' = owned \cup {job.dir} /\ disowned' = disowned \ {job.dir}
  /\ Same /\ UNCHANGED <<disk, unwanted, copied, borrowed>>

\* The account window closed before the commit.
CancelSignIn ==
  /\ At("rename")
  /\ Goto("undo")
  /\ Same /\ UNCHANGED <<rec, disk, told>>

CancelSignOut ==
  /\ At("commit") /\ job.op = "signout"
  /\ End /\ Same /\ UNCHANGED <<rec, disk, told>>

\* Mutant: a choice to erase is not recorded, only done.
AnsweredUnrecorded(r, d) == IF job.choice = "putback" THEN PutbackAdd(r, {d}) ELSE r

\* Sign-out step 7, and kept Erase: active or kept goes, with the answer.
Answered(r, d) ==
  CASE job.choice = "putback" -> PutbackAdd(r, {d})
    [] job.choice # "putback" /\ staged[d] # {} /\ (job.choice = "erase" \/ job.op = "kept-erase")
         -> EraseAdd(r, d)
    [] OTHER -> r

CommitSignOut ==
  /\ At("commit") /\ job.op \in {"signout", "kept-erase"}
  /\ IF OnlyStaged(job.dir) # {} /\ job.choice = None
     THEN End /\ UNCHANGED <<rec, told>>
     ELSE LET r == [rec EXCEPT !.kept = None, !.reason = None, !.past = FALSE, !.pending = FALSE]
          IN
          /\ rec' = Answered(IF job.op = "signout" THEN [r EXCEPT !.active = Local] ELSE r, job.dir)
          /\ owned' = owned \ {job.dir}
          /\ Unwant(IF job.choice = "putback" THEN {} ELSE OnlyStaged(job.dir), job.dir)
          /\ Goto(IF job.op = "signout" THEN "enter" ELSE "erase.folder")
  /\ Same /\ UNCHANGED disk

\* The kept state's commit, then its keys.
CommitKeep ==
  /\ At("commit") /\ job.op = "keep"
  /\ rec' = [rec EXCEPT !.active = Local, !.kept = job.dir, !.reason = job.reason,
                        !.past = FALSE, !.pending = job.owed]
  /\ Goto("keys")
  /\ Same /\ UNCHANGED <<disk, told>>

KeptKeys ==
  /\ At("keys")
  /\ synced' = synced \ {job.dir}
  /\ Goto("enter")
  /\ Same /\ UNCHANGED <<rec, folder, acct, key, owner, man, staged, stagedMedia, chats, media, told>>

\* profile_switch: the epoch moves, then the record says so.
Entered == IF job.op = "signin" THEN job.dir ELSE Local
AfterEnter == IF job.op = "signout" THEN Goto("erase.folder") ELSE End

Enter ==
  /\ At("enter")
  /\ ctx' = Entered /\ rec' = Fields(rec, Entered)
  /\ AfterEnter
  /\ UNCHANGED <<disk, phase, faults, calm, told>>

\* Mutant: the units a person chose to erase wait for the next start.
AfterEraseEnds ==
  CASE job.choice = "putback" -> Goto("putback.media")
    [] OTHER -> IF job.op = "signin" THEN Goto("look") ELSE End

\* _erase_folder on an account folder: the key first, then the folder.
AfterErase ==
  CASE job.choice = "putback" -> Goto("putback.media")
    [] job.choice # "putback" /\ job.dir \in rec.erase -> Goto("import.erase")
    [] OTHER -> IF job.op = "signin" THEN Goto("look") ELSE End

Gone(d) ==
  /\ folder' = [folder EXCEPT ![d] = "none"]
  /\ acct' = [acct EXCEPT ![d] = None]
  /\ owner' = [owner EXCEPT ![d] = "ok"]
  /\ man' = [man EXCEPT ![d] = [chats |-> {}, media |-> {}]]
  /\ key' = key \ {d} /\ synced' = synced \ {d}
  /\ UNCHANGED <<staged, stagedMedia, chats, media>>

EraseFolder ==
  /\ At("erase.folder")
  /\ Gone(job.dir) /\ AfterErase
  /\ Same /\ UNCHANGED <<rec, told>>

Undo ==
  /\ At("undo")
  /\ Gone(job.dir) /\ End
  /\ Same /\ UNCHANGED <<rec, told>>

\* _imported_erase: imports/<dir>, then its place on the erase list.
AfterImport == CASE job.op = "signin" -> Goto("look")
                 [] job.op = "boot" -> Goto("boot.erase")
                 [] OTHER -> End

ImportErase ==
  /\ At("import.erase")
  /\ staged' = [staged EXCEPT ![job.dir] = {}]
  /\ stagedMedia' = [stagedMedia EXCEPT ![job.dir] = {}]
  /\ Goto("import.drop")
  /\ Same /\ UNCHANGED <<rec, folder, acct, key, owner, synced, man, chats, media, told>>

ImportDrop ==
  /\ At("import.drop")
  /\ rec' = [rec EXCEPT !.erase = @ \ {job.dir}]
  /\ AfterImport
  /\ Same /\ UNCHANGED <<disk, told>>

---------------------------------------------------------------------------
(* _add_stage: root's originals into imports/<dir>, the media last. *)

\* Mutant: a second try writes the list of units anew.
StageUnitsAnew ==
  /\ At("stage.units")
  /\ staged' = [staged EXCEPT ![job.dir] = man[job.dir].chats \cap chats]
  /\ Goto("stage.chats")
  /\ Same /\ UNCHANGED <<rec, folder, acct, key, owner, synced, man, stagedMedia, chats, media, told>>

StageUnits ==
  /\ At("stage.units")
  /\ staged' = [staged EXCEPT ![job.dir] = @ \cup (man[job.dir].chats \cap chats)]
  /\ Goto("stage.chats")
  /\ Same /\ UNCHANGED <<rec, folder, acct, key, owner, synced, man, stagedMedia, chats, media, told>>

StageChats ==
  /\ At("stage.chats")
  /\ chats' = chats \ man[job.dir].chats
  /\ Goto("stage.media")
  /\ Same /\ UNCHANGED <<rec, folder, acct, key, owner, synced, man, staged, stagedMedia, media, told>>

\* Mutant: every file the Add took, whoever shows it.
ToStageAll == man[job.dir].media \cap media

\* One file at a time, none a chat of root still shows.
ToStage == (man[job.dir].media \cap media) \ Shown(chats)

StageMedia ==
  /\ At("stage.media")
  /\ \/ \E f \in ToStage :
          /\ media' = media \ {f}
          /\ stagedMedia' = [stagedMedia EXCEPT ![job.dir] = @ \cup {f}]
          /\ borrowed' = IF \E e \in Dirs \ {job.dir} : f \in Shown(staged[e])
                         THEN borrowed \cup {f} ELSE borrowed
          /\ UNCHANGED job
     \/ /\ ToStage = {}
        /\ Goto("stage.done")
        /\ UNCHANGED <<media, stagedMedia, borrowed>>
  /\ Same /\ UNCHANGED <<rec, folder, acct, key, owner, synced, man, staged, chats,
                         owned, disowned, unwanted, copied>>

StageDone ==
  /\ At("stage.done")
  /\ rec' = [rec EXCEPT !.pending = FALSE]
  /\ CASE job.op = "signin" -> Goto(IF rec.active = job.dir THEN "enter" ELSE "look")
       [] job.op = "boot" -> GotoWith("boot.putback", rec.putback)
       [] OTHER -> Goto("commit")
  /\ Same /\ UNCHANGED <<disk, told>>

(* _putback_finish: media, chats, the record, and only then the erase. *)

ToPutBack == (Shown(staged[job.dir]) \cap stagedMedia[job.dir]) \ media
PutbackMedia ==
  /\ At("putback.media")
  /\ \/ \E f \in ToPutBack :
          /\ media' = media \cup {f}
          /\ stagedMedia' = [stagedMedia EXCEPT ![job.dir] = @ \ {f}]
          /\ UNCHANGED job
     \/ /\ ToPutBack = {}
        /\ Goto("putback.chats")
        /\ UNCHANGED <<media, stagedMedia>>
  /\ Same /\ UNCHANGED <<rec, folder, acct, key, owner, synced, man, staged, chats, told>>

PutbackChats ==
  /\ At("putback.chats")
  /\ chats' = chats \cup staged[job.dir]
  /\ Goto("putback.drop")
  /\ Same /\ UNCHANGED <<rec, folder, acct, key, owner, synced, man, staged, stagedMedia, media, told>>

PutbackDrop ==
  /\ At("putback.drop")
  /\ rec' = [rec EXCEPT !.putback = @ \ {job.dir}]
  /\ Goto("putback.erase")
  /\ Same /\ UNCHANGED <<disk, told>>

PutbackErase ==
  /\ At("putback.erase")
  /\ staged' = [staged EXCEPT ![job.dir] = {}]
  /\ stagedMedia' = [stagedMedia EXCEPT ![job.dir] = {}]
  /\ IF job.op = "boot" THEN Goto("boot.putback") ELSE End
  /\ Same /\ UNCHANGED <<rec, folder, acct, key, owner, synced, man, chats, media, told>>

---------------------------------------------------------------------------
(* A start: boot_invariant, profile_boot_pending, profile_resume. *)

Start ==
  /\ phase = "down"
  /\ phase' = "boot" /\ calm' = TRUE
  /\ job' = Job("boot", "boot.active", None)
  /\ UNCHANGED <<rec, disk, ctx, faults, told>>

\* The named folder d goes: its Add's units are put back (_lost).
Dropped(r, d) ==
  LET u == Unname(r, d) IN IF staged[d] # {} THEN PutbackAdd(u, {d}) ELSE u

BootActive ==
  /\ At("boot.active")
  /\ LET keyless == Active(rec) \ key IN
     rec' = CASE \E d \in Active(rec) : folder[d] # "there" \/ OwnerFails(d)
                   -> Dropped(rec, rec.active)
              [] \E d \in Active(rec) : folder[d] = "there" /\ d \in keyless /\ rec.kept = None
                   -> [rec EXCEPT !.active = Local, !.kept = rec.active, !.reason = "signed-out"]
              [] OTHER -> rec
  /\ owned' = owned \ (Active(rec) \ Named(rec'))
  /\ Goto("boot.kept")
  /\ Same /\ UNCHANGED <<disk, disowned, unwanted, copied, borrowed>>

\* Mutant: a lost record names nobody, so every folder goes.
UnnamedLost(r) == {d \in Dirs : folder[d] # "none"} \ Named(r)

\* Every folder nobody names is erased; of a lost record, only .new-*.
Unnamed(r) == IF r.known THEN {d \in Dirs : folder[d] # "none"} \ Named(r)
              ELSE {d \in Dirs : folder[d] = "new"}

BootKept ==
  /\ At("boot.kept")
  /\ LET goes == {d \in Kept(rec) : folder[d] # "there" \/ rec.past \/ OwnerFails(d)} IN
     /\ rec' = IF goes # {} THEN Dropped(rec, rec.kept) ELSE rec
     /\ owned' = owned \ goes
     /\ synced' = synced \ (Kept(rec) \ goes)
     /\ GotoWith("boot.sweep", Unnamed(rec'))
  /\ Same /\ UNCHANGED <<folder, acct, key, owner, man, staged, stagedMedia, chats, media,
                         disowned, unwanted, copied, borrowed>>

BootSweep ==
  /\ At("boot.sweep")
  /\ \/ \E d \in job.todo : Gone(d) /\ GotoWith("boot.sweep", job.todo \ {d})
     \/ job.todo = {} /\ GotoWith("boot.erase", rec.erase) /\ UNCHANGED disk
  /\ Same /\ UNCHANGED <<rec, told>>

BootErase ==
  /\ At("boot.erase")
  /\ \/ \E d \in job.todo :
          job' = [job EXCEPT !.at = "import.erase", !.dir = d, !.todo = @ \ {d}]
     \/ job.todo = {} /\ Goto("boot.imports")
  /\ Same /\ UNCHANGED <<rec, disk, told>>

\* Staged units nobody names go back into root.
Orphans == {d \in Dirs : /\ staged[d] # {}
                         /\ d \notin rec.erase
                         /\ IF rec.known THEN d \notin Named(rec) ELSE folder[d] # "there"}
BootImports ==
  /\ At("boot.imports")
  /\ rec' = PutbackAdd(rec, Orphans)
  /\ Goto("boot.step6")
  /\ Same /\ UNCHANGED <<disk, told>>

\* An Add still owed by the active or else the kept folder.
Target == IF Active(rec) # {} THEN Active(rec) ELSE Kept(rec)
BootStep6 ==
  /\ At("boot.step6")
  /\ \/ /\ rec.pending
        /\ \E d \in Target : Openable(d) /\ job' = [job EXCEPT !.at = "stage.units", !.dir = d]
     \/ /\ rec.pending => \A d \in Target : ~Openable(d)
        /\ GotoWith("boot.putback", rec.putback)
  /\ Same /\ UNCHANGED <<rec, disk, told>>

BootPutback ==
  /\ At("boot.putback")
  /\ \/ \E d \in job.todo :
          job' = [job EXCEPT !.at = "putback.media", !.dir = d, !.todo = @ \ {d}]
     \/ job.todo = {} /\ Goto("boot.resume")
  /\ Same /\ UNCHANGED <<rec, disk, told>>

\* profile_resume: the profile the record names, or This computer; a lost
\* record with a single folder makes that one kept.
Resumed ==
  LET open == {d \in Active(rec) : Openable(d)}
      alone == {d \in Dirs : folder[d] = "there" /\ Undecided \subseteq {d} /\ rec.kept = None}
  IN
  CASE open # {} -> Fields(rec, rec.active)
    [] ~rec.known /\ Undecided # {} ->
         IF alone # {}
         THEN [rec EXCEPT !.known = TRUE, !.kept = CHOOSE d \in alone : TRUE,
                          !.reason = "record-lost", !.pending = FALSE]
         ELSE rec
    [] open = {} /\ Active(rec) # {} -> rec
    [] OTHER -> Fields(rec, Local)

BootResume ==
  /\ At("boot.resume")
  /\ rec' = Resumed
  /\ ctx' = IF \E d \in Active(rec) : Openable(d) THEN rec.active ELSE Local
  /\ phase' = "up" /\ End
  /\ UNCHANGED <<disk, faults, calm, told>>

---------------------------------------------------------------------------
(* What may go wrong, MaxFaults times in one history. *)

Fault(kind) == kind \in Faults /\ faults < MaxFaults /\ faults' = faults + 1

\* _erase_folder may have got as far as the key.
KeyMayGo(d) == key' \in {key, key \ {d}}

\* A step's write is refused.  What the code goes on with:
StageFailed ==
  CASE job.op = "signin" /\ rec.active = job.dir -> Goto("enter")
    [] job.op = "keep" -> job' = [job EXCEPT !.at = "commit", !.owed = TRUE]
    [] job.op = "boot" -> GotoWith("boot.putback", rec.putback)
    [] OTHER -> End

Refused == Fault("fail") /\ calm' = FALSE /\ UNCHANGED <<told, folder, acct, owner, synced, man,
                                                       staged, stagedMedia, chats, media>>

FailStep ==
  /\ phase # "down" /\ Refused
  /\ CASE job.at \in {"build", "add", "rename"} -> Goto("undo")
       [] job.at \in StageSteps -> StageFailed
       [] job.at \in PutbackSteps -> IF job.op = "boot" THEN Goto("boot.putback") ELSE End
       [] job.at = "import.erase" -> IF job.op = "boot" THEN Goto("boot.erase") ELSE End
       [] job.at = "import.drop" -> IF job.op = "boot" THEN Goto("boot.step6") ELSE End
       [] job.at = "keys" -> Goto("enter")
       [] job.at \in {"boot.active", "boot.kept", "boot.imports"} -> Goto("boot.step6")
       [] OTHER -> job.at \in {"hold", "look", "forget", "commit"} /\ End
  /\ UNCHANGED <<rec, key, phase, ctx>>

\* The keys of a kept folder wait for the next start.
FailBootKeys ==
  /\ At("boot.kept") /\ Refused
  /\ \E d \in Kept(rec) : folder[d] = "there" /\ ~rec.past /\ ~OwnerFails(d)
  /\ GotoWith("boot.sweep", Unnamed(rec))
  /\ UNCHANGED <<rec, key, phase, ctx>>

FailErase ==
  /\ phase # "down" /\ Refused
  /\ job.at \in {"erase.folder", "undo"}
  /\ IF job.at = "undo" \/ job.op = "signin" THEN End ELSE AfterErase
  /\ KeyMayGo(job.dir)
  /\ UNCHANGED <<rec, phase, ctx>>

FailSweep ==
  /\ At("boot.sweep") /\ Refused
  /\ \E d \in job.todo : KeyMayGo(d) /\ GotoWith("boot.sweep", job.todo \ {d})
  /\ UNCHANGED <<rec, phase, ctx>>

\* The epoch moves although the record can't be written.
FailEnter ==
  /\ At("enter") /\ Refused
  /\ ctx' = Entered /\ End
  /\ UNCHANGED <<rec, key, phase>>

\* Entering the account fails the start; This computer runs anyway.
FailResume ==
  /\ At("boot.resume") /\ Refused
  /\ End
  /\ phase' = IF \E d \in Active(rec) : Openable(d) THEN "down" ELSE "up"
  /\ UNCHANGED <<rec, key, ctx>>

\* A power cut between two steps.
Crash ==
  /\ phase # "down" /\ Fault("crash")
  /\ phase' = "down" /\ ctx' = Local /\ job' = NoJob
  /\ IF job.at \in {"erase.folder", "undo"} THEN KeyMayGo(job.dir)
     ELSE IF job.at = "boot.sweep" /\ job.todo # {} THEN \E d \in job.todo : KeyMayGo(d)
     ELSE UNCHANGED key
  /\ UNCHANGED <<rec, folder, acct, owner, synced, man, staged, stagedMedia, chats, media, calm,
                 told>>

\* While the app is closed: profile.json goes, or comes back from before
\* the first sign-in; what it still owed is no longer owed.
Forgotten == unwanted' = unwanted \ UNION {staged[d] : d \in Dirs}

LoseRecord ==
  /\ phase = "down" /\ Fault("lost")
  /\ rec' = Lost /\ Forgotten
  /\ UNCHANGED <<disk, phase, ctx, job, calm, owned, disowned, copied, borrowed>>

RestoreRecord ==
  /\ phase = "down" /\ Fault("restored")
  /\ rec' = Fresh /\ Forgotten /\ disowned' = disowned \cup owned
  /\ UNCHANGED <<disk, phase, ctx, job, calm, owned, copied, borrowed>>

\* An .owner that fails, or one no keyring can check.
SpoilOwner(d, o) ==
  /\ phase = "down" /\ folder[d] = "there" /\ owner[d] = "ok" /\ Fault(o)
  /\ owner' = [owner EXCEPT ![d] = o]
  /\ owned' = IF o = "foreign" THEN owned \ {d} ELSE owned
  /\ UNCHANGED <<rec, folder, acct, key, synced, man, staged, stagedMedia, chats, media,
                 phase, ctx, job, calm, disowned, unwanted, copied, borrowed>>

\* Seven days pass for a removed or deleted account's folder.
Expire ==
  /\ phase = "down" /\ rec.reason \in {"removed", "deleted"} /\ ~rec.past
  /\ rec' = [rec EXCEPT !.past = TRUE]
  /\ UNCHANGED <<disk, run, told>>

---------------------------------------------------------------------------
Ask ==
  \/ \E a \in Accts, add \in SUBSET Chats, e \in BOOLEAN : SignIn(a, add, e)
  \/ \E c \in Choices : SignOut(c) \/ KeptErase(c)
  \/ \E r \in {"signed-out", "removed", "deleted"} : Keep(r)
  \/ \E c \in Chats : DeleteChat(c)
  \/ SaveKey \/ Quit
SignInStep ==
  \/ LookUndecided \/ LookNone \/ LookSame \/ LookOther \/ Forget \/ Build \/ AddBuild \/ Rename
  \/ CommitSignIn \/ CancelSignIn \/ Undo
Step ==
  \/ Hold \/ SignInStep \/ CommitSignOut \/ CancelSignOut \/ CommitKeep \/ KeptKeys \/ Enter
  \/ EraseFolder \/ ImportErase \/ ImportDrop
  \/ StageUnits \/ StageChats \/ StageMedia \/ StageDone
  \/ PutbackMedia \/ PutbackChats \/ PutbackDrop \/ PutbackErase
BootStep ==
  \/ BootActive \/ BootKept \/ BootSweep \/ BootErase \/ BootImports \/ BootStep6 \/ BootPutback
  \/ BootResume
Mishap ==
  \/ FailStep \/ FailBootKeys \/ FailErase \/ FailSweep \/ FailEnter \/ FailResume \/ Crash
  \/ LoseRecord \/ RestoreRecord \/ Expire
  \/ \E d \in Dirs, o \in {"foreign", "unclear"} : SpoilOwner(d, o)
Next == Ask \/ Step \/ Start \/ BootStep \/ Mishap

Spec == Init /\ [][Next]_vars

---------------------------------------------------------------------------
\* No chat of this computer is ever lost: it is in root, or staged where a
\* start finds it, or a person erased or deleted it (I12).
RootUnitsSafe ==
  Chats \subseteq chats \cup unwanted \cup UNION {staged[d] : d \in Dirs}

\* A chat a person deleted or erased never comes back, but from an
\* imports/ that still held a copy.
UnwantedStaysAway == unwanted \cap chats \subseteq copied

\* The same without the exception.
ErasedNeverBack == unwanted \cap chats = {}

\* A chat in root has its pictures in root, at every step of an Add and of
\* a put-back, but for one an Add moved while another imports/ waits to go
\* back with a chat that shows it.
ShownMediaWhole == Shown(chats) \subseteq media \cup borrowed

\* The same without the exception: what _putback promises.
PutBackWhole == Shown(chats) \subseteq media

\* An account folder goes only once its sign-out, its erase, its expiry or
\* a failed .owner is on record, but for one committed before an older
\* profile.json came back that does not name it: a start takes it for a
\* folder nobody names and erases it.
FolderStays == \A d \in owned \ disowned : folder[d] = "there"

\* The same without the exception.
FolderGoesDecided == \A d \in owned : folder[d] = "there"

\* After a start none of whose steps failed, whatever was done since
\* without a failure: only named folders, no chat waiting in an imports/
\* nobody names, nothing owed, and no synced key in a kept folder.
Settled ==
  Idle /\ calm /\ rec.known =>
    /\ \A d \in Dirs : folder[d] # "none" => d \in Named(rec)
    /\ UNION {OnlyStaged(d) : d \in Dirs}
         \subseteq unwanted \cup UNION {staged[d] : d \in Named(rec)}
    /\ rec.putback = {} /\ rec.erase = {}
    /\ rec.pending => \A d \in Target : ~Openable(d)
    /\ rec.reason # "record-lost" => rec.kept \notin synced
=============================================================================
