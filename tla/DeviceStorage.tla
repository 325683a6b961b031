---------------------------- MODULE DeviceStorage ----------------------------
(***************************************************************************)
(* Saved games of the native app: DeviceStorage, a synchronous map whose   *)
(* changes become durable asynchronously (live-arena/src/device-storage.ts *)
(* ), over NativeCheckpoint, which writes the whole map as a new revision  *)
(* of a file (native-checkpoint.ts), over the files of the app.            *)
(*                                                                         *)
(* One process at a time has the store open.  It may die at any step; file *)
(* operations may fail one by one.  A change is numbered by `edit', which  *)
(* stands for this.version without starting again in the next process, and *)
(* the value a setItem stores is the number of that change.                *)
(***************************************************************************)
EXTENDS Integers, FiniteSets

CONSTANTS
    Keys,         \* storage keys: matches, practice memory, opt-out
    MaxEdits,     \* bound: changes made in all processes together
    MaxRevision,  \* bound: the last revision a save may start
    MaxFaults     \* bound: failed file operations and crashes

ASSUME BoundsAssumption ==
    /\ MaxEdits \in Nat \ {0}
    /\ MaxRevision \in Nat
    /\ MaxFaults \in Nat

VARIABLES
    disk,       \* the files of the checkpoint directory
    legacy,     \* WebView localStorage, where older versions saved
    phase,      \* the process: "down", "opening" or "open"
    edit,       \* this.version
    saved,      \* this.savedVersion
    values,     \* this.values, what the app reads
    erasure,    \* this.erasure
    forgotten,  \* this.legacyDeletes
    failed,     \* this.failed
    store,      \* the fields of the NativeCheckpoint
    drain,      \* the drain in progress
    waiting,    \* flush calls that have not settled
    acked,      \* history: the last change a flush confirmed, and the values
    removed,    \* history: the last removeItem of each key
    erased,     \* history: values removed on request
    faults      \* counts up to MaxFaults

memory == <<phase, saved, values, erasure, forgotten, failed, store, drain,
            waiting>>
history == <<acked, removed, erased>>
storageVars == <<disk, legacy, edit, memory, history, faults>>

Absent == 0
Migrated == 1    \* the value of a record that only the old storage has
Edits == Migrated..MaxEdits
Contents == [Keys -> Edits \cup {Absent}]
Empty == [k \in Keys |-> Absent]

\* checkpoint-<rev>-<uuid>.json, or the same name with .part before promotion
File(rev, part, vals, purge) ==
    [rev |-> rev, part |-> part, values |-> vals, purge |-> purge]
Committed == {f \in disk : ~f.part}
Latest == CHOOSE f \in Committed : \A g \in Committed : g.rev <= f.rev

\* What the next process will show.
Durable == IF Committed = {} THEN legacy ELSE Latest.values

NewStore == [revision |-> 0, values |-> Empty, purge |-> 0, failures |-> 0]
Idle == [pc |-> "idle", copy |-> Empty, at |-> 0, erase |-> FALSE,
         remove |-> {}]

\* A drain takes its copy of the map, its version and the erasure flag at once.
Capture(vals, at, erase) ==
    [Idle EXCEPT !.pc = "write", !.copy = vals, !.at = at, !.erase = erase]

\* get status()
Status ==
    IF failed THEN "unavailable"
    ELSE IF drain.pc # "idle" \/ edit # saved THEN "saving"
    ELSE IF store.failures > 0 \/ forgotten # {} THEN "cleanup-pending"
    ELSE "saved"

StorageInit ==
    /\ disk = {}
    /\ legacy \in [Keys -> {Absent, Migrated}]
    /\ edit = Migrated
    /\ phase = "down"
    /\ saved = Migrated
    /\ values = Empty
    /\ erasure = FALSE
    /\ forgotten = {}
    /\ failed = FALSE
    /\ store = NewStore
    /\ drain = Idle
    /\ waiting = {}
    /\ acked = [at |-> Migrated, values |-> legacy]
    /\ removed = [k \in Keys |-> 0]
    /\ erased = {}
    /\ faults = 0

-----------------------------------------------------------------------------
(* The checkpoint file.                                                    *)

\* prune: all but the newest of the older files, that one too when it is from
\* before an erasure, and the parts that no save can still promote.
ToRemove(files, rev, purge) ==
    LET older == {f \in files : ~f.part /\ f.rev < rev}
    IN {f \in older : (\E g \in older : g.rev > f.rev) \/ f.rev < purge}
           \cup {f \in files : f.part /\ f.rev <= rev}

\* Keys of the checkpoint that the copy being saved lacks.
Dropped ==
    {k \in Keys : store.values[k] # Absent /\ drain.copy[k] = Absent}

\* Mutant: only keys that disappeared count, not one that was set again.
PurgeByKeys(rev) == IF Dropped # {} THEN rev ELSE store.purge

\* purgeBefore of the revision being saved
Purge(rev) ==
    IF drain.erase \/ Dropped # {}
    THEN rev ELSE store.purge

\* The file that the save of revision rev writes as .part and then renames.
Writing(rev, part) == File(rev, part, drain.copy, Purge(rev))

\* The revision of the save: taken when the part is written, used or not.
Taken == IF drain.pc = "write" THEN store.revision + 1 ELSE store.revision

FileFault ==
    /\ faults < MaxFaults
    /\ faults' = faults + 1

\* save: the revision is taken even if the save fails; write and read back
WritePart ==
    /\ drain.pc = "write"
    /\ store' = [store EXCEPT !.revision = Taken]
    /\ disk' = disk \cup {Writing(Taken, TRUE)}
    /\ drain' = [drain EXCEPT !.pc = "promote"]
    /\ UNCHANGED <<legacy, phase, edit, saved, values, erasure, forgotten,
                   failed, waiting, history, faults>>

\* promote, and the list of what prune will remove; the list may fail.
Promote ==
    LET file == Writing(Taken, FALSE)
        files == (disk \ {Writing(Taken, TRUE)}) \cup {file}
        stored(n) == [revision |-> file.rev, values |-> file.values,
                      purge |-> file.purge, failures |-> n]
    IN /\ drain.pc = "promote"
       /\ disk' = files
       /\ \/ /\ store' = stored(0)
             /\ drain' = [drain EXCEPT !.pc = "prune",
                    !.remove = ToRemove(files, file.rev, file.purge)]
             /\ UNCHANGED faults
          \/ /\ FileFault
             /\ store' = stored(1)
             /\ drain' = [drain EXCEPT !.pc = "prune"]
       /\ UNCHANGED <<legacy, phase, edit, saved, values, erasure, forgotten,
                      failed, waiting, history>>

\* prune removes the listed files one by one and counts those that stay.
RemoveFile ==
    /\ drain.pc = "prune"
    /\ \E f \in drain.remove :
          /\ drain' = [drain EXCEPT !.remove = @ \ {f}]
          /\ \/ /\ disk' = disk \ {f}
                /\ UNCHANGED <<store, faults>>
             \/ /\ FileFault
                /\ store' = [store EXCEPT !.failures = @ + 1]
                /\ UNCHANGED disk
    /\ UNCHANGED <<legacy, phase, edit, saved, values, erasure, forgotten,
                   failed, waiting, history>>

-----------------------------------------------------------------------------
(* The drain.                                                              *)

\* What follows a save: the next round when something changed meanwhile.
\* The loop takes the erasure flag and the copy in the same turn.
NextRound(at) ==
    IF edit = at
    THEN /\ drain' = [Idle EXCEPT !.pc = "settle"]
         /\ UNCHANGED erasure
    ELSE /\ drain' = Capture(values, edit, erasure)
         /\ erasure' = FALSE

\* Mutant: the version saved is the one at the end of the save.
FinishSaveLate ==
    /\ phase = "open"
    /\ drain.pc = "prune"
    /\ drain.remove = {}
    /\ saved' = edit
    /\ drain' = [Idle EXCEPT !.pc = "settle"]
    /\ legacy' = [k \in Keys |-> IF k \in forgotten THEN Absent ELSE legacy[k]]
    /\ forgotten' = {}
    /\ UNCHANGED <<disk, phase, edit, values, failed, store, waiting, erasure,
                   history, faults>>

\* A save of the drain has returned: the copies in the old storage of what
\* was removed go now, those that cannot be removed stay listed.
FinishSave ==
    /\ phase = "open"
    /\ drain.pc = "prune"
    /\ drain.remove = {}
    /\ saved' = drain.at
    /\ \E kept \in SUBSET forgotten :
          /\ forgotten' = kept
          /\ legacy' = [k \in Keys |->
                 IF k \in forgotten \ kept THEN Absent ELSE legacy[k]]
          /\ IF kept = {} THEN UNCHANGED faults ELSE FileFault
    /\ NextRound(drain.at)
    /\ UNCHANGED <<disk, phase, edit, values, failed, store, waiting, history>>

\* The process ends; nothing of it is left but files and the old storage.
Down ==
    /\ phase' = "down"
    /\ saved' = edit
    /\ values' = Empty
    /\ erasure' = FALSE
    /\ forgotten' = {}
    /\ failed' = FALSE
    /\ store' = NewStore
    /\ drain' = Idle
    /\ waiting' = {}

\* The write, the read back or the rename failed.  The part is removed if it
\* can be.  In a drain the erasure flag is restored; an open that cannot save
\* the migration leaves the app without the store until it is started again.
FailSave ==
    /\ FileFault
    /\ drain.pc \in {"write", "promote"}
    /\ LET part == Writing(Taken, TRUE)
       IN disk' \in {disk \ {part}, disk \cup {part}}
    /\ IF phase = "opening"
       THEN Down
       ELSE /\ store' = [store EXCEPT !.revision = Taken]
            /\ erasure' = (erasure \/ drain.erase)
            /\ failed' = TRUE
            /\ drain' = [Idle EXCEPT !.pc = "settle"]
            /\ UNCHANGED <<phase, saved, values, forgotten, waiting>>
    /\ UNCHANGED <<legacy, edit, history>>

\* Mutant: everyone who waits is told that the save succeeded.
SettleAll ==
    /\ drain.pc = "settle"
    /\ drain' = Idle
    /\ waiting' = {}
    /\ acked' = IF failed \/ waiting = {} THEN acked
                ELSE CHOOSE w \in waiting : \A v \in waiting : v.at <= w.at
    /\ UNCHANGED <<disk, legacy, phase, edit, saved, values, erasure, forgotten,
                   failed, store, removed, erased, faults>>

\* The finally of flush clears the drain, then its callers go on: all are
\* rejected, or those whose version is saved are confirmed and the others
\* flush again, with the version of that moment.
Settle ==
    LET covered == {w \in waiting : w.at <= saved}
        late == waiting \ covered
    IN /\ drain.pc = "settle"
       /\ IF failed
          THEN /\ drain' = Idle
               /\ waiting' = {}
               /\ UNCHANGED <<erasure, acked>>
          ELSE /\ acked' = IF covered = {} THEN acked
                           ELSE CHOOSE w \in covered :
                                    \A v \in covered : v.at <= w.at
               /\ IF late = {}
                  THEN /\ drain' = Idle
                       /\ waiting' = {}
                       /\ UNCHANGED erasure
                  ELSE /\ drain' = Capture(values, edit, erasure)
                       /\ waiting' = {[at |-> edit, values |-> values]}
                       /\ erasure' = FALSE
       /\ UNCHANGED <<disk, legacy, phase, edit, saved, values, forgotten,
                      failed, store, removed, erased, faults>>

-----------------------------------------------------------------------------
(* Opening and the calls of the app.                                       *)

\* What a process knows of the newest committed file.
Found(failures) ==
    [revision |-> Latest.rev, values |-> Latest.values, purge |-> Latest.purge,
     failures |-> failures]

\* DeviceStorage.open: the newest committed file, never an older one, and then
\* prune, whose list may fail; without any file, what the old storage holds is
\* saved first, even when it is nothing.
Open ==
    /\ phase = "down"
    /\ phase' = "opening"
    /\ \/ /\ Committed # {}
          /\ store' = Found(0)
          /\ drain' = [Idle EXCEPT !.pc = "prune",
                 !.remove = ToRemove(disk, Latest.rev, Latest.purge)]
          /\ UNCHANGED faults
       \/ /\ Committed # {}
          /\ FileFault
          /\ store' = Found(1)
          /\ drain' = [Idle EXCEPT !.pc = "prune"]
       \/ /\ Committed = {}
          /\ store' = NewStore
          /\ drain' = Capture(legacy, edit, FALSE)
          /\ UNCHANGED faults
    /\ erased' = erased \ {<<k, Durable[k]>> : k \in Keys}
    /\ UNCHANGED <<disk, legacy, edit, saved, values, erasure, forgotten,
                   failed, waiting, acked, removed>>

FinishOpen ==
    /\ phase = "opening"
    /\ drain.pc = "prune"
    /\ drain.remove = {}
    /\ phase' = "open"
    /\ values' = store.values
    /\ saved' = edit
    /\ drain' = Idle
    /\ UNCHANGED <<disk, legacy, edit, erasure, forgotten, failed, store,
                   waiting, history, faults>>

\* setItem with another value than the present one
SetItem(k) ==
    /\ phase = "open"
    /\ edit < MaxEdits
    /\ edit' = edit + 1
    /\ values' = [values EXCEPT ![k] = edit + 1]
    /\ UNCHANGED <<disk, legacy, phase, saved, erasure, forgotten, failed,
                   store, drain, waiting, history, faults>>

\* removeItem counts as a change, whether or not the key was there.
RemoveItem(k) ==
    /\ phase = "open"
    /\ edit < MaxEdits
    /\ edit' = edit + 1
    /\ values' = [values EXCEPT ![k] = Absent]
    /\ erasure' = TRUE
    /\ forgotten' = forgotten \cup {k}
    /\ removed' = [removed EXCEPT ![k] = edit + 1]
    /\ erased' = erased \cup
                  (IF values[k] = Absent THEN {} ELSE {<<k, values[k]>>})
    /\ UNCHANGED <<disk, legacy, phase, saved, failed, store, drain, waiting,
                   acked, faults>>

\* forgetLegacyMatches: every match the old storage has, imported or not
ForgetLegacyMatches ==
    /\ phase = "open"
    /\ forgotten' = forgotten \cup {k \in Keys : legacy[k] # Absent}
    /\ UNCHANGED <<disk, legacy, phase, edit, saved, values, erasure, failed,
                   store, drain, waiting, history, faults>>

\* flush joins the drain in progress or starts one.
Flush ==
    /\ phase = "open"
    /\ waiting' = waiting \cup {[at |-> edit, values |-> values]}
    /\ IF drain.pc # "idle"
       THEN UNCHANGED <<drain, erasure, failed>>
       ELSE /\ store.revision < MaxRevision
            /\ drain' = Capture(values, edit, erasure)
            /\ erasure' = FALSE
            /\ failed' = FALSE
    /\ UNCHANGED <<disk, legacy, phase, edit, saved, values, forgotten, store,
                   history, faults>>

Crash ==
    /\ phase # "down"
    /\ FileFault
    /\ Down
    /\ UNCHANGED <<disk, legacy, edit, history>>

StorageNext ==
    \/ Open \/ FinishOpen \/ Crash
    \/ WritePart \/ Promote \/ RemoveFile \/ FailSave
    \/ FinishSave \/ Settle
    \/ Flush \/ ForgetLegacyMatches
    \/ \E k \in Keys : SetItem(k) \/ RemoveItem(k)

StorageSpec == StorageInit /\ [][StorageNext]_storageVars

-----------------------------------------------------------------------------
(* What the store promises.                                                *)

Files == [rev : Nat, part : BOOLEAN, values : Contents, purge : Nat]
Stores == [revision : Nat, values : Contents, purge : Nat, failures : Nat]
Drains(files) ==
    [pc : {"idle", "write", "promote", "prune", "settle"},
     copy : Contents, at : Nat, erase : BOOLEAN, remove : SUBSET files]
Snapshots == [at : Edits, values : Contents]

\* Every field has the values its code can give it.
StorageTypeOK ==
    /\ disk \in SUBSET Files
    /\ legacy \in [Keys -> {Absent, Migrated}]
    /\ phase \in {"down", "opening", "open"}
    /\ edit \in Edits /\ saved \in Edits
    /\ values \in Contents
    /\ erasure \in BOOLEAN /\ failed \in BOOLEAN
    /\ forgotten \in SUBSET Keys
    /\ store \in Stores
    /\ drain \in Drains(disk)
    /\ waiting \in SUBSET Snapshots
    /\ acked \in Snapshots
    /\ removed \in [Keys -> Nat]
    /\ erased \in SUBSET (Keys \X Edits)
    /\ faults \in 0..MaxFaults

\* A change whose flush was confirmed is what the next process shows, or a
\* later change of the same key is: through failed saves, coalesced saves,
\* calls that join a drain as it ends, and a crash at any point of the save,
\* of its clean-up or of the migration of the old storage.
AcknowledgedEditsSurvive ==
    \A k \in Keys :
        \/ Durable[k] = acked.values[k]
        \/ Durable[k] > acked.at
        \/ Durable[k] = Absent /\ removed[k] > acked.at

\* When the app shows "saved", what it shows is what is on the disk.
SavedMeansDurable ==
    phase = "open" /\ Status = "saved" => Durable = values

\* When the app shows "saved", no checkpoint file, the backup generation
\* included, holds a value the user removed, even one that was set again
\* before the removal was saved, or whose clean-up failed in a process that
\* is gone.
SavedMeansErased ==
    phase = "open" /\ Status = "saved" =>
        \A f \in Committed, k \in Keys : <<k, f.values[k]>> \notin erased
=============================================================================
