------------------------------ MODULE Versions ------------------------------
(***************************************************************************)
(* The version folders of one automation, src/backend/autowright/          *)
(* storage.py: save_new_version, restore_version, duplicate_automation,    *)
(* disk_modified_steps, _set_aside_orphan_versions, _write_version_folder, *)
(* _commit_toplevel and the startup load of them.                          *)
(*                                                                         *)
(* A version is a folder versions/vN whose manifest lands last; the        *)
(* pointer current_version in the automation's own automation.yaml is what *)
(* makes it part of the history.  Both can fail half-way, the process can  *)
(* die between any two writes, and a user can edit or delete the step      *)
(* scripts with another program; each script's seal (its sha in the        *)
(* manifest) says whether the text is what the app validated.              *)
(*                                                                         *)
(* A version's content is the number of the save that made it.  The edits  *)
(* of the other program are taken between two operations of the backend,   *)
(* never inside one.                                                       *)
(***************************************************************************)
EXTENDS Integers, FiniteSets

CONSTANTS MaxVersions,      \* version numbers are 1..MaxVersions
          MaxUpsets,        \* failed writes, failed renames and crashes
          MaxHands          \* edits made on disk by another program

ASSUME VersionsAssumption ==
  MaxVersions \in Nat \ {0} /\ MaxUpsets \in Nat /\ MaxHands \in Nat

Numbers  == 1..MaxVersions
Contents == 1..MaxVersions
NoVersion     == 0

(* The script text of a folder: as the app wrote it, edited on disk, or    *)
(* deleted.  `good` tells (for the properties) whether the sealed text was *)
(* ever validated by the app.                                              *)
Texts == {"written", "edited", "gone"}
NoFolder == [content |-> NoVersion, whole |-> FALSE, text |-> "gone", good |-> FALSE]
VersionFolders  == [content : Contents \cup {NoVersion}, whole : BOOLEAN, text : Texts, good : BOOLEAN]

NotLoaded == [content |-> NoVersion, text |-> "written"]
Loaded    == [content : Contents \cup {NoVersion}, text : {"written", "edited"}]

VARIABLES
  folder,      \* on disk: versions/vN
  pointer,     \* on disk: current_version in automation.yaml
  asideVersion,       \* on disk: contents of the folders renamed to vN.orphan
  copied,      \* on disk: the duplicate's v1 folder, NoFolder before it
  versions,    \* in memory: a["versions"], the loaded content and code
  current,     \* in memory: a["current_version"], None when it is not loaded
  writing,     \* the write under way: [n, content, good, step], or NoWrite
  saves,       \* how many contents were ever made
  promised,    \* the content answered for each number, None before
  upsets, hands

versionVars == <<folder, pointer, asideVersion, copied, versions, current, writing,
                 saves, promised, upsets, hands>>

NoWrite == [n |-> NoVersion, content |-> NoVersion, good |-> FALSE, step |-> "none"]
NotWriting == writing = NoWrite
Up   == current # NoVersion

VersionsInit ==
  /\ folder = [n \in Numbers |->
        IF n = 1 THEN [content |-> 1, whole |-> TRUE, text |-> "written", good |-> TRUE]
                 ELSE NoFolder]
  /\ pointer = 1 /\ current = 1
  /\ versions = [n \in Numbers |-> IF n = 1 THEN [content |-> 1, text |-> "written"]
                                            ELSE NotLoaded]
  /\ asideVersion = {} /\ copied = NoFolder /\ writing = NoWrite
  /\ saves = 1 /\ promised = [n \in Numbers |-> IF n = 1 THEN 1 ELSE NoVersion]
  /\ upsets = 0 /\ hands = 0

Upset == upsets < MaxUpsets /\ upsets' = upsets + 1
Held(n)  == versions[n].content # NoVersion      \* n \in a["versions"]
OnDisk(n) == folder[n] # NoFolder

-----------------------------------------------------------------------------
(* disk_modified_steps: the scripts of vN against their seals, on the disk *)
(* now; the loaded flag and the loaded code follow what is found.          *)
Modified(n) == folder[n].text # "written"

Reread(n) ==
  [versions EXCEPT ![n].text = IF folder[n].text = "gone" THEN @ ELSE folder[n].text]

(* _set_aside_orphan_versions: folders above the pointer that the history  *)
(* does not hold are what a save that never completed left behind.         *)
Orphans == {n \in Numbers : n > current /\ OnDisk(n) /\ ~ Held(n)}

SetAside ==
  /\ folder' = [n \in Numbers |-> IF n \in Orphans THEN NoFolder ELSE folder[n]]
  /\ asideVersion' = asideVersion \cup {folder[n].content : n \in Orphans}

(* The next number: free in memory and on disk.  (Every folder above the   *)
(* pointer has been set aside by then.)                                    *)
ReusesFolders(n) == n > current /\ ~ Held(n)
Free(n) == n > current /\ ~ Held(n) /\ (OnDisk(n) => n \in Orphans)
NextNumber(n) == Free(n) /\ \A m \in Numbers : Free(m) => n =< m

(* save_new_version up to the folder writer: a save brings validated       *)
(* content of its own.                                                     *)
SaveBegins ==
  /\ NotWriting /\ Up /\ saves < MaxVersions
  /\ SetAside
  /\ \E n \in Numbers :
        /\ NextNumber(n)
        /\ writing' = [n |-> n, content |-> saves + 1, good |-> TRUE, step |-> "files"]
  /\ saves' = saves + 1
  /\ UNCHANGED <<pointer, copied, versions, current, promised, upsets, hands>>

(* restore_version: the endpoint's gate reads the scripts of vX on disk    *)
(* and refuses an edited one, the store refuses a missing one; what is     *)
(* written is the loaded content.                                          *)
AlwaysRestorable(v) == folder[v].text # "gone"
RestoreAllowed(v) == folder[v].text = "written"

RestoreBegins(v) ==
  /\ NotWriting /\ Up /\ Held(v) /\ RestoreAllowed(v)
  /\ SetAside
  /\ \E n \in Numbers :
        /\ NextNumber(n)
        /\ writing' = [n |-> n, content |-> versions[v].content,
                       good |-> Reread(v)[v].text = "written" /\ folder[v].good,
                       step |-> "files"]
  /\ versions' = Reread(v)
  /\ UNCHANGED <<pointer, copied, current, saves, promised, upsets, hands>>

(* The gate's refusal leaves the refreshed flag and code behind.           *)
RestoreRefused(v) ==
  /\ NotWriting /\ Up /\ Held(v) /\ ~ RestoreAllowed(v)
  /\ versions' = Reread(v) /\ versions' # versions
  /\ UNCHANGED <<folder, pointer, asideVersion, copied, current, writing, saves,
                 promised, upsets, hands>>

(* A rename that fails refuses the save: no number is given past an orphan *)
(* that stays under its own name.                                          *)
SetAsideFails ==
  /\ NotWriting /\ Up /\ Orphans # {} /\ Upset
  /\ UNCHANGED <<folder, pointer, asideVersion, copied, versions, current, writing, saves,
                 promised, hands>>

(* _write_version_folder: scripts and texts first, the manifest last.      *)
FilesLand ==
  /\ writing.step = "files"
  /\ folder' = [folder EXCEPT ![writing.n] =
        [content |-> writing.content, whole |-> FALSE, text |-> "written",
         good |-> writing.good]]
  /\ writing' = [writing EXCEPT !.step = "manifest"]
  /\ UNCHANGED <<pointer, asideVersion, copied, versions, current, saves, promised,
                 upsets, hands>>

ManifestLands ==
  /\ writing.step = "manifest"
  /\ folder' = [folder EXCEPT ![writing.n].whole = TRUE]
  /\ writing' = [writing EXCEPT !.step = "pointer"]
  /\ UNCHANGED <<pointer, asideVersion, copied, versions, current, saves, promised,
                 upsets, hands>>

(* _commit_toplevel: the fields in memory, then automation.yaml, and the   *)
(* answer.                                                                 *)
PointerFlips ==
  /\ writing.step = "pointer"
  /\ pointer' = writing.n /\ current' = writing.n
  /\ versions' = [versions EXCEPT ![writing.n] =
        [content |-> writing.content, text |-> "written"]]
  /\ promised' = [promised EXCEPT ![writing.n] = writing.content]
  /\ writing' = NoWrite
  /\ UNCHANGED <<folder, asideVersion, copied, saves, upsets, hands>>

(* A write that fails: the version leaves memory, its folder is removed    *)
(* with errors ignored (so it may stay as it is), and the request fails.   *)
FileFails ==
  /\ writing.step \in {"files", "manifest", "pointer"} /\ Upset
  /\ \E left \in {NoFolder, folder[writing.n], [folder[writing.n] EXCEPT !.whole = FALSE]} :
        folder' = [folder EXCEPT ![writing.n] = left]
  /\ writing' = NoWrite
  /\ UNCHANGED <<pointer, asideVersion, copied, versions, current, saves, promised, hands>>

-----------------------------------------------------------------------------
(* duplicate_automation: the current version's files, byte for byte, and   *)
(* their seals stamped anew.                                               *)
AlwaysDuplicable == TRUE
Duplicable == ~ Modified(current)

Duplicate ==
  /\ NotWriting /\ Up /\ copied = NoFolder /\ Duplicable
  /\ copied' = [folder[current] EXCEPT !.text = "written",
                                       !.good = @ /\ folder[current].text = "written"]
  /\ versions' = Reread(current)
  /\ UNCHANGED <<folder, pointer, asideVersion, current, writing, saves, promised,
                 upsets, hands>>

DuplicateRefused ==
  /\ NotWriting /\ Up /\ ~ Duplicable
  /\ versions' = Reread(current) /\ versions' # versions
  /\ UNCHANGED <<folder, pointer, asideVersion, copied, current, writing, saves,
                 promised, upsets, hands>>

-----------------------------------------------------------------------------
(* Another program edits, reverts or deletes the scripts of a version, or  *)
(* leaves a manifest that cannot be read.                                  *)
HandEdit(n) ==
  /\ NotWriting /\ folder[n].whole /\ hands < MaxHands
  /\ \E t \in Texts \ {folder[n].text} : folder' = [folder EXCEPT ![n].text = t]
  /\ hands' = hands + 1
  /\ UNCHANGED <<pointer, asideVersion, copied, versions, current, writing, saves,
                 promised, upsets>>

HandBreaks(n) ==
  /\ NotWriting /\ folder[n].whole /\ hands < MaxHands
  /\ folder' = [folder EXCEPT ![n].whole = FALSE]
  /\ hands' = hands + 1
  /\ UNCHANGED <<pointer, asideVersion, copied, versions, current, writing, saves,
                 promised, upsets>>

(* The process dies: memory and the write under way are gone.              *)
VersionsCrash ==
  /\ Up /\ Upset
  /\ current' = NoVersion /\ versions' = [n \in Numbers |-> NotLoaded] /\ writing' = NoWrite
  /\ UNCHANGED <<folder, pointer, asideVersion, copied, saves, promised, hands>>

(* _load_automation: folders above the pointer are ignored, unreadable     *)
(* manifests read as no version, and an automation that cannot resolve its *)
(* current version is left out (on disk, it stays).                        *)
AdoptsAnyFolder(n) == folder[n].whole
Adopted(n) == n =< pointer /\ folder[n].whole

VersionsLoad ==
  /\ ~ Up /\ Adopted(pointer)
  /\ current' = pointer
  /\ versions' = [n \in Numbers |->
        IF Adopted(n)
        THEN [content |-> folder[n].content,
              text |-> IF folder[n].text = "edited" THEN "edited" ELSE "written"]
        ELSE NotLoaded]
  /\ UNCHANGED <<folder, pointer, asideVersion, copied, writing, saves, promised,
                 upsets, hands>>

(* The user mends a manifest that was broken by hand.                      *)
HandMends(n) ==
  /\ ~ Up /\ OnDisk(n) /\ n =< pointer /\ ~ folder[n].whole
  /\ folder' = [folder EXCEPT ![n].whole = TRUE]
  /\ UNCHANGED <<pointer, asideVersion, copied, versions, current, writing, saves,
                 promised, upsets, hands>>

VersionsNext ==
  \/ SaveBegins \/ SetAsideFails \/ FilesLand \/ ManifestLands \/ PointerFlips \/ FileFails
  \/ \E v \in Numbers : RestoreBegins(v) \/ RestoreRefused(v)
  \/ Duplicate \/ DuplicateRefused
  \/ \E n \in Numbers : HandEdit(n) \/ HandBreaks(n) \/ HandMends(n)
  \/ VersionsCrash \/ VersionsLoad

VersionsSpec == VersionsInit /\ [][VersionsNext]_versionVars

-----------------------------------------------------------------------------
(* Every variable has its type.                                            *)
VersionsTypeOK ==
  /\ folder \in [Numbers -> VersionFolders] /\ copied \in VersionFolders
  /\ pointer \in Numbers /\ current \in Numbers \cup {NoVersion}
  /\ asideVersion \subseteq Contents \cup {NoVersion}
  /\ versions \in [Numbers -> Loaded]
  /\ writing \in [n : Numbers \cup {NoVersion}, content : Contents \cup {NoVersion}, good : BOOLEAN,
                  step : {"none", "files", "manifest", "pointer"}]
  /\ saves \in Contents /\ promised \in [Numbers -> Contents \cup {NoVersion}]
  /\ upsets \in 0..MaxUpsets /\ hands \in 0..MaxHands

(* A save or restore the user was told failed never turns up in the        *)
(* history, whatever was left of its folder and however the number was     *)
(* reused: what a loaded automation holds under a number is what was       *)
(* answered for that number.  (Failed folders are removed with errors      *)
(* ignored; only the set-aside and the load's rule keep them out.)         *)
HistoryIsWhatWasAnswered ==
  \A n \in Numbers : Held(n) => versions[n].content = promised[n] /\ promised[n] # NoVersion

(* Nothing the user was told is saved is overwritten or lost: every        *)
(* answered version stays in its folder, with its content.                 *)
AnsweredIsKept ==
  \A n \in Numbers : promised[n] # NoVersion => folder[n].content = promised[n]

(* A crash at any point leaves an automation that loads: the pointer names *)
(* a folder whose manifest is in place, unless a hand broke it.            *)
PointerResolves == hands = 0 => folder[pointer].whole /\ promised[pointer] # NoVersion

(* No copy launders a script: what a version's or a duplicate's seal calls *)
(* unmodified is text the app itself validated, although restores write    *)
(* from memory and duplicates from disk, and either may have been edited,  *)
(* reread and reverted before.                                             *)
SealsAreHonest ==
  /\ \A n \in Numbers : OnDisk(n) => folder[n].good
  /\ copied # NoFolder => copied.good

=============================================================================
