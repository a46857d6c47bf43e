-------------------------------- MODULE Saves --------------------------------
(***************************************************************************)
(* The characters for multiplayer games (MpSaveManager, code/client/App/   *)
(* Saves): a character is a copy of one of two template folders, which are *)
(* themselves copied from the installation, and its metadata is rewritten. *)
(* A copy or the rewriting may fail half way, and the game may be killed    *)
(* during it.                                                              *)
(***************************************************************************)

CONSTANTS
    Template,   \* NCMP-Template-M and NCMP-Template-F
    Character,  \* other names under the NCMP- prefix that a player can type
    Missing,    \* no folder
    Half,       \* files that were not all copied to the end
    Played      \* a character the game has saved since

ASSUME SavesAssumption ==
    /\ Template \cap Character = {}
    /\ Missing # Half /\ Missing # Played /\ Half # Played
    /\ {Missing, Half, Played} \cap Template = {}

VARIABLES
    seeds,      \* the templates that come with the installation
    folder,     \* folder[n]: what is in the save directory under that name
    promised,   \* promised[n]: the template of a creation that returned true
    spoiled     \* templates whose folder was left half, or was taken by a
                \* character of that name, at some time (history)

savesVars == <<seeds, folder, promised, spoiled>>

SaveName == Template \cup Character
Content  == Template \cup {Missing, Half, Played}

(* metadata.9.json apart: not there, one that can be parsed, or cut off.    *)
Folder == [files : Content, metadata : {"none", "whole", "cut"}]

Nothing == [files |-> Missing, metadata |-> "none"]
Seed(t) == [files |-> t, metadata |-> "whole"]

SavesTypeOK ==
    /\ seeds \in SUBSET Template
    /\ folder \in [SaveName -> Folder]
    /\ promised \in [SaveName -> Template \cup {Missing}]
    /\ spoiled \in SUBSET Template

SavesInit ==
    /\ seeds = {}
    /\ folder = [n \in SaveName |-> Nothing]
    /\ promised = [n \in SaveName |-> Missing]
    /\ spoiled = {}

-----------------------------------------------------------------------------
(* "Not produced yet": an update may bring a seed.                          *)
SeedArrives(t) ==
    /\ t \notin seeds
    /\ seeds' = seeds \cup {t}
    /\ UNCHANGED <<folder, promised, spoiled>>

Free(f, n) == f[n].files = Missing

(* What fs::copy leaves of a folder when it is cut off.                     *)
CutCopies(what) == {[files |-> Half, metadata |-> m] : m \in {"none", "cut", what.metadata}}

(* InstallSeedIfAbsent: a folder that is there is never looked into.        *)
Installed(t) ==
    IF Free(folder, t) /\ t \in seeds
    THEN {Nothing, Seed(t)} \cup CutCopies(Seed(t))
    ELSE {folder[t]}

(* The folders after one template has been installed after the other.       *)
Ensured == {[n \in SaveName |-> IF n \in Template THEN g[n] ELSE folder[n]] :
                g \in {h \in [Template -> UNION {Installed(t) : t \in Template}] :
                           \A t \in Template : h[t] \in Installed(t)}}

(* What InstallSeedIfAbsent answers of each: it was there or has gone in.   *)
AllThere(f) == \A t \in Template : ~Free(folder, t) \/ f[t] = Seed(t)

SpoiledBy(f) == {t \in Template : f[t].files = Half}

(* When the overlay of the main menu is shown.                              *)
EnsureTemplatesInstalled ==
    /\ folder' \in Ensured
    /\ spoiled' = spoiled \cup SpoiledBy(folder')
    /\ UNCHANGED <<seeds, promised>>

(* TryRewriteMetadataName: what can be parsed is truncated and written once *)
(* more, and nobody asks whether that has worked.                          *)
Rewritten(what) ==
    {what} \cup (IF what.metadata = "whole" THEN {[what EXCEPT !.metadata = "cut"]} ELSE {})

(* A template that is missing is installed first.                           *)
Before(t) == IF Free(folder, t) THEN Ensured ELSE {folder}

(* A slip: a character that is there is copied over.                        *)
MayCreateAnyway(f, t, n) == (Free(folder, t) => AllThere(f)) /\ ~Free(f, t)

(* A name that is taken is refused, also that of a half copy; a name that a *)
(* template has is not.                                                    *)
MayCreate(f, t, n) == (Free(folder, t) => AllThere(f)) /\ ~Free(f, t) /\ Free(f, n)

(* The folder is copied and its metadata rewritten, and the player told; or *)
(* the copy is cut off, or the game is killed before it tells.              *)
CreateSaveFromTemplate(t, n) ==
    \E f \in Before(t) :
        /\ \/ /\ ~MayCreate(f, t, n)
              /\ folder' = f
              /\ UNCHANGED promised
           \/ /\ MayCreate(f, t, n)
              /\ \E c \in CutCopies(f[t]) \cup Rewritten(f[t]) : folder' = [f EXCEPT ![n] = c]
              /\ UNCHANGED promised
           \/ /\ MayCreate(f, t, n)
              /\ \E c \in Rewritten(f[t]) : folder' = [f EXCEPT ![n] = c]
              /\ promised' = [promised EXCEPT ![n] = t]
        /\ spoiled' = spoiled \cup SpoiledBy(f)
                              \cup (IF MayCreate(f, t, n) THEN {n} \cap Template ELSE {})
        /\ UNCHANGED seeds

(* The game: it saves a character that can be loaded, and deletes what the  *)
(* player asks it to.                                                      *)
Play(n) ==
    /\ n \in Character
    /\ folder[n].files \notin {Missing, Half}
    /\ folder' = [folder EXCEPT ![n] = [files |-> Played, metadata |-> "whole"]]
    /\ UNCHANGED <<seeds, promised, spoiled>>

DeleteSave(n) ==
    /\ ~Free(folder, n)
    /\ folder' = [folder EXCEPT ![n] = Nothing]
    /\ promised' = [promised EXCEPT ![n] = Missing]
    /\ UNCHANGED <<seeds, spoiled>>

SavesNext ==
    \/ \E t \in Template : SeedArrives(t)
    \/ EnsureTemplatesInstalled
    \/ \E t \in Template, n \in SaveName : CreateSaveFromTemplate(t, n)
    \/ \E n \in SaveName : Play(n) \/ DeleteSave(n)

SavesSpec == SavesInit /\ [][SavesNext]_savesVars

-----------------------------------------------------------------------------
(* A character that the game reported as created has the files of the       *)
(* template that was chosen or what has been played of them, and a file of *)
(* metadata, whatever is created, installed or cut off afterwards; unless  *)
(* the folder of that template was left half or taken by a character of    *)
(* its name, since folders are taken as they are.                          *)
(* (CreateSaveFromTemplate, InstallSeedIfAbsent.)                          *)
CharacterKept ==
    \A n \in SaveName :
        promised[n] # Missing /\ promised[n] \notin spoiled =>
            /\ folder[n].files \in {promised[n], Played}
            /\ folder[n].metadata # "none"

(* "On ANY failure the verbatim copy is left intact": a character that was  *)
(* reported as created has metadata that can be read.                      *)
(* (TryRewriteMetadataName.)                                               *)
VerbatimKept ==
    \A n \in Character :
        promised[n] # Missing /\ promised[n] \notin spoiled => folder[n].metadata # "cut"
=============================================================================
