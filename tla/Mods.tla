-------------------------------- MODULE Mods --------------------------------
(***************************************************************************)
(* The mods a server installs when it starts (Plugins, code/server/loader/ *)
(* Systems/Plugins.cs): config/_cache.json says which version of a mod is  *)
(* in plugins/, and a mod whose main file has another checksum is deleted, *)
(* downloaded, unpacked and moved in.  A download may fail, a start may be *)
(* killed anywhere, and the site may take a version back.                  *)
(***************************************************************************)
EXTENDS Naturals

CONSTANTS
    Mod,            \* configuration.ServerMods
    MaxVersion,     \* versions of a mod that the site may approve
    MaxStarts,      \* bound on the times the server is started
    Torn            \* a directory that is half deleted

ASSUME ModsAssumption == /\ MaxVersion \in Nat
                         /\ MaxStarts \in Nat
                         /\ Torn \notin Nat

VARIABLES
    offer,      \* offer[m]: the approved main file of the site, 0 if none is
    withdrawn,  \* mods whose offer once went back (what has been, not state)
    zip,        \* zip[m]: the version in plugins/<id>.zip, 0 if it is unreadable
    plugin,     \* plugin[m]: what the directory of the mod holds, 0 if it is gone
    cacheFile,  \* config/_cache.json
    cache,      \* the artifacts in memory
    todo,       \* the definitions DownloadServerMods has still to look at
    at,         \* the one DownloadMod has begun, as a set of one mod or none
    install,    \* how far the start is: "down", "mods", "saved" or "failed"
    starts      \* how often the server was started

modsDisk == <<offer, withdrawn, zip, plugin, cacheFile>>
modsVars == <<modsDisk, cache, todo, at, install, starts>>

Version  == 1 .. MaxVersion
Artifact == [checksum : 0 .. MaxVersion, listed : BOOLEAN]

(* A mod the cache does not know gets an empty checksum and no directories, *)
(* as every mod does when the file cannot be parsed.                       *)
Unknown == [checksum |-> 0, listed |-> FALSE]
NoCache == [m \in Mod |-> Unknown]

ModsTypeOK ==
    /\ offer \in [Mod -> 0 .. MaxVersion]
    /\ withdrawn \in SUBSET Mod
    /\ zip \in [Mod -> 0 .. MaxVersion]
    /\ plugin \in [Mod -> 0 .. MaxVersion \cup {Torn}]
    /\ cacheFile \in [Mod -> Artifact]
    /\ cache \in [Mod -> Artifact]
    /\ todo \in SUBSET Mod
    /\ at \in SUBSET Mod
    /\ install \in {"down", "mods", "saved", "failed"}
    /\ starts \in 0 .. MaxStarts

ModsInit ==
    /\ offer = [m \in Mod |-> 0]
    /\ withdrawn = {}
    /\ zip = [m \in Mod |-> 0]
    /\ plugin = [m \in Mod |-> 0]
    /\ cacheFile = NoCache
    /\ cache = NoCache
    /\ todo = {}
    /\ at = {}
    /\ install = "down"
    /\ starts = 0

-----------------------------------------------------------------------------
(* The site, between two starts: a mod gets a newer version, an older one   *)
(* again, or none that is approved.                                        *)
Publish(m, v) ==
    /\ install = "down"
    /\ v # offer[m]
    /\ offer' = [offer EXCEPT ![m] = v]
    /\ withdrawn' = IF v < offer[m] THEN withdrawn \cup {m} ELSE withdrawn
    /\ UNCHANGED <<zip, plugin, cacheFile, cache, todo, at, install, starts>>

(* LoadConfiguration, GetMods and the loop of DownloadServerMods; the site  *)
(* may be out of reach.                                                    *)
LoadConfiguration ==
    /\ install = "down"
    /\ starts < MaxStarts
    /\ starts' = starts + 1
    /\ cache' = cacheFile
    /\ todo' = Mod
    /\ at' = {}
    /\ install' \in {"mods", "failed"}
    /\ UNCHANGED modsDisk

UpToDate(m) == offer[m] = cache[m].checksum

UseCache(m) ==
    /\ install = "mods" /\ at = {}
    /\ m \in todo
    /\ UpToDate(m)
    /\ todo' = todo \ {m}
    /\ UNCHANGED <<modsDisk, cache, at, install, starts>>

(* Directory.Delete throws if a directory of the artifact is gone already.  *)
DeleteOld(m) ==
    /\ install = "mods" /\ at = {}
    /\ m \in todo
    /\ ~UpToDate(m)
    /\ cache[m].listed => plugin[m] # 0
    /\ plugin' = IF cache[m].listed THEN [plugin EXCEPT ![m] = 0] ELSE plugin
    /\ at' = {m}
    /\ todo' = todo \ {m}
    /\ UNCHANGED <<offer, withdrawn, zip, cacheFile, cache, install, starts>>

(* DownloadFileAsync swallows every exception: what an earlier start left   *)
(* at that path then takes the place of the file.                          *)
DownloadFile(m) ==
    /\ install = "mods" /\ m \in at
    /\ zip[m] # offer[m]
    /\ offer[m] # 0
    /\ zip' = [zip EXCEPT ![m] = offer[m]]
    /\ UNCHANGED <<offer, withdrawn, plugin, cacheFile, cache, todo, at, install, starts>>

(* ExtractToDirectory, File.Delete and Directory.Move, which throws if the  *)
(* destination exists.  What the temporary directory holds matters to      *)
(* nobody: the next start empties it, and it is no plugin.                 *)
MoveIn(m) ==
    /\ install = "mods" /\ m \in at
    /\ zip[m] # 0
    /\ plugin[m] = 0
    /\ zip' = [zip EXCEPT ![m] = 0]
    /\ plugin' = [plugin EXCEPT ![m] = zip[m]]
    /\ cache' = [cache EXCEPT ![m] = [checksum |-> offer[m], listed |-> TRUE]]
    /\ at' = {}
    /\ UNCHANGED <<offer, withdrawn, cacheFile, todo, install, starts>>

(* A slip: the cache is written whether or not every mod went in.          *)
FailAndSave ==
    /\ install = "mods"
    /\ install' = "saved"
    /\ cacheFile' = cache
    /\ \/ \E m \in todo : at = {} /\ ~UpToDate(m) /\ cache[m].listed /\ plugin[m] = 0
       \/ \E m \in at : zip[m] = 0 \/ plugin[m] # 0
    /\ UNCHANGED <<offer, withdrawn, zip, plugin, cache, todo, at, starts>>

(* Any exception ends the loop: the mods after this one are not looked at,  *)
(* and the cache is not written.  Moving in over a directory that is there *)
(* has used up the file by then.                                           *)
DownloadFails ==
    /\ install = "mods"
    /\ install' = "failed"
    /\ \/ /\ \E m \in todo : at = {} /\ ~UpToDate(m) /\ cache[m].listed /\ plugin[m] = 0
          /\ zip' = zip
       \/ \E m \in at : \/ zip[m] = 0 /\ zip' = zip
                        \/ /\ zip[m] # 0 /\ plugin[m] # 0
                           /\ zip' = [zip EXCEPT ![m] = 0]
    /\ UNCHANGED <<offer, withdrawn, plugin, cacheFile, cache, todo, at, starts>>

SaveCache ==
    /\ install = "mods" /\ at = {} /\ todo = {}
    /\ cacheFile' = cache
    /\ install' = "saved"
    /\ UNCHANGED <<offer, withdrawn, zip, plugin, cache, todo, at, starts>>

(* The server ends or is killed: in Directory.Delete, in WriteAllBytesAsync *)
(* or after File.Delete, in File.WriteAllText, or anywhere else.           *)
Down ==
    /\ install # "down"
    /\ install' = "down"
    /\ \/ UNCHANGED <<zip, plugin, cacheFile>>
       \/ \E m \in todo : /\ install = "mods" /\ at = {}
                          /\ ~UpToDate(m) /\ cache[m].listed /\ plugin[m] # 0
                          /\ plugin' = [plugin EXCEPT ![m] = Torn]
                          /\ UNCHANGED <<zip, cacheFile>>
       \/ \E m \in at : /\ install = "mods"
                        /\ zip' = [zip EXCEPT ![m] = 0]
                        /\ UNCHANGED <<plugin, cacheFile>>
       \/ /\ install = "mods" /\ at = {} /\ todo = {}
          /\ cacheFile' = NoCache
          /\ UNCHANGED <<zip, plugin>>
    /\ UNCHANGED <<offer, withdrawn, cache, todo, at, starts>>

ModsNext ==
    \/ \E m \in Mod : \/ \E v \in 0 .. MaxVersion : Publish(m, v)
                      \/ UseCache(m)
                      \/ DeleteOld(m)
                      \/ DownloadFile(m)
                      \/ MoveIn(m)
    \/ LoadConfiguration
    \/ DownloadFails
    \/ SaveCache
    \/ Down

ModsSpec == ModsInit /\ [][ModsNext]_modsVars

-----------------------------------------------------------------------------
Whole(m) == plugin[m] \in Version

(* A start that writes its cache has every mod in place that the site       *)
(* offers, complete, whatever starts before it deleted, left half done or  *)
(* could not download: unless the site took a version back, in which case  *)
(* a deleted mod counts as "up-to-date, using cache" (Plugins.cs:205-209). *)
SavedIsWhole ==
    install = "saved" => \A m \in Mod \ withdrawn : offer[m] # 0 => Whole(m)
=============================================================================
