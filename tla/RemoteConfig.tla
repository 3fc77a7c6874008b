---------------------------- MODULE RemoteConfig ----------------------------
(***************************************************************************)
(* The remote configuration of one device: remote_config.h.                *)
(*                                                                         *)
(* A configuration is its version number; 0 is the factory configuration,  *)
(* and Damaged what a file that was cut short is read as.                  *)
(* What the server answers to a pull is any version: one that fails a      *)
(* check (signature, expiry, issue id, ranges, keys) is a refused pull.    *)
(* Two stores are durable, and each write is a step that power loss may    *)
(* follow: the file /cfg/lkg.json, replaced by way of a .tmp file, and the *)
(* version watermark in NVS.  Every one of these writes may also fail, and *)
(* the file system may not mount; the device reads none of the results.    *)
(***************************************************************************)
EXTENDS Naturals

CONSTANT MaxVersion     \* bound: versions that are published

ASSUME ConfigAssumption == MaxVersion \in Nat

VARIABLES
    current, previous,  \* current_ and previous_
    lastVersion,        \* lastVersionNumeric_
    mounted,            \* the file system is there since the last boot
    lkg,                \* what the file holds; NoFile if it is not there
    watermark,          \* what NVS holds
    saving,             \* where pullAndApply or rollbackIfUnhealthy is
    applying,           \* it is pullAndApply
    highest,            \* history: the highest version ever in force
    unmarked,           \* history: a version was in force whose number NVS did
                        \* not get, or did not give back at a boot
    setBack             \* history: since a version was last applied and saved,
                        \* another one came into force or into the file

configMemory == <<current, previous, lastVersion, mounted>>
configFlash == <<lkg, watermark>>
remoteVars == <<current, previous, lastVersion, mounted, lkg, watermark, saving, applying,
                highest, unmarked, setBack>>

Version == 0..MaxVersion
NoFile == MaxVersion + 1
Damaged == MaxVersion + 2
Config == Version \cup {Damaged}
Stages == {"idle", "save", "removed", "saved"}

\* What the file may hold after begin() saved the factory configuration over it.
FactorySaved(old) == IF mounted' THEN {0, Damaged, NoFile, old} ELSE {old}

\* The first begin() found an empty flash, and saved the factory configuration;
\* what else a boot may find is a PowerLoss away.
RemoteInit ==
    /\ current = 0 /\ previous = 0 /\ lastVersion = 0
    /\ mounted = TRUE
    /\ lkg = 0
    /\ watermark = 0
    /\ saving = "idle" /\ applying = FALSE
    /\ highest = 0 /\ unmarked = FALSE /\ setBack = FALSE

\* Mutant: the version is not compared.
ApplyAnyVersion(v) ==
    /\ saving = "idle"
    /\ previous' = current
    /\ current' = v
    /\ saving' = "save" /\ applying' = TRUE
    /\ highest' = IF v > highest THEN v ELSE highest
    /\ UNCHANGED <<lastVersion, mounted, configFlash, unmarked, setBack>>

\* pullAndApply with a configuration that passes every check
ApplyVersion(v) ==
    /\ saving = "idle"
    /\ v > lastVersion
    /\ previous' = current
    /\ current' = v
    /\ saving' = "save" /\ applying' = TRUE
    /\ highest' = IF v > highest THEN v ELSE highest
    /\ UNCHANGED <<lastVersion, mounted, configFlash, unmarked, setBack>>

\* rollbackIfUnhealthy(false), after three failed uploads in a row, whatever the
\* configuration has to do with them: the watermark stays.
Rollback ==
    /\ saving = "idle"
    /\ current' = previous
    /\ saving' = "save" /\ applying' = FALSE
    /\ setBack' = (setBack \/ previous # current)
    /\ UNCHANGED <<previous, lastVersion, mounted, configFlash, highest, unmarked>>

\* saveLastKnownGood: the .tmp file is written, the old file is removed (or not), ...
RemoveFile ==
    /\ saving = "save" /\ mounted
    /\ lkg' \in {NoFile, lkg}
    /\ saving' = "removed"
    /\ UNCHANGED <<configMemory, watermark, applying, highest, unmarked, setBack>>

\* ... and the .tmp file, complete or cut short, takes its name (or not).
RenameFile ==
    /\ saving = "removed"
    /\ lkg' \in {current, Damaged, lkg}
    /\ saving' = IF applying THEN "saved" ELSE "idle"
    /\ setBack' = (setBack \/ lkg' # current)
    /\ UNCHANGED <<configMemory, watermark, applying, highest, unmarked>>

\* The .tmp file cannot be opened: nobody notices.
SaveFails ==
    /\ saving = "save"
    /\ saving' = IF applying THEN "saved" ELSE "idle"
    /\ setBack' = (setBack \/ lkg # current)
    /\ UNCHANGED <<configMemory, configFlash, applying, highest, unmarked>>

\* Mutant: the watermark is written before the file.
PersistWatermarkFirst ==
    /\ saving = "save" /\ applying
    /\ watermark' = current
    /\ lastVersion' = current
    /\ applying' = FALSE
    /\ UNCHANGED <<current, previous, mounted, lkg, saving, highest, unmarked, setBack>>

\* persistVersionWatermark, and the copy in memory
PersistWatermark ==
    /\ saving = "saved"
    /\ watermark' = current
    /\ lastVersion' = current
    /\ setBack' = (lkg # current)
    /\ saving' = "idle" /\ applying' = FALSE
    /\ UNCHANGED <<current, previous, mounted, lkg, highest, unmarked>>

\* NVS refuses the write; the copy in memory moves all the same.
WatermarkLost ==
    /\ saving = "saved"
    /\ lastVersion' = current
    /\ unmarked' = TRUE
    /\ saving' = "idle" /\ applying' = FALSE
    /\ UNCHANGED <<current, previous, mounted, lkg, watermark, highest, setBack>>

\* Power is lost; begin() reads the watermark, or 0 if NVS does not open, and the
\* file, or falls back on the factory configuration and saves that: the file is
\* gone or does not open, or the file system did not mount.
PowerLoss ==
    /\ lastVersion' \in {watermark, 0}
    /\ mounted' \in BOOLEAN
    /\ \/ mounted' /\ lkg # NoFile /\ current' = lkg /\ lkg' = lkg
       \/ current' = 0 /\ lkg' \in FactorySaved(lkg)
    /\ previous' = current'
    /\ saving' = "idle" /\ applying' = FALSE
    /\ unmarked' = (unmarked \/ applying \/ lastVersion' # watermark)
    /\ setBack' = (setBack \/ current' # lkg \/ lkg' # lkg \/ lastVersion' # watermark)
    /\ UNCHANGED <<watermark, highest>>

RemoteNext ==
    \/ \E v \in Version : ApplyVersion(v)
    \/ Rollback
    \/ RemoveFile \/ RenameFile \/ SaveFails
    \/ PersistWatermark \/ WatermarkLost
    \/ PowerLoss

RemoteSpec == RemoteInit /\ [][RemoteNext]_remoteVars

-----------------------------------------------------------------------------
RemoteTypeOK ==
    /\ current \in Config /\ previous \in Config /\ lastVersion \in Version
    /\ mounted \in BOOLEAN
    /\ lkg \in Config \cup {NoFile} /\ watermark \in Version
    /\ saving \in Stages /\ applying \in BOOLEAN
    /\ highest \in Version /\ unmarked \in BOOLEAN /\ setBack \in BOOLEAN

\* Over all restarts and rollbacks of its life a device applies only versions
\* above every one that was in force before, until power is lost before the
\* watermark is written (remote_config.h:187-188), or NVS refuses to store the
\* watermark or, at a boot, to give it back.
OldVersionsStayOut ==
    [][saving = "idle" /\ saving' = "save" /\ applying' /\ ~unmarked
         => current' > highest]_remoteVars

\* A device at rest runs, and holds in its file, a version no older than its
\* watermark, which is the newest it will ever take again; unless, since it last
\* applied and saved one, it was rolled back (199), a save did not come through
\* (open 275, write 283, remove 286 or rename 287 failed), power was lost between
\* remove and rename, or a boot fell back on the factory configuration (the file
\* did not open, the file system did not mount) or found no watermark in NVS.  The
\* file is written before the watermark for this.
NotBelowWatermark ==
    saving = "idle" /\ ~setBack =>
        /\ current \in watermark..MaxVersion
        /\ lkg \in watermark..MaxVersion

\* The inductive invariant behind the two.
RemoteInductive ==
    /\ saving = "idle" => ~applying
    /\ saving = "saved" => applying
    /\ applying => current \in Version /\ current > lastVersion
    /\ ~unmarked => /\ lastVersion = watermark
                    /\ highest = IF applying THEN current ELSE watermark
    /\ ~setBack => /\ lastVersion >= watermark
                   /\ current \in watermark..MaxVersion
                   /\ lkg \in watermark..MaxVersion \/ (saving = "removed" /\ lkg = NoFile)
                   /\ saving = "saved" => lkg = current
=============================================================================
