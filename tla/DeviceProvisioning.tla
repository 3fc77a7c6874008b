------------------------- MODULE DeviceProvisioning -------------------------
(***************************************************************************)
(* What operators give to devices: the credentials of one node             *)
(* (device-credential.service.ts) and the configuration every device may   *)
(* pull (edge-remote-config.service.ts).                                   *)
(*                                                                         *)
(* EdgeIngest has provisioning and the completion of a rotation as one     *)
(* step each; here they are the database calls they are made of.           *)
(***************************************************************************)
EXTENDS ServiceCalls

VARIABLES
    keys,           \* the node's DeviceCredential rows, in order of creation
    keyCalls,       \* [Calls -> call in progress]
    keyStale,       \* history: a provisioning wrote what it made of a stale row
    configs,        \* isActive of the EdgeRemoteConfig rows, in order of creation
    configCalls,    \* [Calls -> publishRemoteConfig in progress]
    configFaults    \* history: a publication failed half-way or overlapped another

keyVars == <<keys, keyCalls, keyStale>>
configVars == <<configs, configCalls, configFaults>>

-----------------------------------------------------------------------------
(* Credentials.                                                            *)

KeyStatus == {"active", "rotating", "revoked"}
Key == [version : Nat, status : KeyStatus]

\* key is the row a call starts from (0: there is none), found what
\* completeCredentialRotation found rotating.
KeyCall == [op : {"idle", "provision", "find", "complete"}, key : Nat, version : Nat,
            demote : BOOLEAN, found : SUBSET Nat, overtaken : BOOLEAN]
KeyIdle == [op |-> "idle", key |-> 0, version |-> 0, demote |-> FALSE, found |-> {},
            overtaken |-> FALSE]

KeyInit ==
    /\ keys = <<>>
    /\ keyCalls = [c \in Calls |-> KeyIdle]
    /\ keyStale = FALSE

Latest(k) == \A j \in 1..Len(keys) : keys[j].version <= keys[k].version

\* provisionDeviceCredential reads the latest key before its transaction, ...
LoadLatest(c) ==
    /\ keyCalls[c] = KeyIdle
    /\ Len(keys) < MaxUpdates + 1
    /\ \/ /\ keys = <<>>
          /\ keyCalls' = [keyCalls EXCEPT ![c] = [KeyIdle EXCEPT !.op = "provision"]]
       \/ \E k \in 1..Len(keys) :
            /\ Latest(k)
            /\ keyCalls' = [keyCalls EXCEPT ![c] =
                   [KeyIdle EXCEPT !.op = "provision", !.key = k, !.version = keys[k].version,
                                   !.demote = (keys[k].status = "active")]]
    /\ UNCHANGED <<keys, keyStale>>

\* Mutant: the latest key stays active.
ProvisionWithoutDemoting(c) ==
    LET call == keyCalls[c] IN
    /\ call.op = "provision"
    /\ keys' = Append(keys, [version |-> call.version + 1, status |-> "active"])
    /\ keyStale' = (keyStale \/ call.overtaken)
    /\ keyCalls' = Finish(keyCalls, c, KeyIdle)

\* ... in which it demotes that key by id, if it was active, and adds one.
Provision(c) ==
    LET call == keyCalls[c]
        demoted == [k \in 1..Len(keys) |->
                      IF call.demote /\ k = call.key
                      THEN [keys[k] EXCEPT !.status = "rotating"] ELSE keys[k]]
    IN
    /\ call.op = "provision"
    /\ keys' = Append(demoted, [version |-> call.version + 1, status |-> "active"])
    /\ keyStale' = (keyStale \/ call.overtaken)
    /\ keyCalls' = Finish(keyCalls, c, KeyIdle)

\* verifyEdgeDeviceAuth found key k active and is about to complete the rotation.
AuthenticateWithActive(c, k) ==
    /\ keyCalls[c] = KeyIdle
    /\ keys[k].status = "active"
    /\ keyCalls' = [keyCalls EXCEPT ![c] = [KeyIdle EXCEPT !.op = "find", !.key = k]]
    /\ UNCHANGED <<keys, keyStale>>

\* Mutant: completion finds every other key.
FindOtherKeys(c) ==
    LET found == {k \in 1..Len(keys) : k # keyCalls[c].key} IN
    /\ keyCalls[c].op = "find"
    /\ keyCalls' = IF found = {} THEN GiveUp(keyCalls, c, KeyIdle)
                   ELSE [keyCalls EXCEPT ![c] = [@ EXCEPT !.op = "complete", !.found = found]]
    /\ UNCHANGED <<keys, keyStale>>

\* completeCredentialRotation: the other keys that are rotating by now, ...
FindRotating(c) ==
    LET found == {k \in 1..Len(keys) : keys[k].status = "rotating" /\ k # keyCalls[c].key} IN
    /\ keyCalls[c].op = "find"
    /\ keyCalls' = IF found = {} THEN GiveUp(keyCalls, c, KeyIdle)
                   ELSE [keyCalls EXCEPT ![c] = [@ EXCEPT !.op = "complete", !.found = found]]
    /\ UNCHANGED <<keys, keyStale>>

\* ... are revoked by id.
CompleteRotation(c) ==
    /\ keyCalls[c].op = "complete"
    /\ keys' = [k \in 1..Len(keys) |->
                  IF k \in keyCalls[c].found THEN [keys[k] EXCEPT !.status = "revoked"] ELSE keys[k]]
    /\ keyCalls' = Finish(keyCalls, c, KeyIdle)
    /\ UNCHANGED keyStale

\* revokeDeviceCredential: the row it reads only tells it the row is there.
RevokeKey(k) ==
    /\ keys' = [keys EXCEPT ![k].status = "revoked"]
    /\ keyCalls' = [c \in Calls |-> [keyCalls[c] EXCEPT !.overtaken = keyCalls[c] # KeyIdle]]
    /\ UNCHANGED keyStale

KeyNext ==
    \/ \E c \in Calls : LoadLatest(c) \/ Provision(c) \/ FindRotating(c) \/ CompleteRotation(c)
    \/ \E c \in Calls, k \in 1..Len(keys) : AuthenticateWithActive(c, k)
    \/ \E k \in 1..Len(keys) : RevokeKey(k)

KeySpec == KeyInit /\ [][KeyNext]_keyVars

-----------------------------------------------------------------------------
(* Configurations.                                                         *)

ConfigCall == [busy : BOOLEAN, overtaken : BOOLEAN]
ConfigIdle == [busy |-> FALSE, overtaken |-> FALSE]

ConfigInit ==
    /\ configs = <<>>
    /\ configCalls = [c \in Calls |-> ConfigIdle]
    /\ configFaults = FALSE

\* Mutant: no row is deactivated.
NothingDeactivated == configs

Deactivated == [i \in 1..Len(configs) |-> FALSE]

\* publishRemoteConfig: validated and signed, the active rows are deactivated, ...
DeactivateConfigs(c) ==
    /\ ~configCalls[c].busy
    /\ Len(configs) < MaxUpdates + 1
    /\ configs' = Deactivated
    /\ configCalls' = [Finish(configCalls, c, ConfigIdle) EXCEPT ![c].busy = TRUE]
    /\ UNCHANGED configFaults

\* ... and the new row is created, outside any transaction.
CreateConfig(c) ==
    /\ configCalls[c].busy
    /\ configs' = Append(configs, TRUE)
    /\ configCalls' = Finish(configCalls, c, ConfigIdle)
    /\ configFaults' = (configFaults \/ configCalls[c].overtaken)

\* The call dies, or the version is taken already (configVersion is unique).
CreateConfigFails(c) ==
    /\ configCalls[c].busy
    /\ configCalls' = GiveUp(configCalls, c, ConfigIdle)
    /\ configFaults' = TRUE
    /\ UNCHANGED configs

ConfigNext ==
    \E c \in Calls : DeactivateConfigs(c) \/ CreateConfig(c) \/ CreateConfigFails(c)

ConfigSpec == ConfigInit /\ [][ConfigNext]_configVars

-----------------------------------------------------------------------------
ProvisioningTypeOK ==
    /\ keys \in Seq(Key)
    /\ keyCalls \in [Calls -> KeyCall]
    /\ keyStale \in BOOLEAN
    /\ configs \in Seq(BOOLEAN)
    /\ configCalls \in [Calls -> ConfigCall]
    /\ configFaults \in BOOLEAN

\* Unless the latest key changed between the read and the transaction of a
\* provisioning call, a node has one active key at most, and it is the latest.
\* (device-credential.service.ts:33: two overlapping calls leave two.)
OneActiveKey ==
    ~keyStale => \A k \in 1..Len(keys) : keys[k].status = "active" => k = Len(keys)

Rank == [active |-> 1, rotating |-> 2, revoked |-> 3]

KeysAdvance ==
    \A k \in 1..Len(keys) :
        LET before == keys[k].status after == keys'[k].status IN
        /\ Rank[before] <= Rank[after] \/ \E c \in Calls : /\ keyCalls[c].op = "provision"
                                                           /\ keyCalls[c].overtaken
                                                           /\ keyCalls'[c] = KeyIdle
        /\ before = "active" /\ after = "revoked" => \A c \in Calls : keyCalls'[c].op = keyCalls[c].op

\* A key goes from active to rotating to revoked and never back, but for a
\* provisioning call that demotes a key revoked in between; and only an operator
\* revokes a key that is active, whatever rotation is completed late.
KeysOnlyAdvance == [][KeysAdvance]_keys

\* Once something is published, and unless a publication failed half-way or
\* overlapped another, exactly the latest configuration is active whenever no
\* publication is under way (edge-remote-config.service.ts:143).
OneConfigServed ==
    (configs # <<>> /\ ~configFaults /\ \A c \in Calls : ~configCalls[c].busy)
        => \A i \in 1..Len(configs) : configs[i] <=> i = Len(configs)

\* The inductive invariant behind the first two: a provisioning call nobody
\* overtook holds the latest key, what a completion found is not active again,
\* and versions are the order of creation.
FreshKeyCalls ==
    \A c \in Calls :
        keyCalls[c].op = "provision" /\ ~keyCalls[c].overtaken =>
            /\ keyCalls[c].demote => /\ keyCalls[c].key \in 1..Len(keys)
                                    /\ keys[keyCalls[c].key].status = "active"
            /\ ~keyStale =>
                 /\ keyCalls[c].key = Len(keys)
                 /\ keys # <<>> => /\ keyCalls[c].version = keys[Len(keys)].version
                                   /\ keyCalls[c].demote \/ keys[Len(keys)].status # "active"

FoundNotActive ==
    \A c \in Calls : keyCalls[c].op = "complete" =>
        \A k \in keyCalls[c].found : k \in 1..Len(keys) /\ keys[k].status # "active"

VersionsIncrease ==
    ~keyStale => \A j, k \in 1..Len(keys) : j < k => keys[j].version < keys[k].version

KeyInductive == FreshKeyCalls /\ FoundNotActive /\ VersionsIncrease
=============================================================================
