------------------------------ MODULE KeyVault ------------------------------
(***************************************************************************)
(* One account's wrapped content key (api/encryption.py): the devices it   *)
(* is wrapped to and the recovery key the user is shown once.              *)
(*                                                                         *)
(* A wrap stands for the secret it was made under: device d's n-th         *)
(* recovery key.  A request is answered in one step and may have been      *)
(* overtaken; enable reads in a step of its own, replace and confirm are   *)
(* single UPDATE statements.                                               *)
(***************************************************************************)
EXTENDS Naturals

CONSTANTS
    Devices,   \* the clients of the account
    MaxKeys,   \* bound: recovery keys a device makes
    None

VARIABLES
    enabled,   \* UserInfo.encryption_enabled
    devices,   \* DBDeviceKey: device -> "none", "pending" or the key it wraps
    wraps,     \* DBRecoveryWrap: the rows [wrap, confirmed]
    client,    \* per device, what it is doing and the wrap it shows
    made,      \* recovery keys made so far, per device
    saved,     \* history: the wraps whose secret the user has kept
    raced      \* history: two enables overlapped

vars == <<enabled, devices, wraps, client, made, saved, raced>>

Idle == [pc |-> "idle", shows |-> None]
Wrap(d) == <<d, made[d] + 1>>

\* Mutant: encryption can be switched on once more.
AskEnableAgain(d) ==
    /\ client[d] = Idle
    /\ client' = [client EXCEPT ![d].pc = "enable"]
    /\ UNCHANGED <<enabled, devices, wraps, made, saved, raced>>

\* enable checks; the content key is the device's own until it commits.
AskEnable(d) ==
    /\ client[d] = Idle /\ ~enabled
    /\ client' = [client EXCEPT ![d].pc = "enable"]
    /\ UNCHANGED <<enabled, devices, wraps, made, saved, raced>>

WriteEnable(d) ==
    /\ client[d].pc = "enable" /\ made[d] < MaxKeys
    /\ enabled' = TRUE
    /\ raced' = (raced \/ \E e \in Devices \ {d} : client[e].pc = "enable")
    /\ devices' = [devices EXCEPT ![d] = d]
    /\ wraps' = wraps \cup {[wrap |-> Wrap(d), confirmed |-> FALSE]}
    /\ made' = [made EXCEPT ![d] = @ + 1]
    /\ client' = [client EXCEPT ![d] = [pc |-> "idle", shows |-> Wrap(d)]]
    /\ UNCHANGED saved

\* register_device, idempotent, and approve_device by one that holds the key.
Register(d) ==
    /\ enabled /\ devices[d] = "none" /\ client[d].pc = "idle"
    /\ devices' = [devices EXCEPT ![d] = "pending"]
    /\ UNCHANGED <<enabled, wraps, client, made, saved, raced>>

Approve(d, e) ==
    /\ devices[d] = "pending" /\ devices[e] \in Devices
    /\ devices' = [devices EXCEPT ![d] = devices[e]]
    /\ UNCHANGED <<enabled, wraps, client, made, saved, raced>>

\* Mutant: a confirmed key can be replaced too.
ReplaceableAny(w) == TRUE

\* Only a key that was never confirmed.
Replaceable(w) == ~w.confirmed

\* replace_recovery_key: the device shows what it sent, never a read-back;
\* when nothing was replaced, or the answer is lost, it shows nothing new.
Replace(d) ==
    /\ enabled /\ devices[d] \in Devices /\ made[d] < MaxKeys
    /\ made' = [made EXCEPT ![d] = @ + 1]
    /\ wraps' = {IF Replaceable(w) THEN [w EXCEPT !.wrap = Wrap(d)] ELSE w : w \in wraps}
    /\ \/ /\ \E w \in wraps : Replaceable(w)
          /\ client' = [client EXCEPT ![d].shows = Wrap(d)]
       \/ UNCHANGED client
    /\ UNCHANGED <<enabled, devices, saved, raced>>

\* The user keeps the key on the screen and says so.
Save(d) ==
    /\ client[d].shows \notin saved \cup {None}
    /\ saved' = saved \cup {client[d].shows}
    /\ UNCHANGED <<enabled, devices, wraps, client, made, raced>>

\* Mutant: whatever wrap is stored is confirmed.
ConfirmsAny(w, shown) == TRUE

\* Only the wrap the client showed the key for.
Confirms(w, shown) == w.wrap = shown

\* confirm_recovery; a client may also show the key again and ask later.
Confirm(d) ==
    /\ enabled /\ client[d].shows \in saved
    /\ wraps' = {IF Confirms(w, client[d].shows) THEN [w EXCEPT !.confirmed = TRUE] ELSE w
                 : w \in wraps}
    /\ client' = [client EXCEPT ![d].shows = None]
    /\ UNCHANGED <<enabled, devices, made, saved, raced>>

Init ==
    /\ enabled = FALSE /\ raced = FALSE
    /\ devices = [d \in Devices |-> "none"]
    /\ wraps = {} /\ saved = {}
    /\ client = [d \in Devices |-> Idle]
    /\ made = [d \in Devices |-> 0]

Next ==
    \E d \in Devices :
        \/ AskEnable(d) \/ WriteEnable(d) \/ Register(d) \/ Replace(d) \/ Save(d) \/ Confirm(d)
        \/ \E e \in Devices : Approve(d, e)

Spec == Init /\ [][Next]_vars
-----------------------------------------------------------------------------
\* A recovery key recorded as saved is one the user has kept: a replace by
\* another device between showing and confirming confirms nothing.
ConfirmedIsSaved == \A w \in wraps : w.confirmed => w.wrap \in saved

\* A key the user has confirmed is never overwritten.
StaysConfirmed ==
    \A w \in wraps : w.confirmed => w \in wraps'
ConfirmedStays == [][StaysConfirmed]_vars

\* Every approved device holds one and the same content key, unless two
\* devices switched encryption on at the same time, which nothing prevents.
OneContentKey ==
    ~raced => \A d, e \in Devices :
                devices[d] \in Devices /\ devices[e] \in Devices => devices[d] = devices[e]

\* What the recovery flow promises at rest.
RecoverySound == ConfirmedIsSaved /\ OneContentKey
=============================================================================
