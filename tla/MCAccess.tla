------------------------------ MODULE MCAccess ------------------------------
(***************************************************************************)
(* Who gets in, and what they are shown: sign-in, the Strava link, the     *)
(* encryption keys and their rotation, companions, the geometry caches,    *)
(* share links and coalesced refreshes.                                    *)
(*                                                                         *)
(* The components share no state, so one run can check them side by side:  *)
(* focus says which of them runs, and v1, v2, ... hold its variables.      *)
(* Srv brings GeoCache, ShareLinks (Srv!S), Coalesced (Srv!C), StravaLink  *)
(* (Srv!L) and Accounts (Srv!A) with what AccessProofs proves about them,  *)
(* Key KeyRotation, KeyVault (Key!V) and Companions (Key!M) with KeyProofs.*)
(***************************************************************************)
EXTENDS Integers, TLC, TLAPS

CONSTANTS
    Slots,       \* requests, processes or links, whatever the component has
    Others,      \* users, connects, visits or requests
    Names,       \* codes or invite links
    Muts, Devices, Procs, Columns, Rows, Texts, Threads,
    Owner, Roles,
    MaxProfiles, MaxGrants, MaxTokens, MaxKeys, MaxKey, MaxWrites, MaxScripts, MaxVersion,
    MaxReqs, MaxEdits, MaxVisits, MaxChanges, MaxInvites,
    None

\* None is nobody's name, a device's name no status of a device row, and the
\* owner no companion.
ASSUME NamesApart ==
    /\ None \notin Slots \cup Others
    /\ {"none", "pending"} \cap Devices = {}
    /\ Owner \notin Others /\ Roles \subseteq {"viewer", "editor", "co-owner"}

VARIABLES focus, v1, v2, v3, v4, v5, v6, v7, v8, v9, v10, v11, v12, v13, v14

vars == <<focus, v1, v2, v3, v4, v5, v6, v7, v8, v9, v10, v11, v12, v13, v14>>
Symmetric == Permutations(Slots) \cup Permutations(Others) \cup Permutations(Names)
-----------------------------------------------------------------------------
Srv == INSTANCE AccessProofs WITH
    Procs <- Slots, Reqs <- Others, Tokens <- Slots, Visits <- Others, Calls <- Slots,
    Connects <- Others, Codes <- Names, Signs <- Slots,
    db <- v1, working <- v2, redis <- v3, gen <- v4, bytes <- v5, track <- v6, holder <- v7,
    req <- v8, mut <- v9, done <- v10, served <- v11,
    version <- v1, token <- v2, spent <- v3, trip <- v4, features <- v5, tile <- v6, job <- v7,
    visit <- v8, owner <- v9, shown <- v10, overlap <- v11, visits <- v12,
    newest <- v1, running <- v2, dirty <- v3, thread <- v4, artefact <- v5, asked <- v6,
    raised <- v7,
    account <- v1, encrypted <- v2, row <- v3, cache <- v4, memory <- v5, live <- v6,
    issued <- v7, used <- v8, expired <- v9, bound <- v10, call <- v11, first <- v12,
    linked <- v13, lost <- v14,
    users <- v1, infos <- v2, profiles <- v3, apples <- v4, mails <- v5, handed <- v6,
    works <- v7, sign <- v8, let <- v9, crossed <- v10
Key == INSTANCE KeyProofs WITH
    Users <- Others, Links <- Names, Acts <- Slots,
    stored <- v1, env <- v2, ring <- v3, script <- v4, report <- v5, written <- v6,
    writes <- v7, scripts <- v8,
    enabled <- v1, devices <- v2, wraps <- v3, client <- v4, made <- v5, saved <- v6,
    raced <- v7,
    sealed <- v1, verified <- v2, member <- v3, link <- v4, pending <- v5, act <- v6,
    invites <- v7, crossing <- v8
-----------------------------------------------------------------------------
Init ==
    \/ /\ focus = "accounts" /\ Srv!A!Init
       /\ v11 = None /\ v12 = None /\ v13 = None /\ v14 = None
    \/ /\ focus = "strava" /\ Srv!L!Init
    \/ /\ focus = "vault" /\ Key!V!Init
       /\ v8 = None /\ v9 = None /\ v10 = None /\ v11 = None /\ v12 = None /\ v13 = None /\ v14 = None
    \/ /\ focus = "rotation" /\ Key!Init
       /\ v9 = None /\ v10 = None /\ v11 = None /\ v12 = None /\ v13 = None /\ v14 = None
    \/ /\ focus = "geometry" /\ Srv!Init
       /\ v12 = None /\ v13 = None /\ v14 = None
    \/ /\ focus = "shares" /\ Srv!S!Init
       /\ v13 = None /\ v14 = None
    \/ /\ focus = "coalesced" /\ Srv!C!Init
       /\ v8 = None /\ v9 = None /\ v10 = None /\ v11 = None /\ v12 = None /\ v13 = None /\ v14 = None
    \/ /\ focus = "companions" /\ Key!M!Init
       /\ v9 = None /\ v10 = None /\ v11 = None /\ v12 = None /\ v13 = None /\ v14 = None

Next ==
    \/ focus = "accounts" /\ Srv!A!Next /\ UNCHANGED <<focus, v11, v12, v13, v14>>
    \/ focus = "strava" /\ Srv!L!Next /\ UNCHANGED focus
    \/ focus = "vault" /\ Key!V!Next /\ UNCHANGED <<focus, v8, v9, v10, v11, v12, v13, v14>>
    \/ focus = "rotation" /\ Key!Next /\ UNCHANGED <<focus, v9, v10, v11, v12, v13, v14>>
    \/ focus = "geometry" /\ Srv!Next /\ UNCHANGED <<focus, v12, v13, v14>>
    \/ focus = "shares" /\ Srv!S!Next /\ UNCHANGED <<focus, v13, v14>>
    \/ focus = "coalesced" /\ Srv!C!Next /\ UNCHANGED <<focus, v8, v9, v10, v11, v12, v13, v14>>
    \/ focus = "companions" /\ Key!M!Next /\ UNCHANGED <<focus, v9, v10, v11, v12, v13, v14>>

Spec == Init /\ [][Next]_vars
-----------------------------------------------------------------------------
\* - Accounts: Every Apple refresh token that works is in a row of an existing
\*   account, in the hands of a request that will store or revoke it, or was
\*   given up where the code says so: a deletion racing a sign-in orphans none
\*   (apple_login's second look, delete_user_and_data's second read).
\* - Accounts: A Google or Apple identity has at most one profile, however many
\*   first sign-ins and deletions overlap, unless a deletion has taken its
\*   credential row: a profile added to a registration already deleted points
\*   at a number that SQLite gives to the next identity.
\* - Accounts: An account has at most one link that verifies it, so an older
\*   mail's link is dead once another is out.
SignInSound ==
    focus = "accounts" =>
        /\ Srv!A!NoOrphanApple
        /\ Srv!A!OneProfile
        /\ Srv!A!OneLiveLink

\* - StravaLink: Once an account has no token row and nothing is under way, the
\*   application is no longer authorised at Strava, whatever refresh,
\*   disconnect, deletion or second connect ran at the same time (issue #440),
\*   unless Strava could not be reached, the process died between two steps, or
\*   a connect or refresh that had been overtaken by a revoke stored its dead
\*   token over a later one.
\* - StravaLink: A fetch still running when the user disconnects does not bring
\*   back the cached list (issue #440).
\* - StravaLink: The raw list of an encrypted account is never on disk.
\* - StravaLink: A code completes only with the state it first came back with,
\*   for as long as that state holds (docs/plans/STRAVA_CONNECT_BINDING_PLAN.md
\*   D9).
LinkCut ==
    focus = "strava" =>
        /\ Srv!L!TypeOK
        /\ Srv!L!NoOrphanGrant
        /\ Srv!L!NothingAfterDisconnect
        /\ Srv!L!PlainListOffDisk
        /\ Srv!L!CodeKeepsState

\* - KeyVault: A recovery key recorded as saved is one the user has kept: a
\*   replace by another device between showing and confirming confirms nothing.
\* - KeyVault: Every approved device holds one and the same content key, unless
\*   two devices switched encryption on at the same time, which nothing
\*   prevents.
RecoverySound == focus = "vault" => Key!V!RecoverySound

\* - KeyRotation: No credential is lost to a rotation: what the users last
\*   saved is what the configured keys read, or still stands unencrypted,
\*   whatever the app wrote between the script's read of a row and its update,
\*   and whenever a key was dropped.
\* - KeyRotation: "Once it reports nothing left under a retired key, drop that
\*   key": nothing is, though the report counts values that have changed since.
RotationSound == focus = "rotation" => Key!RotationSound

\* - Companions: Co-ownership comes from the owner alone, through any chain of
\*   invites, re-used links and accepts ("removing a co-owner is strict-owner-
\*   only, so co-owners can't lock each other out").
\* - Companions: Companions and encryption exclude each other, and an invite
\*   from before the switch lets nobody in after it (issue #505), unless the
\*   accept and the switch ran at the same time.
RolesSound == focus = "companions" => Key!M!RolesSound

\* - GeoCache: An answer is never older than the last change whose request had
\*   been answered when this one arrived: a read that began before a change
\*   cannot refill any process's cache with what the change evicted (issue
\*   #132), and a bust in one process is honoured by the others (issue #173).
\* - GeoCache: What a later lookup would accept is current: an entry of the
\*   live generation reflects every change whose bust has finished.
\* - ShareLinks: A revoked link serves nothing, from no cache and from no tile
\*   ("a revoked link stops working immediately"), unless it was being visited
\*   or rendered while it was revoked: what such a request leaves behind stays.
\* - ShareLinks: After an edit's refresh the tiles and features shown under the
\*   link are those of the edited trip or newer, with the same exception.
\* - Coalesced: With nothing at work and no mark left, the statistics or tiles
\*   are those of the newest version a refresh was asked for, unless the last
\*   pass failed.
ServedCurrent ==
    /\ focus = "geometry" => Srv!TypeOK /\ Srv!ServedFresh /\ Srv!AcceptedIsCurrent
    /\ focus = "shares" => Srv!S!RevokedLinkDead /\ Srv!S!TilesFollowEdits
    /\ focus = "coalesced" => Srv!C!LastReflected

\* - KeyVault: A key the user has confirmed is never overwritten.
\* - Coalesced: What was made of an older state of the trip never replaces what
\*   was made of a newer one: the task that writes last is the one that read
\*   last (#132).
\* - Companions: An addressed invite, once revoked or declined, lets its
\*   addressee in no more, also when the accept was already under way ("its
\*   token stops working immediately"); a link has no such stamp.
KeepsAccess ==
    /\ focus = "vault" => Key!V!StaysConfirmed
    /\ focus = "coalesced" => Srv!C!NotBack
    /\ focus = "companions" => Key!M!StaysOut
AccessSteps == [][KeepsAccess]_vars
-----------------------------------------------------------------------------
(* Proofs, for every value of the constants.  A step is a step of the      *)
(* component in focus, so the invariant of each is one of the composition  *)
(* while the focus is on it.                                               *)

LEMMA Focused ==
    ASSUME [Next]_vars
    PROVE  /\ focus' = focus
           /\ focus = "accounts" => [Srv!A!Next]_(Srv!A!vars)
           /\ focus = "strava" => [Srv!L!Next]_(Srv!L!vars)
           /\ focus = "vault" => [Key!V!Next]_(Key!V!vars)
           /\ focus = "rotation" => [Key!Next]_(Key!vars)
           /\ focus = "geometry" => [Srv!Next]_(Srv!vars)
           /\ focus = "shares" => [Srv!S!Next]_(Srv!S!vars)
           /\ focus = "coalesced" => [Srv!C!Next]_(Srv!C!vars)
           /\ focus = "companions" => [Key!M!Next]_(Key!M!vars)
<1>1. CASE UNCHANGED vars
  BY <1>1 DEF vars, Srv!A!vars, Srv!L!vars, Key!V!vars, Key!vars, Srv!vars, Srv!S!vars, Srv!C!vars,
              Key!M!vars
<1>2. CASE Next BY <1>2 DEF Next
<1> QED BY <1>1, <1>2

\* Sign-in, for any number of accounts, sign-ins and deletions.
THEOREM SignInProved == Spec => []SignInSound
<1> DEFINE Inv == focus = "accounts" => Srv!SignInInv
<1>1. Init => Inv BY Srv!InitSignInInv DEF Init
<1>2. Inv /\ [Next]_vars => Inv' BY Focused, Srv!StepSignInInv
<1>3. Inv => SignInSound BY Srv!SignInInvSound DEF SignInSound, Srv!SignIns
<1> QED BY <1>1, <1>2, <1>3, PTL DEF Spec

\* The Strava link, for any number of connects, codes and tokens.
THEOREM LinkCutProved == Spec => []LinkCut
<1> DEFINE Inv == focus = "strava" => Srv!GrantInv
<1>1. Init => Inv BY Srv!InitGrantInv DEF Init
<1>2. None \notin Others BY NamesApart
<1>3. Inv /\ [Next]_vars => Inv' BY <1>2, Focused, Srv!StepGrantInv
<1>4. Inv => LinkCut BY Srv!GrantInvSound DEF LinkCut, Srv!StravaSound
<1> QED BY <1>1, <1>3, <1>4, PTL DEF Spec

\* The encryption keys, for any number of devices.
THEOREM RecoveryProved == Spec => []RecoverySound
<1> DEFINE Inv == focus = "vault" => Key!VaultInv
<1>1. Init => Inv BY NamesApart, Key!InitVaultInv DEF Init
<1>2. Inv /\ [Next]_vars => Inv' BY NamesApart, Focused, Key!StepVaultInv
<1>3. Inv => RecoverySound BY Key!VaultInvSound DEF RecoverySound
<1> QED BY <1>1, <1>2, <1>3, PTL DEF Spec

\* The credential keys, for any number of processes, columns, rows and keys.
\* None, no stored value, is a value of no row (RotationAssumed).
THEOREM RotationProved == ASSUME Key!RotationAssumed PROVE Spec => []RotationSound
<1> DEFINE Inv == focus = "rotation" => Key!IInv
<1>1. Init => Inv BY Key!InitIInv DEF Init
<1>2. Inv /\ [Next]_vars => Inv' BY Focused, Key!StepIInv
<1>3. Inv => RotationSound BY Key!IInvSound DEF RotationSound
<1> QED BY <1>1, <1>2, <1>3, PTL DEF Spec

\* Companions, for any number of accounts, links and requests.
THEOREM RolesProved == Spec => []RolesSound
<1> DEFINE Inv == focus = "companions" => Key!RolesInv
<1>1. Init => Inv BY Key!InitRolesInv DEF Init
<1>2. Key!RolesAssumed BY NamesApart DEF Key!RolesAssumed
<1>3. Inv /\ [Next]_vars => Inv' BY <1>2, Focused, Key!StepRolesInv
<1>4. Inv => RolesSound BY Key!RolesInvSound DEF RolesSound
<1> QED BY <1>1, <1>3, <1>4, PTL DEF Spec

\* What is served, for any number of processes, requests, links, visits,
\* threads and edits.
ServedInv ==
    /\ focus = "geometry" => Srv!GeoInv
    /\ focus = "shares" => Srv!LinkInv
    /\ focus = "coalesced" => Srv!TaskInv

LEMMA StepServedInv == ServedInv /\ [Next]_vars => ServedInv'
<1> SUFFICES ASSUME ServedInv, [Next]_vars PROVE ServedInv' OBVIOUS
<1>1. None \notin Slots /\ None \notin Others BY NamesApart
<1>2. focus = "geometry" => Srv!GeoInv' BY <1>1, Focused, Srv!StepGeoInv DEF ServedInv
<1>3. focus = "shares" => Srv!LinkInv' BY <1>1, Focused, Srv!StepLinkInv DEF ServedInv
<1>4. focus = "coalesced" => Srv!TaskInv' BY Focused, Srv!StepTaskInv DEF ServedInv
<1> QED BY <1>2, <1>3, <1>4, Focused DEF ServedInv

LEMMA InitServedInv == Init => ServedInv
<1> SUFFICES ASSUME Init PROVE ServedInv OBVIOUS
<1>1. None \notin Slots /\ None \notin Others BY NamesApart
<1>2. focus = "geometry" => Srv!GeoInv BY <1>1, Srv!InitGeoInv DEF Init
<1>3. focus = "shares" => Srv!LinkInv BY <1>1, Srv!InitLinkInv DEF Init
<1>4. focus = "coalesced" => Srv!TaskInv BY Srv!InitTaskInv DEF Init
<1> QED BY <1>2, <1>3, <1>4 DEF ServedInv

THEOREM ServedProved == Spec => []ServedCurrent
<1>1. ServedInv => ServedCurrent
  <2> SUFFICES ASSUME ServedInv PROVE ServedCurrent OBVIOUS
  <2>1. None \notin Others BY NamesApart
  <2>2. focus = "geometry" => Srv!AnswersSound BY <2>1, Srv!GeoInvSound DEF ServedInv
  <2>3. focus = "shares" => Srv!S!RevokedLinkDead /\ Srv!S!TilesFollowEdits
    BY Srv!LinkInvSound DEF ServedInv
  <2>4. focus = "coalesced" => Srv!C!LastReflected BY DEF ServedInv, Srv!TaskInv
  <2> QED BY <2>2, <2>3, <2>4 DEF ServedCurrent, Srv!AnswersSound
<1> QED BY <1>1, InitServedInv, StepServedInv, PTL DEF Spec

\* What no step does: overwrite a confirmed recovery key, put statistics or
\* tiles back to an older version, let in whom an invite no longer lets in.
THEOREM StepsProved == Spec => AccessSteps
<1> DEFINE Inv == /\ ServedInv
                  /\ focus = "vault" => Key!VaultInv
                  /\ focus = "companions" => Key!RolesInv
<1>1. Init => Inv BY NamesApart, InitServedInv, Key!InitVaultInv, Key!InitRolesInv DEF Init
<1>2. Inv /\ [Next]_vars => Inv' /\ [KeepsAccess]_vars
  <2> SUFFICES ASSUME Inv, [Next]_vars PROVE Inv' /\ [KeepsAccess]_vars OBVIOUS
  <2>1. focus = "vault" => Key!VaultInv' /\ Key!V!StaysConfirmed BY NamesApart, Focused, Key!StepVaultInv
  <2>2. Key!RolesAssumed BY NamesApart DEF Key!RolesAssumed
  <2>3. focus = "companions" => Key!RolesInv' /\ Key!M!StaysOut
    BY <2>2, Focused, Key!StepRolesInv, Key!StepStaysOut
  <2>4. focus = "coalesced" => Srv!C!NotBack \/ UNCHANGED vars
    <3> SUFFICES ASSUME focus = "coalesced", UNCHANGED Srv!C!vars, ~UNCHANGED vars
                 PROVE  Srv!C!NotBack
      BY Focused, Srv!StepTaskInv DEF ServedInv
    <3> QED BY DEF Next, vars, Srv!C!vars
  <2> QED BY <2>1, <2>3, <2>4, Focused, StepServedInv DEF KeepsAccess
<1> QED BY <1>1, <1>2, PTL DEF Spec, AccessSteps
=============================================================================
