------------------------------ MODULE Accounts ------------------------------
(***************************************************************************)
(* Accounts: how a person gets one, proves an address, changes a password  *)
(* and deletes it.                                                         *)
(*                                                                         *)
(*   api/auth.py                     register, login, google_login,        *)
(*                                   apple_login, verify, resend, delete   *)
(*   src/auth/apple.py               the code exchange and the revoke      *)
(*   src/auth/email_verification.py  issue_token, consume_token            *)
(*   src/auth/account_deletion.py    the account's own rows                *)
(*   api/admin.py                    reset_password                        *)
(*                                                                         *)
(* One person with a mail address, a Google and an Apple identity.  A      *)
(* credential row (LocalUser) carries the identity in its unique username, *)
(* a profile row (UserInfo) points at it.  No transaction is open while    *)
(* Apple is called or a password is hashed; each commit is a step.  A row  *)
(* whose parent has gone is refused by Postgres and taken by SQLite.       *)
(* Roles and the billing and Strava parts of a deletion are elsewhere.     *)
(***************************************************************************)
EXTENDS Naturals, FiniteSetsExt

CONSTANTS
    Reqs,         \* requests under way
    MaxProfiles,  \* bound: profiles ever created
    MaxTokens     \* bound: Apple tokens and mailed links ever issued

VARIABLES
    users,    \* LocalUser rows: [id, name, pw, must]
    infos,    \* UserInfo rows: [id, local, name, verified]
    profiles, \* UserInfo's AUTOINCREMENT
    apples,   \* AppleToken rows: [info, tok]
    links,    \* EmailVerification rows: [info, tok]
    issued,   \* Apple tokens and links issued so far
    live,     \* Apple: the refresh tokens that work
    req,      \* per slot, a request
    let,      \* history: tokens given up on the way (an overwrite, a revoke
              \* that failed, a lost insert)
    crossed   \* history: a deletion took another identity's credential row

vars == <<users, infos, profiles, apples, links, issued, live, req, let, crossed>>
rows == <<users, infos, profiles, apples, links>>
tokens == <<issued, live, let, crossed>>

Idle == [pc |-> "idle"]
Set(r, rec) == req' = [req EXCEPT ![r] = rec]
Done(r) == Set(r, Idle)

\* LocalUser's id, as SQLite gives it without AUTOINCREMENT: one that a
\* deleted row had may come back.
FreeId == 1 + Max({0} \cup {u.id : u \in users})
Exists(i) == \E p \in infos : p.id = i
-----------------------------------------------------------------------------
\* Mutant: username is not unique.
NameFreeAlways(n) == TRUE
\* LocalUser.username is unique: a second insert ends in an IntegrityError.
NameFree(n) == \A u \in users : u.name # n

User(n, pw) == [id |-> FreeId, name |-> n, pw |-> pw, must |-> FALSE]
Profile(l, n, v) == [id |-> profiles + 1, local |-> l, name |-> n, verified |-> v]

\* register: the username is looked up; google_login and apple_login look up
\* the profile by the identity's sub, apple_login once it holds a token.
Register(r) ==
    /\ req[r] = Idle /\ NameFree("mail")
    /\ Set(r, [pc |-> "adduser", name |-> "mail"])
    /\ UNCHANGED <<rows, tokens>>

GoogleLogin(r) ==
    /\ req[r] = Idle /\ \A p \in infos : p.name # "google"
    /\ Set(r, [pc |-> "adduser", name |-> "google"])
    /\ UNCHANGED <<rows, tokens>>

\* register and google_login commit the credential row
AddUser(r) ==
    LET n == req[r].name IN
    /\ req[r].pc = "adduser"
    /\ IF NameFree(n)
       THEN /\ users' = users \cup {User(n, IF n = "mail" THEN "own" ELSE "none")}
            /\ Set(r, [pc |-> "addinfo", name |-> n, local |-> FreeId, mail |-> n = "mail"])
       ELSE Done(r) /\ UNCHANGED users
    /\ UNCHANGED <<infos, profiles, apples, links, tokens>>

\* and then the profile; a registration goes on to mail a link.
AddInfo(r) ==
    LET l == req[r].local  n == req[r].name IN
    /\ req[r].pc = "addinfo" /\ profiles < MaxProfiles
    /\ \/ /\ infos' = infos \cup {Profile(l, n, FALSE)}
          /\ profiles' = profiles + 1
          /\ Set(r, IF req[r].mail THEN [pc |-> "clear", info |-> profiles + 1] ELSE Idle)
       \/ /\ \A u \in users : u.id # l
          /\ Done(r) /\ UNCHANGED <<infos, profiles>>
    /\ UNCHANGED <<users, apples, links, tokens>>

\* login: a credential row without a profile (a registration that died
\* between its commits, or is between them) gets one.
Login(r) ==
    /\ req[r] = Idle
    /\ \E u \in users :
          /\ u.name = "mail" /\ \A p \in infos : p.local # u.id
          /\ Set(r, [pc |-> "addinfo", name |-> "mail", local |-> u.id, mail |-> FALSE])
    /\ UNCHANGED <<rows, tokens>>

\* The process dies, or the client's worker is killed, between two commits.
Crash(r) ==
    /\ req[r].pc \in {"adduser", "addinfo", "clear", "put"}
    /\ Done(r)
    /\ UNCHANGED <<rows, tokens>>
-----------------------------------------------------------------------------
\* apple.exchange_code: a fresh refresh token that works from now on.
Exchange(r) ==
    /\ req[r] = Idle /\ issued < MaxTokens
    /\ issued' = issued + 1 /\ live' = live \cup {issued + 1}
    /\ Set(r, [pc |-> "lookup", tok |-> issued + 1])
    /\ UNCHANGED <<rows, let, crossed>>

\* apple_login's select by apple_sub: the profile found, or 0.
Lookup(r) ==
    /\ req[r].pc = "lookup"
    /\ Set(r, [pc |-> "store", tok |-> req[r].tok,
               info |-> IF \E p \in infos : p.name = "apple"
                        THEN (CHOOSE p \in infos : p.name = "apple").id ELSE 0])
    /\ UNCHANGED <<rows, tokens>>

\* A new account: credential, profile and token in one commit.  Two first
\* sign-ins collide on the username; the second's token is lost.
StoreNew(r) ==
    /\ req[r].pc = "store" /\ req[r].info = 0 /\ profiles < MaxProfiles
    /\ Done(r)
    /\ IF NameFree("apple")
       THEN /\ users' = users \cup {User("apple", "none")}
            /\ infos' = infos \cup {Profile(FreeId, "apple", TRUE)}
            /\ profiles' = profiles + 1
            /\ apples' = apples \cup {[info |-> profiles + 1, tok |-> req[r].tok]}
            /\ UNCHANGED let
       ELSE let' = let \cup {req[r].tok} /\ UNCHANGED <<users, infos, profiles, apples>>
    /\ UNCHANGED <<links, issued, live, crossed>>

Replaced(i, t) == {a \in apples : a.info # i} \cup {[info |-> i, tok |-> t]}

\* Mutant: the account is not looked up again under the write lock.
StoreUnchecked(r) ==
    LET i == req[r].info IN
    /\ req[r].pc = "store" /\ i # 0
    /\ apples' = Replaced(i, req[r].tok)
    /\ let' = let \cup {a.tok : a \in {b \in apples : b.info = i}}
    /\ Done(r)
    /\ UNCHANGED <<users, infos, profiles, links, issued, live, crossed>>

\* An account found: its token row takes the new token once the session
\* holds the write lock and the account is still there.
Store(r) ==
    LET i == req[r].info IN
    /\ req[r].pc = "store" /\ i # 0
    /\ IF Exists(i)
       THEN /\ apples' = Replaced(i, req[r].tok)
            /\ let' = let \cup {a.tok : a \in {b \in apples : b.info = i}}
            /\ Done(r)
       ELSE /\ Set(r, [pc |-> "revoke", tok |-> req[r].tok, then |-> Idle])
            /\ UNCHANGED <<apples, let>>
    /\ UNCHANGED <<users, infos, profiles, links, issued, live, crossed>>

\* apple.revoke, best effort: it never raises.
RevokeToken(r) ==
    LET t == req[r].tok IN
    /\ req[r].pc = "revoke"
    /\ \/ live' = live \ {t} /\ UNCHANGED let
       \/ let' = let \cup {t} /\ UNCHANGED live
    /\ Set(r, req[r].then)
    /\ UNCHANGED <<rows, issued, crossed>>
-----------------------------------------------------------------------------
\* delete_user_and_data: the Apple token is read and revoked before the
\* account is locked,
Delete(r, p) ==
    LET mine == {a \in apples : a.info = p.id}
        next == [pc |-> "drop", info |-> p.id,
                 tok |-> IF mine = {} THEN 0 ELSE (CHOOSE a \in mine : TRUE).tok]
    IN  /\ req[r] = Idle
        /\ Set(r, IF mine = {} THEN next
                  ELSE [pc |-> "revoke", tok |-> next.tok, then |-> next])
        /\ UNCHANGED <<rows, tokens>>

\* what the row holds by now and was not revoked
Rotated(i, t) == {a \in apples : a.info = i /\ a.tok # t}

\* and the rows go in one transaction, unless another deletion was first; a
\* token that was rotated meanwhile is revoked after the commit.
DropRows(r) ==
    LET i == req[r].info
        gone == {p \in infos : p.id = i}
        theirs == {u \in users : \E p \in gone : u.id = p.local}
        rotated == Rotated(i, req[r].tok)
    IN  /\ req[r].pc = "drop"
        /\ IF gone = {} THEN Done(r) /\ UNCHANGED <<rows, crossed>>
           ELSE /\ apples' = {a \in apples : a.info # i}
                /\ links' = {l \in links : l.info # i}
                /\ infos' = infos \ gone
                /\ users' = users \ theirs
                /\ crossed' = (crossed \/ \E p \in gone, u \in theirs : u.name # p.name)
                /\ UNCHANGED profiles
                /\ Set(r, IF rotated = {} THEN Idle
                          ELSE [pc |-> "revoke", tok |-> (CHOOSE a \in rotated : TRUE).tok,
                                then |-> Idle])
        /\ UNCHANGED <<issued, live, let>>
-----------------------------------------------------------------------------
\* resend_verification: nothing for a verified account.
Resend(r, p) ==
    /\ req[r] = Idle /\ p.name # "apple" /\ ~p.verified
    /\ Set(r, [pc |-> "clear", info |-> p.id])
    /\ UNCHANGED <<rows, tokens>>

\* issue_token commits the deletion of the account's links,
ClearLinks(r) ==
    /\ req[r].pc = "clear"
    /\ links' = {l \in links : l.info # req[r].info}
    /\ Set(r, [req[r] EXCEPT !.pc = "put"])
    /\ UNCHANGED <<users, infos, profiles, apples, tokens>>

\* Mutant: user_info_id is not unique in EmailVerification.
LinkFreeAlways(i) == TRUE
LinkFree(i) == \A l \in links : l.info # i

\* then the new one, which the unique column refuses beside another, and
\* Postgres without its account.
PutLink(r) ==
    LET i == req[r].info IN
    /\ req[r].pc = "put" /\ issued < MaxTokens
    /\ \/ /\ LinkFree(i)
          /\ issued' = issued + 1
          /\ links' = links \cup {[info |-> i, tok |-> issued + 1]}
       \/ /\ ~(LinkFree(i) /\ Exists(i))
          /\ UNCHANGED <<issued, links>>
    /\ Done(r)
    /\ UNCHANGED <<users, infos, profiles, apples, live, let, crossed>>

\* consume_token: the link is used up; its account, if any, is verified.
Consume(l) ==
    /\ infos' = {IF p.id = l.info THEN [p EXCEPT !.verified = TRUE] ELSE p : p \in infos}
    /\ links' = links \ {l}
    /\ UNCHANGED <<users, profiles, apples, tokens, req>>

\* A link older than TOKEN_TTL_HOURS is deleted when it is followed.
Expire(l) ==
    /\ links' = links \ {l}
    /\ UNCHANGED <<users, infos, profiles, apples, tokens, req>>
-----------------------------------------------------------------------------
\* change_password and reset_password read the credential row, hash, and
\* commit; the flag is written only where it differs from what was read.
ReadPassword(r, to) ==
    /\ req[r] = Idle
    /\ \E u \in users :
          /\ u.pw # "none" /\ \E p \in infos : p.local = u.id
          /\ Set(r, [pc |-> "setpw", local |-> u.id, to |-> to, must |-> u.must])
    /\ UNCHANGED <<rows, tokens>>

ChangePassword(r) == ReadPassword(r, "own")
ResetPassword(r) == ReadPassword(r, "temp")

SetPassword(r) ==
    LET want == req[r].to = "temp"
        Saved(u) == [u EXCEPT !.pw = req[r].to,
                              !.must = IF want # req[r].must THEN want ELSE @]
    IN  /\ req[r].pc = "setpw"
        /\ users' = {IF u.id = req[r].local THEN Saved(u) ELSE u : u \in users}
        /\ Done(r)
        /\ UNCHANGED <<infos, profiles, apples, links, tokens>>
-----------------------------------------------------------------------------
Init ==
    /\ users = {} /\ infos = {} /\ profiles = 0 /\ apples = {} /\ links = {}
    /\ issued = 0 /\ live = {} /\ let = {} /\ crossed = FALSE
    /\ req = [r \in Reqs |-> Idle]

Next ==
    \/ \E r \in Reqs :
          \/ Register(r) \/ GoogleLogin(r) \/ AddUser(r) \/ AddInfo(r) \/ Login(r)
          \/ Crash(r) \/ Exchange(r) \/ Lookup(r) \/ StoreNew(r) \/ Store(r)
          \/ RevokeToken(r) \/ DropRows(r) \/ ClearLinks(r) \/ PutLink(r)
          \/ ChangePassword(r) \/ ResetPassword(r) \/ SetPassword(r)
          \/ \E p \in infos : Delete(r, p) \/ Resend(r, p)
    \/ \E l \in links : Consume(l) \/ Expire(l)

Spec == Init /\ [][Next]_vars
-----------------------------------------------------------------------------
Held == {req[r].tok : r \in {q \in Reqs : req[q].pc \in {"lookup", "store", "revoke"}}}

\* Every Apple refresh token that works is in a row of an existing account,
\* in the hands of a request that will store or revoke it, or was given up
\* where the code says so: a deletion racing a sign-in orphans none
\* (apple_login's second look, delete_user_and_data's second read).
NoOrphanApple ==
    live \subseteq {a.tok : a \in {b \in apples : Exists(b.info)}} \cup Held \cup let

\* A Google or Apple identity has at most one profile, however many first
\* sign-ins and deletions overlap, unless a deletion has taken its credential
\* row: a profile added to a registration already deleted points at a number
\* that SQLite gives to the next identity.
OneProfile ==
    ~crossed => \A p, q \in infos : p.name = q.name /\ p.name \in {"google", "apple"} => p = q

\* An account has at most one link that verifies it, so an older mail's link
\* is dead once another is out.
OneLiveLink == \A l, k \in links : l.info = k.info => l = k
=============================================================================
