----------------------------- MODULE Companions -----------------------------
(***************************************************************************)
(* The travel companions of one trip: its members, the invite link, the    *)
(* invites sent to an address, and the owner's switch to encryption, which *)
(* excludes companions.                                                    *)
(*                                                                         *)
(*   api/members.py          invites and members                           *)
(*   api/project_access.py   who may do what                               *)
(*   api/encryption.py       enable                                        *)
(*                                                                         *)
(* A request reads in SELECTs, which hold no lock, and writes in one       *)
(* transaction later: Ask is what it reads and decides, Write what it then *)
(* does to whatever is there.  An address belongs to the user of that      *)
(* name.                                                                   *)
(***************************************************************************)
EXTENDS Naturals

CONSTANTS
    Owner,      \* the trip's owner
    Users,      \* the other accounts
    Roles,      \* the roles an invite can give
    Links,      \* tokens of invite links
    Reqs,       \* requests under way
    MaxInvites, \* bound: invites asked for
    None

VARIABLES
    encrypted,  \* the owner's encryption_enabled
    verified,   \* the accounts whose address is confirmed
    member,     \* projectmember: user -> [role, by] or None
    link,       \* projectinvite: token -> [role, by] or None
    pending,    \* projectpendinginvite: address -> [role, by, taken] or None
    req,        \* per slot, what a request has decided to write
    invites,    \* invites asked for so far
    raced       \* history: enable was written while an accept was under way

vars == <<encrypted, verified, member, link, pending, req, invites, raced>>

Rank(role) == CASE role = "viewer" -> 0 [] role = "editor" -> 1
                [] role = "co-owner" -> 2 [] role = "owner" -> 3
Idle == [pc |-> "idle"]

\* effective_role, require_role, resolve_project
MayAct(u, least) ==
    LET role == IF u = Owner THEN "owner" ELSE IF member[u] = None THEN None ELSE member[u].role
    IN  role # None /\ Rank(role) >= Rank(least)

Members == {u \in Users : member[u] # None}
Links0 == {t \in Links : link[t] # None}
-----------------------------------------------------------------------------
Ask(r, decision) ==
    /\ req[r] = Idle
    /\ req' = [req EXCEPT ![r] = decision]
    /\ invites' = IF decision.pc \in {"link", "pending"} THEN invites + 1 ELSE invites
    /\ invites' <= MaxInvites
    /\ UNCHANGED <<encrypted, verified, member, link, pending, raced>>

\* Mutant: a co-owner may hand out co-ownership.
MayInviteAny(u, role) == MayAct(u, "co-owner") /\ ~encrypted

\* create_invite: co-owner or owner, and only the owner for a co-owner.
MayInvite(u, role) ==
    /\ MayAct(u, "co-owner")
    /\ role = "co-owner" => MayAct(u, "owner")
    /\ ~encrypted

\* The link, unless there is one already,
AskLink(r, u, role, t) ==
    /\ MayInvite(u, role)
    /\ Links0 = {} /\ link[t] = None
    /\ Ask(r, [pc |-> "link", token |-> t, row |-> [role |-> role, by |-> u]])

WriteLink(r) ==
    /\ req[r].pc = "link"
    /\ link' = [link EXCEPT ![req[r].token] = req[r].row]
    /\ req' = [req EXCEPT ![r] = Idle]
    /\ UNCHANGED <<encrypted, verified, member, pending, invites, raced>>

\* and, for an address, an invite of its own; the sender's own address is
\* confirmed (the owner's is taken to be).
AskPending(r, u, role, to) ==
    /\ MayInvite(u, role)
    /\ u = Owner \/ u \in verified
    /\ Links0 # {} /\ pending[to] = None
    /\ Ask(r, [pc |-> "pending", to |-> to,
               row |-> [role |-> role, by |-> u, taken |-> FALSE]])

\* One per address: the second insert fails.
WritePending(r) ==
    /\ req[r].pc = "pending"
    /\ pending' = IF pending[req[r].to] = None
                  THEN [pending EXCEPT ![req[r].to] = req[r].row] ELSE pending
    /\ req' = [req EXCEPT ![r] = Idle]
    /\ UNCHANGED <<encrypted, verified, member, link, invites, raced>>

\* revoke_invite deletes every link there is,
RevokeLink(u) ==
    /\ MayAct(u, "co-owner") /\ Links0 # {}
    /\ link' = [t \in Links |-> None]
    /\ UNCHANGED <<encrypted, verified, member, pending, req, invites, raced>>

\* revoke_pending_invite and decline_invite one invite.
DropPending(u, to) ==
    /\ pending[to] # None
    /\ MayAct(u, "co-owner") \/ (u = to /\ u \in verified)
    /\ pending' = [pending EXCEPT ![to] = None]
    /\ UNCHANGED <<encrypted, verified, member, link, req, invites, raced>>
-----------------------------------------------------------------------------
\* Mutant (issue #505): an invite from before the switch still works.
MayJoinAlways(u, invite) == invite # None

\* accept_invite, whatever the invite: not while the owner is encrypted.
MayJoin(u, invite) == invite # None /\ ~encrypted

AskJoinByLink(r, u, t) ==
    /\ MayJoin(u, link[t])
    /\ Ask(r, [pc |-> "join", user |-> u, isnew |-> member[u] = None, taking |-> FALSE,
               row |-> [role |-> link[t].role, by |-> link[t].by]])

\* An addressed invite only from that address, confirmed.
AskJoinByAddress(r, u) ==
    /\ MayJoin(u, pending[u]) /\ u \in verified
    /\ Ask(r, [pc |-> "join", user |-> u, isnew |-> member[u] = None,
               taking |-> ~pending[u].taken,
               row |-> [role |-> pending[u].role, by |-> pending[u].by]])

\* Mutant: the stamp on the invite is written apart from the member row.
JoinsWhenGone(r) ==
    req[r].isnew => member[req[r].user] = None

\* The member row is unique per user, and stamping an invite that is gone
\* fails; either takes the whole transaction with it.
Joins(r) ==
    /\ req[r].isnew => member[req[r].user] = None
    /\ req[r].taking => pending[req[r].user] # None

WriteJoin(r) ==
    LET u == req[r].user
    IN  /\ req[r].pc = "join"
        /\ req' = [req EXCEPT ![r] = Idle]
        /\ IF Joins(r)
           THEN /\ member' = IF req[r].isnew THEN [member EXCEPT ![u] = req[r].row] ELSE member
                /\ pending' = IF req[r].taking /\ pending[u] # None
                              THEN [pending EXCEPT ![u].taken = TRUE] ELSE pending
           ELSE UNCHANGED <<member, pending>>
        /\ UNCHANGED <<encrypted, verified, link, invites, raced>>

\* remove_member: oneself, or a co-owner the others, or the owner a co-owner.
AskRemove(r, u, v) ==
    /\ member[v] # None
    /\ \/ u = v
       \/ MayAct(u, IF member[v].role = "co-owner" THEN "owner" ELSE "co-owner")
    /\ Ask(r, [pc |-> "remove", user |-> v])

\* By row id, which SQLite may have given to a row that came in between.
WriteRemove(r) ==
    /\ req[r].pc = "remove"
    /\ member' = [member EXCEPT ![req[r].user] = None]
    /\ req' = [req EXCEPT ![r] = Idle]
    /\ UNCHANGED <<encrypted, verified, link, pending, invites, raced>>

\* encryption.enable: not with companions on a trip.
AskEnable(r) ==
    /\ ~encrypted /\ Members = {}
    /\ Ask(r, [pc |-> "enable"])

WriteEnable(r) ==
    /\ req[r].pc = "enable"
    /\ encrypted' = TRUE
    /\ raced' = (raced \/ Members # {} \/ \E q \in Reqs : req[q].pc = "join")
    /\ req' = [req EXCEPT ![r] = Idle]
    /\ UNCHANGED <<verified, member, link, pending, invites>>
-----------------------------------------------------------------------------
Init ==
    /\ encrypted = FALSE /\ raced = FALSE /\ invites = 0
    /\ verified \in SUBSET Users
    /\ member = [u \in Users |-> None]
    /\ link = [t \in Links |-> None]
    /\ pending = [u \in Users |-> None]
    /\ req = [r \in Reqs |-> Idle]

Next ==
    \/ \E r \in Reqs :
         \/ \E u \in Users \cup {Owner}, role \in Roles :
              \/ \E t \in Links : AskLink(r, u, role, t)
              \/ \E to \in Users : AskPending(r, u, role, to)
         \/ WriteLink(r) \/ WritePending(r) \/ WriteJoin(r) \/ WriteRemove(r)
         \/ \E u \in Users : AskJoinByAddress(r, u) \/ \E t \in Links : AskJoinByLink(r, u, t)
         \/ \E u \in Users \cup {Owner}, v \in Users : AskRemove(r, u, v)
         \/ AskEnable(r) \/ WriteEnable(r)
    \/ \E u \in Users \cup {Owner} :
         RevokeLink(u) \/ \E to \in Users : DropPending(u, to)

Spec == Init /\ [][Next]_vars
-----------------------------------------------------------------------------
Row == [role : Roles, by : Users \cup {Owner}]

\* Members, links and invites carry a role and who gave it.
TypeOK ==
    /\ member \in [Users -> Row \cup {None}]
    /\ link \in [Links -> Row \cup {None}]
    /\ \A u \in Users : pending[u] # None => pending[u].role \in Roles

\* Co-ownership comes from the owner alone, through any chain of invites,
\* re-used links and accepts ("removing a co-owner is strict-owner-only, so
\* co-owners can't lock each other out").
CoOwnerByOwner ==
    /\ \A u \in Users : member[u] # None /\ member[u].role = "co-owner" => member[u].by = Owner
    /\ \A t \in Links : link[t] # None /\ link[t].role = "co-owner" => link[t].by = Owner

\* Companions and encryption exclude each other, and an invite from before
\* the switch lets nobody in after it (issue #505), unless the accept and the
\* switch ran at the same time.
Exclusive == encrypted /\ Members # {} => raced

\* An addressed invite, once revoked or declined, lets its addressee in no
\* more, also when the accept was already under way ("its token stops working
\* immediately"); a link has no such stamp.
StaysOut ==
    \A r \in Reqs :
      req[r].pc = "join" /\ req[r].taking /\ pending[req[r].user] = None /\ req'[r] = Idle
         => member'[req[r].user] = member[req[r].user]
RevokedStaysOut == [][StaysOut]_vars

\* What the roles of a trip promise at rest.
RolesSound == TypeOK /\ CoOwnerByOwner /\ Exclusive
=============================================================================
