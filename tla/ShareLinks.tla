----------------------------- MODULE ShareLinks -----------------------------
(***************************************************************************)
(* The share link of one trip and what is cached under its token: the      *)
(* loaded trip and the answers made of it, the features the tiles are      *)
(* drawn from, and the tiles on disk.                                      *)
(*                                                                         *)
(*   api/share.py            what a visitor is served                      *)
(*   api/project_shares.py   the link is made and revoked                  *)
(*   api/project_shared.py   the refresh after an edit                     *)
(*   src/tile_renderer.py    features, tiles, the background render        *)
(*                                                                         *)
(* Everything runs in one process (no broker is configured); what is       *)
(* cached is the version of the trip it was made from.  The caches of the  *)
(* trip and of the answers are filled and dropped together and are one     *)
(* here.                                                                   *)
(***************************************************************************)
EXTENDS Naturals

CONSTANTS
    Tokens,       \* share tokens, each given out once
    Visits,       \* visitors' requests under way
    MaxVersion,   \* bound: edits of the trip
    MaxVisits,    \* bound: requests begun
    None

VARIABLES
    version,   \* the trip's version
    token,     \* DBProject.share_token
    spent,     \* the tokens given out so far
    trip,      \* _project_cache and the answers, per token
    features,  \* _feature_cache, per token
    tile,      \* the tiles on disk, per token
    job,       \* per token, the render submitted to the pool
    visit,     \* per slot, a request
    owner,     \* what the owner's request or the refresh is doing
    shown,     \* per token, the version of its last finished refresh
    overlap,   \* history: tokens used while they were revoked or refreshed
    visits     \* requests begun so far

vars == <<version, token, spent, trip, features, tile, job, visit, owner, shown,
          overlap, visits>>
cached == <<trip, features, tile>>

Idle == [pc |-> "idle", why |-> "none", kind |-> "none", token |-> None, v |-> 0]
NoJob == [at |-> "none", v |-> 0, fills |-> FALSE]
Started(t) == job[t].at \in {"built", "running"}
Visiting(t) == \E r \in Visits : visit[r].token = t
Served(r) == visit' = [visit EXCEPT ![r] = Idle]
-----------------------------------------------------------------------------
\* A visitor asks for the trip or for a tile.
Visit(r, t, kind) ==
    /\ visit[r] = Idle /\ visits < MaxVisits /\ t \in spent
    /\ visits' = visits + 1
    /\ visit' = [visit EXCEPT ![r] = [Idle EXCEPT !.pc = kind, !.kind = kind, !.token = t]]
    /\ overlap' = IF owner.token = t THEN overlap \cup {t} ELSE overlap
    /\ UNCHANGED <<version, token, spent, cached, job, owner, shown>>

\* get_cached_tile, before the token is looked at, then the cached features.
TileOnDisk(r) ==
    LET t == visit[r].token
    IN  /\ visit[r].pc = "tile"
        /\ IF tile[t] # None THEN Served(r)
           ELSE visit' = [visit EXCEPT ![r] =
                  IF features[t] # None THEN [@ EXCEPT !.pc = "draw", !.v = features[t]]
                  ELSE [@ EXCEPT !.pc = "trip"]]
        /\ UNCHANGED <<version, token, spent, cached, job, owner, shown, overlap, visits>>

\* _get_project_and_type: the cached trip, or the row that carries the token.
FindTrip(r) ==
    LET t == visit[r].token
    IN  /\ visit[r].pc = "trip"
        /\ \/ /\ trip[t] # None
              /\ visit' = [visit EXCEPT ![r].pc = "have", ![r].v = trip[t]]
           \/ /\ trip[t] = None /\ token = t
              /\ visit' = [visit EXCEPT ![r].pc = "fill", ![r].v = version]
           \/ trip[t] = None /\ token # t /\ Served(r)
        /\ UNCHANGED <<version, token, spent, cached, job, owner, shown, overlap, visits>>

FillTrip(r) ==
    /\ visit[r].pc = "fill"
    /\ trip' = [trip EXCEPT ![visit[r].token] = visit[r].v]
    /\ visit' = [visit EXCEPT ![r].pc = "have"]
    /\ UNCHANGED <<version, token, spent, features, tile, job, owner, shown, overlap, visits>>

\* shared_project and the others answer; a tile needs features
\* (get_or_build_features), which also submits the background render.
UseTrip(r) ==
    LET t == visit[r].token
    IN  /\ visit[r].pc = "have"
        /\ IF visit[r].kind = "trip"
           THEN Served(r) /\ UNCHANGED <<features, job>>
           ELSE /\ features' = [features EXCEPT ![t] = visit[r].v]
                /\ job' = IF job[t] = NoJob
                          THEN [job EXCEPT ![t] = [at |-> "queued", v |-> visit[r].v,
                                                   fills |-> FALSE]] ELSE job
                /\ visit' = [visit EXCEPT ![r].pc = "draw"]
        /\ UNCHANGED <<version, token, spent, trip, tile, owner, shown, overlap, visits>>

\* get_or_create_tile
Draw(r) ==
    LET t == visit[r].token
    IN  /\ visit[r].pc = "draw"
        /\ tile' = IF tile[t] = None THEN [tile EXCEPT ![t] = visit[r].v] ELSE tile
        /\ Served(r)
        /\ UNCHANGED <<version, token, spent, trip, features, job, owner, shown, overlap, visits>>

\* The 60 seconds of the loaded trip are over.
Expire(t) ==
    /\ trip[t] # None
    /\ trip' = [trip EXCEPT ![t] = None]
    /\ UNCHANGED <<version, token, spent, features, tile, job, visit, owner, shown,
                   overlap, visits>>

\* The pool starts the render: the refresh's own one stores its features first.
StartRender(t) ==
    /\ job[t].at = "queued"
    /\ job' = [job EXCEPT ![t].at = "built"]
    /\ features' = IF job[t].fills THEN [features EXCEPT ![t] = job[t].v] ELSE features
    /\ overlap' = IF owner.token = t THEN overlap \cup {t} ELSE overlap
    /\ UNCHANGED <<version, token, spent, trip, tile, visit, owner, shown, visits>>

\* _do_prerender draws the missing tiles, holding the token's lock.
Render(t) ==
    /\ job[t].at = "built"
    /\ job' = [job EXCEPT ![t].at = "running"]
    /\ UNCHANGED <<version, token, spent, cached, visit, owner, shown, overlap, visits>>

EndRender(t) ==
    /\ job[t].at = "running"
    /\ tile' = IF tile[t] = None THEN [tile EXCEPT ![t] = job[t].v] ELSE tile
    /\ job' = [job EXCEPT ![t] = NoJob]
    /\ UNCHANGED <<version, token, spent, trip, features, visit, owner, shown, overlap, visits>>
-----------------------------------------------------------------------------
\* create_share_link
Create(t) ==
    /\ owner = Idle /\ token = None /\ t \notin spent
    /\ token' = t /\ spent' = spent \cup {t}
    /\ UNCHANGED <<version, cached, job, visit, owner, shown, overlap, visits>>

\* revoke_share_link, and the refresh after an edit (_refresh_share_tiles_once
\* with refresh_tile_cache): both drop the tiles under the token's lock first.
Begin(why) ==
    /\ owner = Idle /\ token # None
    /\ why = "edit" => version < MaxVersion
    /\ version' = IF why = "edit" THEN version + 1 ELSE version
    /\ owner' = [Idle EXCEPT !.pc = "rmtree", !.why = why, !.token = token]
    /\ overlap' = IF Visiting(token) \/ Started(token)
                  THEN overlap \cup {token} ELSE overlap
    /\ UNCHANGED <<token, spent, cached, job, visit, shown, visits>>

RemoveTiles ==
    /\ owner.pc = "rmtree" /\ job[owner.token].at # "running"
    /\ tile' = [tile EXCEPT ![owner.token] = None]
    /\ owner' = [owner EXCEPT !.pc = "forget"]
    /\ UNCHANGED <<version, token, spent, trip, features, job, visit, shown, overlap, visits>>

\* Mutant: the queued render is left in the pool.
NextJobUncancelled(t) ==
    IF job[t] # NoJob THEN job[t]
    ELSE IF owner.why = "edit" THEN [at |-> "queued", v |-> version, fills |-> TRUE]
    ELSE NoJob

\* The render queued before is cancelled, one that has started is not; after
\* an edit another one is submitted (only one per token is followed here).
NextJob(t) ==
    IF Started(t) THEN job[t]
    ELSE IF owner.why = "edit" THEN [at |-> "queued", v |-> version, fills |-> TRUE]
    ELSE NoJob

\* Mutant: the loaded trip is left to age out.
ForgetTilesOnly ==
    LET t == owner.token
    IN  /\ owner.pc = "forget"
        /\ features' = [features EXCEPT ![t] = None]
        /\ job' = [job EXCEPT ![t] = NextJob(t)]
        /\ owner' = [owner EXCEPT !.pc = "commit"]
        /\ UNCHANGED <<version, token, spent, trip, tile, visit, shown, overlap, visits>>

\* Then the features and the loaded trip.
Forget ==
    LET t == owner.token
    IN  /\ owner.pc = "forget"
        /\ features' = [features EXCEPT ![t] = None]
        /\ trip' = [trip EXCEPT ![t] = None]
        /\ job' = [job EXCEPT ![t] = NextJob(t)]
        /\ owner' = [owner EXCEPT !.pc = "commit"]
        /\ UNCHANGED <<version, token, spent, tile, visit, shown, overlap, visits>>

\* A revoke commits last.
Commit ==
    /\ owner.pc = "commit"
    /\ token' = IF owner.why = "revoke" THEN None ELSE token
    /\ shown' = IF owner.why = "edit" THEN [shown EXCEPT ![owner.token] = version] ELSE shown
    /\ owner' = Idle
    /\ UNCHANGED <<version, spent, cached, job, visit, overlap, visits>>
-----------------------------------------------------------------------------
Init ==
    /\ version = 0 /\ token = None /\ spent = {}
    /\ trip = [t \in Tokens |-> None]
    /\ features = [t \in Tokens |-> None]
    /\ tile = [t \in Tokens |-> None]
    /\ job = [t \in Tokens |-> NoJob]
    /\ visit = [r \in Visits |-> Idle]
    /\ owner = Idle
    /\ shown = [t \in Tokens |-> 0]
    /\ overlap = {} /\ visits = 0

Next ==
    \/ \E r \in Visits :
         \/ \E t \in Tokens, kind \in {"trip", "tile"} : Visit(r, t, kind)
         \/ TileOnDisk(r) \/ FindTrip(r) \/ FillTrip(r) \/ UseTrip(r) \/ Draw(r)
    \/ \E t \in Tokens : Expire(t) \/ StartRender(t) \/ Render(t) \/ EndRender(t) \/ Create(t)
    \/ \E why \in {"edit", "revoke"} : Begin(why)
    \/ RemoveTiles \/ Forget \/ Commit

Spec == Init /\ [][Next]_vars
-----------------------------------------------------------------------------
\* A revoked link serves nothing, from no cache and from no tile ("a revoked
\* link stops working immediately"), unless it was being visited or rendered
\* while it was revoked: what such a request leaves behind stays.
RevokedLinkDead ==
    \A t \in spent \ overlap :
        token # t => trip[t] = None /\ features[t] = None /\ tile[t] = None

\* After an edit's refresh the tiles and features shown under the link are
\* those of the edited trip or newer, with the same exception.
TilesFollowEdits ==
    \A t \in spent \ overlap :
        \A v \in {tile[t], features[t]} \ {None} :
            owner = Idle => v >= shown[t]
=============================================================================
