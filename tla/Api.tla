---------------------------------- MODULE Api ----------------------------------
(***************************************************************************)
(* The way of a request: the router, the global guards (throttler, token,  *)
(* scope, permission), the operator guard, the pipes and the statements of *)
(* the handler, with other requests between any two that wait for the      *)
(* database.                                                               *)
(*                                                                         *)
(* A behaviour is about one row of one table: requests about different     *)
(* rows meet only in the permissions.  What a row holds beyond its owner   *)
(* and its status, the modules of the components have.                     *)
(***************************************************************************)
EXTENDS Routes, FiniteSets

CONSTANTS
  Users,
  Requests,  \* the requests that can be under way at the same time
  Tables,    \* the tables a behaviour may be about
  None

\* "nobody", in the place of a user or of the holder of a lock, is neither.
ASSUME ApiAssumption == None \notin Users \cup Requests

VARIABLES
  table,    \* the table of the row
  row,      \* the row, with who wrote it and who decided on it last (history)
  denied,   \* the UserPermission rows: the flags denied to each user
  jar,      \* the cookies of one browser
  session,  \* its Credential row
  req       \* req[r]: where request r stands, or how it was answered

vars == <<table, row, denied, jar, session, req>>

-----------------------------------------------------------------------------
Flags == {"postListings", "initiateTx"}
Rank == [s \in {"public-read", "user", "trusted"} |->
           IF s = "public-read" THEN 0 ELSE IF s = "user" THEN 1 ELSE 2]

Nobody == [user |-> None, secret |-> FALSE]

Idle == [pc |-> "idle", asked |-> 1, route |-> 1, by |-> Nobody, browser |-> FALSE,
         stale |-> FALSE, carries |-> FALSE, fault |-> "none", step |-> 0, status |-> 0,
         denied |-> {}, changed |-> FALSE, audited |-> FALSE]

Route(q) == Registered[q.route]  \* the endpoint it has reached
Asked(q) == Registered[q.asked]  \* the one it was meant for

\* RFC 6265: the path of the cookie is a prefix of the request's.
CookieSent(cookiePath, route) ==
  LET path == FullPath(route) IN
  /\ Len(cookiePath) <= Len(path)
  /\ SubSeq(path, 1, Len(cookiePath)) = cookiePath

RefreshCookiePath == <<"auth">>

About(route) == route.table = table

-----------------------------------------------------------------------------
(* Guards. *)

\* Mutant: the comparison the wrong way round.
ScopeHeld(route, scope) == Rank[route.scope] >= Rank[scope]

\* ScopesGuard.
ScopeSuffices(route, scope) == Rank[scope] >= Rank[route.scope]

Scope(user) == IF user = None THEN "public-read" ELSE "user"

\* The throttler and AuthGuard, then ScopesGuard: nothing of it waits.  A token that is
\* there and does not verify is a 401, whatever the route.
Refused(route, user, stale) ==
  IF stale \/ ~ScopeSuffices(route, Scope(user)) THEN 401 ELSE 0

Answered(q, status) ==
  [Idle EXCEPT !.pc = "answered", !.status = status, !.asked = q.asked, !.route = q.route,
     !.stale = q.stale, !.fault = q.fault, !.changed = q.changed, !.audited = q.audited]

\* `denied` in a request is history: the flags its user has been denied since before it came.
Receive(r, i, by, stale, browser, carries) ==
  /\ req[r].pc = "idle"
  /\ LET q == [Idle EXCEPT !.pc = "admit", !.asked = i, !.route = Router[i], !.by = by,
                 !.browser = browser, !.stale = stale, !.carries = carries,
                 !.denied = IF by.user = None THEN {} ELSE denied[by.user]]
         refused == Refused(Route(q), by.user, stale)
     IN req' = [req EXCEPT ![r] = IF refused # 0 THEN Answered(q, refused) ELSE q]
  /\ UNCHANGED <<table, row, denied, jar, session>>

\* A native client or a server: the token in a header, none, or one that has expired.
FromClient(r, i) ==
  \E user \in Users \cup {None}, secret, stale, carries \in BOOLEAN :
    /\ stale => user = None /\ ~secret
    /\ secret => Registered[i].operator
    /\ carries => Registered[i].table = "session"
    /\ Receive(r, i, [user |-> user, secret |-> secret], stale, FALSE, carries)

\* A browser sends the cookies of its jar that fit the path.
FromBrowser(r, i) ==
  /\ table = "session"
  /\ Receive(r, i, [user |-> IF jar.access THEN row.owner ELSE None, secret |-> FALSE],
             FALSE, TRUE, jar.refresh /\ CookieSent(RefreshCookiePath, Registered[i]))

\* 120 requests a minute, 10 for login; how many there were is left open, and of which route.
Throttle(r) ==
  /\ req[r].pc = "idle"
  /\ req' = [req EXCEPT ![r] = Answered(Idle, 429)]
  /\ UNCHANGED <<table, row, denied, jar, session>>

\* Mutant: the guard answers from the token alone.
NeverDenied(q) == FALSE

\* PermissionsGuard reads the caller's UserPermission row.
PermissionDenied(q) ==
  LET flag == Route(q).permission IN
  flag # "none" /\ (q.by.user = None \/ flag \in denied[q.by.user])

\* Mutant: the secret alone is not asked for where a body explains the decision.
OperatorByBody(q) == Route(q).operator /\ ~q.by.secret /\ "body" \notin Route(q).pipes

\* OperatorGuard; ScopesGuard has seen to the 401.
NotOperator(q) == Route(q).operator /\ ~q.by.secret

\* Then the pipes, and the handler begins.
Admit(r) ==
  LET q == req[r] IN
  /\ q.pc = "admit"
  /\ IF PermissionDenied(q) \/ NotOperator(q)
     THEN req' = [req EXCEPT ![r] = Answered(q, 403)]
     ELSE \/ \E fault \in Route(q).pipes :
               req' = [req EXCEPT ![r] = Answered([q EXCEPT !.fault = fault], 400)]
          \/ req' = [req EXCEPT ![r] = [q EXCEPT !.pc = "work", !.step = 1]]
  /\ UNCHANGED <<table, row, denied, jar, session>>

-----------------------------------------------------------------------------
(* The statements of the handlers. *)

Doing(q) == IF q.step \in DOMAIN Route(q).work THEN Route(q).work[q.step] ELSE "done"

\* What a statement must be refused with, as the row stands; the rows of other tables
\* are as they may be.  A user's own row is the one with the user as its owner: who is
\* gone keeps a token.
Refusals(q) ==
  LET w == Doing(q)
      mine == Route(q).table = table IN
  {s \in {400, 401, 403, 404, 409, 422} :
     /\ mine
     /\ \/ s = 404 /\ w \in {"owned", "party", "offer"} /\ row.state # "live"
        \/ s = 404 /\ w \in {"find", "count"} /\ row.state = "none"
        \/ s = 403 /\ w = "owned" /\ row.state = "live" /\ q.by.user # row.owner
        \/ s = 403 /\ w = "party" /\ row.state = "live"
             /\ q.by.user \notin {row.owner, row.party}
        \/ s = 403 /\ w = "stock" /\ (row.state = "none" \/ q.by.user # row.owner)
        \/ s = 409 /\ w = "stock" /\ row.state = "deleted" /\ q.by.user = row.owner
        \/ s = 400 /\ w \in {"notself", "buy"} /\ q.by.user = row.owner
        \/ s = 401 /\ w = "self" /\ row.state = "none" /\ q.by.user = row.owner
        \/ s = 404 /\ w = "profile" /\ row.state = "none" /\ q.by.user = row.owner
        \/ s = 422 /\ w = "link" /\ row.state = "none"
        \/ s = 401 /\ w = "rotate" /\ ~q.carries}

\* What it may be refused with besides: by conditions the components' modules have, by a
\* replica that is behind, and for a caller who is gone, by the foreign keys of listings,
\* orders and follows.
Possible(q) ==
  LET w == Doing(q) IN
  {s \in {400, 401, 403, 404, 409, 422} :
     \/ s = 400 /\ w \in {"offer", "transition"}
     \/ s = 401 /\ w \in {"login", "rotate"}
     \/ s = 401 /\ w = "self" /\ q.by.user # row.owner
     \/ s = 403 /\ w \in {"login", "transition"}
     \/ s = 404 /\ w \in {"look", "offer"}
     \/ s = 404 /\ w = "profile" /\ q.by.user # row.owner
     \/ s = 422 /\ w \in {"post", "buy", "link"}
     \/ s = 409 /\ w \in {"signup", "stock", "confirm", "transition", "member"}}

Refuse(r) ==
  LET q == req[r] IN
  /\ q.pc = "work"
  /\ \E s \in IF Refusals(q) = {} THEN Possible(q) ELSE Refusals(q) :
       req' = [req EXCEPT ![r] = Answered(q, s)]
  /\ UNCHANGED <<table, row, denied, jar, session>>

Marks == {"restrict", "unrestrict", "ban"}

\* Mutant: each statement is a transaction of its own.
EffectUnlocked(r, w, q) ==
  CASE w \in Marks -> [row EXCEPT !.status = w, !.decider = q.by]
    [] w = "history" -> [row EXCEPT !.last = Route(q).work[q.step - 1]]
    [] OTHER -> row

\* What it does to the row.  A write is by id, whatever has become of the row since it
\* was read; a story that joins a highlight counts as a write of the highlight.  The status
\* of an account, here the mark that made it, is written under the row's lock, which its
\* history row and the commit release.
Effect(r, w, q) ==
  CASE w \in {"write", "stock", "confirm", "transition", "member"} ->
         [row EXCEPT !.writer = q.by]
    [] w = "profile" /\ q.by.user = row.owner -> [row EXCEPT !.writer = q.by]
    [] w = "delete" -> [row EXCEPT !.state = "deleted", !.writer = q.by]
    [] w \in {"post", "insert"} /\ row.state = "none" ->
         [row EXCEPT !.state = "live", !.owner = q.by.user, !.writer = q.by]
    [] w = "decide" -> [row EXCEPT !.status = "decided", !.decider = q.by]
    [] w \in Marks -> [row EXCEPT !.status = w, !.was = row.status, !.lock = r]
    [] w = "history" ->
         [row EXCEPT !.last = row.status, !.was = "active", !.lock = None, !.decider = q.by]
    [] OTHER -> row

Waits(w) == w \in Marks /\ row.lock # None  \* for the row's lock

\* The cookies and the credential of the browser.
Cookies(w, q) ==
  IF ~q.browser THEN jar
  ELSE IF w \in {"signup", "login", "rotate"} THEN [access |-> TRUE, refresh |-> TRUE]
  ELSE IF w = "revoke" THEN [access |-> FALSE, refresh |-> FALSE] ELSE jar
Credential(w, q) ==
  IF ~q.browser THEN session
  ELSE IF w \in {"signup", "login"} THEN "live"
  ELSE IF w = "revoke" /\ q.carries THEN "dead" ELSE session

Work(r) ==
  LET q == req[r]
      w == Doing(q) IN
  /\ q.pc = "work" /\ w # "done" /\ Refusals(q) = {} /\ ~Waits(w)
  /\ row' = IF Route(q).table = table THEN Effect(r, w, q) ELSE row
  /\ jar' = Cookies(w, q)
  /\ session' = Credential(w, q)
  /\ req' = [req EXCEPT ![r].step = @ + 1,
                        ![r].changed = @ \/ w \in {"decide", "history"},
                        ![r].audited = @ \/ w = "audit"]
  /\ UNCHANGED <<table, denied>>

\* Mutant: the answer is Nest's default.
AnswerDefault(r) ==
  LET q == req[r] IN
  /\ q.pc = "work" /\ Doing(q) = "done"
  /\ req' = [req EXCEPT ![r] = Answered(q, IF Route(q).verb = "POST" THEN 201 ELSE 200)]
  /\ UNCHANGED <<table, row, denied, jar, session>>

Answer(r) ==
  LET q == req[r] IN
  /\ q.pc = "work" /\ Doing(q) = "done"
  /\ req' = [req EXCEPT ![r] = Answered(q, Success(Route(q)))]
  /\ UNCHANGED <<table, row, denied, jar, session>>

-----------------------------------------------------------------------------
(* The environment. *)

\* The answer has been read; or the process died, or a statement failed in a way nobody
\* foresees: there is a 500 or nothing to read, and its transaction is rolled back.
End(r) ==
  /\ req[r].pc # "idle"
  /\ req' = [req EXCEPT ![r] = Idle]
  /\ row' = IF row.lock = r
            THEN [row EXCEPT !.status = row.was, !.was = "active", !.lock = None] ELSE row
  /\ UNCHANGED <<table, denied, jar, session>>

\* Whoever operates the database denies and allows, where it is listings and orders that
\* are looked at; one flag at a time (bounds).
Deny(u, flag) ==
  /\ table \in {"listing", "order"} /\ \A v \in Users : denied[v] = {}
  /\ denied' = [denied EXCEPT ![u] = @ \cup {flag}]
  /\ UNCHANGED <<table, row, jar, session, req>>
Allow(u, flag) ==
  /\ flag \in denied[u]
  /\ denied' = [denied EXCEPT ![u] = @ \ {flag}]
  /\ req' = [r \in Requests |-> IF req[r].by.user = u
                                THEN [req[r] EXCEPT !.denied = @ \ {flag}] ELSE req[r]]
  /\ UNCHANGED <<table, row, jar, session>>

\* The access cookie has the token's age; the refresh cookie ends with the browser.
AccessExpires ==
  /\ jar.access /\ jar' = [jar EXCEPT !.access = FALSE]
  /\ UNCHANGED <<table, row, denied, session, req>>
BrowserCloses ==
  /\ jar.refresh /\ jar' = [jar EXCEPT !.refresh = FALSE]
  /\ UNCHANGED <<table, row, denied, session, req>>

Callers == [user : Users \cup {None}, secret : BOOLEAN]
Rows == [state : {"none", "live", "deleted"}, owner : Users, party : Users,
         writer : Callers, decider : Callers,
         lock : Requests \cup {None}, was : {"active"} \cup Marks, last : {"active"} \cup Marks,
         status : {"active", "open", "decided"} \cup Marks]

Init ==
  /\ table \in Tables
  /\ \E state \in {"none", "live"}, owner, party \in Users :
       row = [state |-> state, owner |-> owner, party |-> party, writer |-> Nobody,
              decider |-> Nobody, lock |-> None, was |-> "active", last |-> "active",
              status |-> IF table = "case" THEN "open" ELSE "active"]
  /\ table # "order" => row.party = row.owner
  /\ denied = [u \in Users |-> {}]
  /\ jar = [access |-> FALSE, refresh |-> FALSE] /\ session = "none"
  /\ req = [r \in Requests |-> Idle]

Next ==
  \/ \E r \in Requests :
       \/ Throttle(r) \/ Admit(r) \/ Refuse(r) \/ Work(r) \/ Answer(r) \/ End(r)
       \/ \E i \in Endpoints : About(Registered[i]) /\ (FromClient(r, i) \/ FromBrowser(r, i))
  \/ \E u \in Users, flag \in Flags : Deny(u, flag) \/ Allow(u, flag)
  \/ AccessExpires \/ BrowserCloses

Spec == Init /\ [][Next]_vars

-----------------------------------------------------------------------------
(* Properties. *)

TypeOK ==
  /\ table \in Tables /\ row \in Rows
  /\ denied \in [Users -> SUBSET Flags]
  /\ jar \in [access : BOOLEAN, refresh : BOOLEAN] /\ session \in {"none", "live", "dead"}
  /\ \A r \in Requests :
       /\ DOMAIN req[r] = DOMAIN Idle
       /\ req[r].pc \in {"idle", "admit", "work", "answered"}
       /\ req[r].asked \in Endpoints /\ req[r].route \in Endpoints
       /\ req[r].by.user \in Users \cup {None} /\ req[r].denied \subseteq Flags
       /\ req[r].step \in 0 .. Len(Route(req[r]).work) + 1
       /\ req[r].status \in {0, 200, 201, 400, 401, 403, 404, 409, 422, 429}

\* No route hides another: /listings/mine and /listings/suggest are not taken for a
\* listing's id, whatever order modules and controllers are registered in now.
EveryPathFindsItsRoute == \A r \in Requests : req[r].route = req[r].asked

\* A handler that says me.userId! has a user.  Without one Prisma would drop the condition
\* from the WHERE, and the statement would be about everybody's rows.
CallersAreKnown ==
  \A r \in Requests : req[r].pc = "work" /\ Route(req[r]).caller => req[r].by.user # None

\* A row is written by its owner, an order by its parties, and an account and a case are
\* decided on by who has shown the operator secret, although the owner is read by one
\* statement and the row written by id by another.
GuardedWrites ==
  /\ row.writer # Nobody =>
       /\ table \in {"listing", "highlight", "story", "user"} => row.writer.user = row.owner
       /\ table = "order" => row.writer.user \in {row.owner, row.party}
  /\ row.decider # Nobody => row.decider.secret /\ row.decider.user # None

\* Where an endpoint asks for a permission, posting a listing and placing an order, nothing
\* is done for a user it has been denied to since before the request came, although the
\* token says nothing of it and the flag is read after the token.  It is no more than
\* that: publish, reopen, confirm and the transitions ask for none (DeniedDoNotTransact).
PermissionTakesHold ==
  \A r \in Requests : req[r].pc = "work" => Route(req[r]).permission \notin req[r].denied

\* Every answer is one that the documentation of its endpoint has: the success with its
\* status, and the refusals of guards, body and handler.  A rate limit is documented once
\* for all; a malformed id or query, and the following, are documented nowhere.
Undocumented ==
  {<<Refresh, 400>>, <<Logout, 400>>, <<UpdateMe, 404>>, <<CreateListing, 422>>,
   <<CheckoutOrder, 422>>, <<ConfirmCheckout, 409>>, <<Transition, 400>>,
   <<Follow, 422>>, <<AddHighlightStory, 409>>}
Documented(q) ==
  \/ q.status \in {Route(q).described, 429} \cup Route(q).errors
  \/ q.fault \in {"id", "query"}
  \/ q.stale /\ Route(q).scope = "public-read"
  \/ <<Route(q), q.status>> \in Undocumented
AnswersAreDeclared == \A r \in Requests : req[r].pc = "answered" => Documented(req[r])

\* An operator who reads a success has changed something and is on record for it, and
\* nothing is on record that was not changed.
DecisionsAreAudited ==
  \A r \in Requests :
    /\ req[r].audited => req[r].changed
    /\ /\ req[r].pc = "answered" /\ req[r].status = 200
       /\ Route(req[r]).operator /\ Route(req[r]).verb = "POST"
       => req[r].audited

\* The account's status is what the last row of its restriction history says, with two
\* operators at work on it.
StatusTellsHistory == table = "user" /\ row.lock = None => row.status = row.last

-----------------------------------------------------------------------------
(* What the documentation of the code says, and TLC refutes. *)

\* auth.controller.ts:200 - the web refreshes with its cookie: a browser that is signed in
\* and still has the cookie presents it.
SignedInCanRefresh ==
  \A r \in Requests :
    /\ req[r].browser /\ Route(req[r]) = Refresh /\ req[r].pc \in {"admit", "work"}
    /\ jar.refresh /\ session = "live"
    => req[r].carries

\* auth.controller.ts:260 - logout never fails on a missing token; auth/info never 401s.
LogoutNeverFails ==
  \A r \in Requests :
    req[r].pc = "answered" /\ Route(req[r]) \in {Logout, Info} /\ req[r].fault = "none"
      => req[r].status \in {200, 429}

\* audit.service.ts:6 - every mutating admin action calls log().
EveryChangeIsAudited ==
  [][\A r \in Requests : req[r].changed /\ ~req[r].audited => req'[r].pc # "idle"]_vars

\* permissions.guard.ts:13 - used on listing-create (postListings) and checkout/transition
\* (initiateTx): nobody transacts who may not.
DeniedDoNotTransact ==
  \A r \in Requests : req[r].pc = "work" =>
    /\ Route(req[r]) = CreateListing => "postListings" \notin req[r].denied
    /\ Route(req[r]) \in {CheckoutOrder, Transition} => "initiateTx" \notin req[r].denied

\* me.controller.ts:58 - a valid token whose user no longer exists returns 401, not 404.
GoneCallerIs401 ==
  \A r \in Requests :
    req[r].pc = "answered" /\ Route(req[r]) \in {ShowMe, UpdateMe} => req[r].status # 404

\* user-social.controller.ts - the stories and highlights of an unknown user are a 404.
UnknownUserIsNotFound ==
  \A r \in Requests :
    /\ req[r].pc = "answered" /\ Route(req[r]) \in {StoriesOf, HighlightsOf}
    /\ table = "user" /\ row.state = "none"
    => req[r].status # 200
=============================================================================
