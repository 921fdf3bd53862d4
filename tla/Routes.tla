-------------------------------- MODULE Routes ---------------------------------
(***************************************************************************)
(* The endpoints of the API as data: what their decorators ask of a        *)
(* request, what they document, and the statements their handlers run.     *)
(* "*" is a path parameter.  Api gives the fields their meaning.           *)
(***************************************************************************)
EXTENDS Naturals, Sequences

\* `code` is that of @HttpCode, 0 where there is none; `described` and `errors` are the
\* answers the OpenAPI document has; `caller` says whether the handler uses me.userId!,
\* `pipes` what it parses, `table` whose row it is about and `work` what it does.
Public(verb, path) ==
  [verb |-> verb, path |-> path, scope |-> "public-read", permission |-> "none",
   operator |-> FALSE, code |-> 0, described |-> 200, errors |-> {}, caller |-> FALSE,
   pipes |-> {}, table |-> "own", work |-> <<>>]

Auth == {401, 403}  \* ApiAuthErrorResponses

Private(verb, path) ==
  [Public(verb, path) EXCEPT !.scope = "user", !.caller = TRUE, !.errors = Auth]

Operator(verb, path) == [Private(verb, path) EXCEPT !.operator = TRUE]

\* A page of rows: the query holds perPage and cursor.
Page(route) == [route EXCEPT !.pipes = {"query"}]

-----------------------------------------------------------------------------
(* Authentication and the own profile. *)

Signup ==
  [Public("POST", <<"auth", "signup">>) EXCEPT !.described = 201, !.errors = {400, 409, 429},
     !.pipes = {"body"}, !.table = "session", !.work = <<"signup">>]

Login ==
  [Public("POST", <<"auth", "login">>) EXCEPT !.code = 200, !.errors = {400, 401, 403, 429},
     !.pipes = {"body"}, !.table = "session", !.work = <<"login">>]

Refresh ==
  [Public("POST", <<"auth", "refresh">>) EXCEPT !.code = 200, !.errors = {401, 429},
     !.pipes = {"body"}, !.table = "session", !.work = <<"rotate">>]

Logout ==
  [Public("POST", <<"auth", "logout">>) EXCEPT !.code = 200,
     !.pipes = {"body"}, !.table = "session", !.work = <<"revoke">>]

Info == [Public("GET", <<"auth", "info">>) EXCEPT !.table = "session"]

ShowMe ==
  [Private("GET", <<"me">>) EXCEPT !.table = "user", !.work = <<"self">>]

UpdateMe ==
  [Private("PATCH", <<"me">>) EXCEPT !.errors = Auth \cup {400}, !.pipes = {"body"},
     !.table = "user", !.work = <<"profile">>]

-----------------------------------------------------------------------------
(* Listings. *)

Search == [Page(Public("GET", <<"listings">>)) EXCEPT !.errors = {400}, !.table = "listing"]

Suggest == [Public("GET", <<"listings", "suggest">>) EXCEPT !.table = "listing"]

CreateListing ==
  [Private("POST", <<"listings">>) EXCEPT !.permission = "postListings", !.described = 201,
     !.errors = Auth \cup {400}, !.pipes = {"body"}, !.table = "listing", !.work = <<"post">>]

MyListings == [Private("GET", <<"listings", "mine">>) EXCEPT !.table = "listing"]

ListingDetail ==
  [Public("GET", <<"listings", "*">>) EXCEPT !.errors = {404}, !.pipes = {"id"},
     !.table = "listing", !.work = <<"look">>]

\* The routes that look at the owner and then write the row by its id.
OwnListing(verb, path, last) ==
  [Private(verb, path) EXCEPT !.errors = Auth \cup {404}, !.pipes = {"id"},
     !.table = "listing", !.work = <<"owned", last>>]

UpdateListing ==
  [OwnListing("PATCH", <<"listings", "*">>, "write") EXCEPT !.errors = Auth \cup {400, 404},
     !.pipes = {"id", "body"}]

Publish == [OwnListing("POST", <<"listings", "*", "publish">>, "write") EXCEPT !.code = 200]

Close == [OwnListing("POST", <<"listings", "*", "close">>, "write") EXCEPT !.code = 200]

Reopen == [OwnListing("POST", <<"listings", "*", "reopen">>, "write") EXCEPT !.code = 200]

SetStock ==
  [OwnListing("PATCH", <<"listings", "*", "stock">>, "write") EXCEPT
     !.errors = Auth \cup {400, 409}, !.pipes = {"id", "body"}, !.work = <<"stock">>]

RemoveListing == OwnListing("DELETE", <<"listings", "*">>, "delete")

-----------------------------------------------------------------------------
(* Checkout and orders. *)

Speculate ==
  [Private("POST", <<"checkout", "speculate">>) EXCEPT !.code = 200, !.caller = FALSE,
     !.errors = Auth \cup {400, 404}, !.pipes = {"body"}, !.table = "listing",
     !.work = <<"offer">>]

CheckoutOrder ==
  [Private("POST", <<"checkout">>) EXCEPT !.permission = "initiateTx", !.described = 201,
     !.errors = Auth \cup {400, 404}, !.pipes = {"body"}, !.table = "listing",
     !.work = <<"offer", "buy">>]

ConfirmCheckout ==
  [Private("POST", <<"checkout", "confirm">>) EXCEPT !.code = 200,
     !.errors = Auth \cup {400, 404}, !.pipes = {"body"}, !.table = "order",
     !.work = <<"owned", "confirm">>]

OrderDetail ==
  [Private("GET", <<"orders", "*">>) EXCEPT !.errors = Auth \cup {404}, !.pipes = {"id"},
     !.table = "order", !.work = <<"party">>]

Transition ==
  [Private("POST", <<"orders", "*", "transitions", "*">>) EXCEPT !.code = 200,
     !.errors = Auth \cup {404, 409}, !.pipes = {"id"}, !.table = "order",
     !.work = <<"party", "transition">>]

-----------------------------------------------------------------------------
(* Social. *)

\* The routes that insert or delete an edge to the row in their path.
Edge(verb, path, tab, work) ==
  [Private(verb, path) EXCEPT !.code = IF verb = "POST" THEN 200 ELSE 0, !.pipes = {"id"},
     !.table = tab, !.work = work]

Follow ==
  [Edge("POST", <<"follow", "*">>, "user", <<"notself", "link">>) EXCEPT
     !.errors = Auth \cup {400}]

Unfollow == Edge("DELETE", <<"follow", "*">>, "user", <<"edge">>)

ListFavorites == Page(Private("GET", <<"favorites">>))

AddFavorite == Edge("POST", <<"favorites", "*">>, "listing", <<"edge">>)

RemoveFavorite == Edge("DELETE", <<"favorites", "*">>, "listing", <<"edge">>)

CreateStory ==
  [Private("POST", <<"stories">>) EXCEPT !.described = 201, !.errors = Auth \cup {400},
     !.pipes = {"body"}, !.table = "story", !.work = <<"insert">>]

LikeStory ==
  [Edge("POST", <<"stories", "*", "like">>, "story", <<"count">>) EXCEPT
     !.errors = Auth \cup {404}]

UnlikeStory ==
  [Edge("DELETE", <<"stories", "*", "like">>, "story", <<"edge">>) EXCEPT
     !.errors = Auth \cup {404}]

CreateHighlight ==
  [Private("POST", <<"highlights">>) EXCEPT !.described = 201, !.errors = Auth \cup {400},
     !.pipes = {"body"}, !.table = "highlight", !.work = <<"insert">>]

AddHighlightStory ==
  [Private("POST", <<"highlights", "*", "stories">>) EXCEPT !.code = 200,
     !.errors = Auth \cup {400, 404}, !.pipes = {"id", "body"}, !.table = "highlight",
     !.work = <<"owned", "member">>]

\* What everybody may read of a user.
OfUser(what) ==
  [Public("GET", <<"users", "*", what>>) EXCEPT !.pipes = {"id"}, !.table = "user"]

Followers == [OfUser("followers") EXCEPT !.pipes = {"id", "query"}]

Following == [OfUser("following") EXCEPT !.pipes = {"id", "query"}]

StoriesOf == [OfUser("stories") EXCEPT !.errors = {404}]

HighlightsOf == [OfUser("highlights") EXCEPT !.errors = {404}]

-----------------------------------------------------------------------------
(* Notifications and push tokens, all of them the caller's own. *)

ListNotifications == Page(Private("GET", <<"notifications">>))

UnreadCount == Private("GET", <<"notifications", "unread-count">>)

MarkRead ==
  [Private("POST", <<"notifications", "mark-read">>) EXCEPT !.code = 200,
     !.errors = Auth \cup {400}, !.pipes = {"body"}]

GetPreferences == Private("GET", <<"notifications", "preferences">>)

UpdatePreferences ==
  [Private("PUT", <<"notifications", "preferences">>) EXCEPT
     !.errors = Auth \cup {400}, !.pipes = {"body"}]

RegisterPushToken ==
  [Private("POST", <<"push", "token">>) EXCEPT !.code = 200,
     !.errors = Auth \cup {400}, !.pipes = {"body"}]

RevokePushToken ==
  [Private("DELETE", <<"push", "token">>) EXCEPT !.code = 200,
     !.errors = Auth \cup {400}, !.pipes = {"body"}]

-----------------------------------------------------------------------------
(* Operators. *)

Queue(path, tab) == [Page(Operator("GET", path)) EXCEPT !.caller = FALSE, !.table = tab]

\* The decisions that a body explains, and those that it does not.
Decision(path, tab, work) ==
  [Operator("POST", path) EXCEPT !.code = 200, !.errors = Auth \cup {404}, !.pipes = {"id"},
     !.table = tab, !.work = work]
Explained(route) == [route EXCEPT !.errors = @ \cup {400}, !.pipes = {"id", "body"}]

\* A transaction of the account's status and its history, then the audit.
Account(status) == <<"find", status, "history", "audit">>

ListUsers == Queue(<<"admin", "users">>, "user")

UserDetail ==
  [Operator("GET", <<"admin", "users", "*">>) EXCEPT !.caller = FALSE,
     !.errors = Auth \cup {404}, !.pipes = {"id"}, !.table = "user", !.work = <<"look">>]

Restrict ==
  Explained(Decision(<<"admin", "users", "*", "restrict">>, "user", Account("restrict")))

Unrestrict ==
  Explained(Decision(<<"admin", "users", "*", "unrestrict">>, "user", Account("unrestrict")))

Ban == Explained(Decision(<<"admin", "users", "*", "ban">>, "user", Account("ban")))

ListReports == Queue(<<"admin", "reports">>, "case")

ResolveReport ==
  Explained(Decision(<<"admin", "reports", "*", "resolve">>, "case", <<"find", "decide", "audit">>))

ListAppeals == Queue(<<"admin", "appeals">>, "case")

ReviewAppeal ==
  Explained(Decision(<<"admin", "appeals", "*", "review">>, "case", <<"find", "decide", "audit">>))

ListWaitlist == Queue(<<"admin", "waitlist">>, "case")

\* Mutant: the approval is not on record.
ApproveQuietly ==
  Decision(<<"admin", "waitlist", "*", "approve">>, "case", <<"find", "decide">>)

ApproveWaitlist ==
  Decision(<<"admin", "waitlist", "*", "approve">>, "case", <<"find", "decide", "audit">>)

ListDeletionRequests == Queue(<<"admin", "deletion-requests">>, "case")

CompleteDeletionRequest ==
  Decision(<<"admin", "deletion-requests", "*", "complete">>, "case",
           <<"find", "decide", "audit">>)

-----------------------------------------------------------------------------
(* The order in which Nest registers them: by module, controller and method. *)

IdentityRoutes == <<Signup, Login, Refresh, Logout, Info, ShowMe, UpdateMe>>

SearchRoutes == <<Search, Suggest>>
ListingRoutes ==
  <<CreateListing, MyListings, ListingDetail, UpdateListing, Publish, Close, Reopen,
    SetStock, RemoveListing>>

\* Mutant: the controllers of the catalog the other way round.
DetailFirst == ListingRoutes \o SearchRoutes

CatalogRoutes == SearchRoutes \o ListingRoutes

OrderRoutes == <<OrderDetail, Transition, Speculate, CheckoutOrder, ConfirmCheckout>>

SocialRoutes ==
  <<Follow, Unfollow, ListFavorites, AddFavorite, RemoveFavorite, CreateStory, LikeStory,
    UnlikeStory, CreateHighlight, AddHighlightStory, Followers, Following, StoriesOf,
    HighlightsOf>>

NotificationRoutes ==
  <<ListNotifications, UnreadCount, MarkRead, GetPreferences, UpdatePreferences,
    RegisterPushToken, RevokePushToken>>

AdminRoutes ==
  <<ListUsers, UserDetail, Restrict, Unrestrict, Ban, ListReports, ResolveReport,
    ListAppeals, ReviewAppeal, ListWaitlist, ApproveWaitlist, ListDeletionRequests,
    CompleteDeletionRequest>>

Registered ==
  IdentityRoutes \o CatalogRoutes \o OrderRoutes \o SocialRoutes \o NotificationRoutes
  \o AdminRoutes

-----------------------------------------------------------------------------
Endpoints == DOMAIN Registered  \* endpoints by their number

\* A parameter takes any segment; an id, "*" in a path, is none of the words of a pattern.
Matches(pattern, path) ==
  /\ Len(pattern) = Len(path)
  /\ \A i \in DOMAIN path : pattern[i] \in {"*", path[i]}

\* Express takes the first route that matches.
First(S) == CHOOSE i \in S : \A j \in S : i <= j
Routed(i) ==
  First({j \in Endpoints : /\ Registered[j].verb = Registered[i].verb
                           /\ Matches(Registered[j].path, Registered[i].path)})

\* Where the router takes each endpoint's requests.
Router == SubSeq([i \in Endpoints |-> Routed(i)], 1, Len(Registered))

\* The global prefix and the version.
FullPath(route) == <<"api", "v1">> \o route.path

\* What a success is answered with: Nest's default is 201 for POST.
Success(route) ==
  IF route.code # 0 THEN route.code ELSE IF route.verb = "POST" THEN 201 ELSE 200
=============================================================================
