------------------------------- MODULE ApiProofs -------------------------------
(***************************************************************************)
(* Proofs about Api, for any users, requests and tables.                   *)
(***************************************************************************)
EXTENDS Api, TLAPS

-----------------------------------------------------------------------------
(* What the endpoints have in common: the decorators of each agree with each *)
(* other, with its documentation and with the statements of its handler.     *)

Elements(S) == {S[i] : i \in 1 .. Len(S)}

RouteSet ==
  Elements(IdentityRoutes) \cup Elements(CatalogRoutes) \cup Elements(OrderRoutes)
  \cup Elements(SocialRoutes) \cup Elements(NotificationRoutes) \cup Elements(AdminRoutes)

Words == {"signup", "login", "rotate", "revoke", "self", "insert", "look", "owned", "write",
          "delete", "stock", "offer", "buy", "confirm", "party", "transition", "notself",
          "link", "edge", "count", "member", "find", "history", "audit", "decide", "post",
          "profile"} \cup Marks

\* The statuses a statement may be refused with, whatever the row.
Raises(w) ==
  {s \in {400, 401, 403, 404, 409, 422} :
     \/ s = 404 /\ w \in {"owned", "party", "offer", "find", "count", "look", "profile"}
     \/ s = 403 /\ w \in {"owned", "party", "stock", "login", "transition"}
     \/ s = 409 /\ w \in {"stock", "signup", "confirm", "transition", "member"}
     \/ s = 400 /\ w \in {"notself", "buy", "offer", "transition"}
     \/ s = 401 /\ w \in {"self", "rotate", "login"}
     \/ s = 422 /\ w \in {"post", "buy", "link"}}

Declared(route, s) == s \in route.errors \/ <<route, s>> \in Undocumented

\* Who is let in.
Guarded(route) ==
  /\ route.scope \in {"public-read", "user"}
  /\ route.scope = "user" => Auth \subseteq route.errors
  /\ route.caller \/ route.operator \/ route.permission # "none" => route.scope = "user"

\* What is answered.
Answerable(route) ==
  /\ Success(route) = route.described /\ route.described \in {200, 201}
  /\ route.pipes \subseteq {"id", "query", "body"}
  /\ "body" \in route.pipes => Declared(route, 400)

\* What it does, in order: a write follows the check it relies on, and an audit the change
\* it records.
Follows(route, k, S) == \E j \in 1 .. k - 1 : route.work[j] \in S
Placed(route, k) ==
  LET w == route.work[k] IN
  /\ w \in Words
  /\ \A s \in Raises(w) : Declared(route, s)
  /\ w \in {"write", "delete", "stock"} => route.table = "listing"
  /\ w \in {"confirm", "transition"} => route.table = "order"
  /\ w \in {"post", "insert"} =>
       route.table \in {"listing", "story", "highlight"} /\ route.scope = "user"
  /\ w = "member" => route.table = "highlight"
  /\ w = "profile" => route.table = "user"
  /\ w = "decide" => route.table = "case" /\ route.operator
  /\ w \in Marks \cup {"history"} => route.table = "user" /\ route.operator
  /\ w \in {"write", "delete", "confirm", "member"} => Follows(route, k, {"owned"})
  /\ w = "transition" => Follows(route, k, {"party"})
  /\ w = "audit" => Follows(route, k, {"decide", "history"})

Sequenced(route) ==
  /\ Len(route.work) \in Nat /\ DOMAIN route.work = 1 .. Len(route.work)
  /\ \A k \in 1 .. Len(route.work) : Placed(route, k)
  /\ route.operator /\ route.verb = "POST" =>
       \E k \in 1 .. Len(route.work) : route.work[k] = "audit"

WellFormed(route) == Guarded(route) /\ Answerable(route) /\ Sequenced(route)

LEMMA IdentityWellFormed ==
  \A route \in Elements(IdentityRoutes) : WellFormed(route)
<1> USE DEF WellFormed, Guarded, Answerable, Success, Sequenced, Placed, Follows, Raises,
             Declared, Undocumented, Words, Marks, Auth
<1>1. WellFormed(Signup)
  BY DEF Signup, Public
<1>2. WellFormed(Login)
  BY DEF Login, Public
<1>3. WellFormed(Refresh)
  BY DEF Refresh, Public
<1>4. WellFormed(Logout)
  BY DEF Logout, Public
<1>5. WellFormed(Info)
  BY DEF Info, Public
<1>6. WellFormed(ShowMe)
  BY DEF ShowMe, Public, Private
<1>7. WellFormed(UpdateMe)
  BY DEF UpdateMe, Public, Private
<1> HIDE DEF WellFormed, Guarded, Answerable, Success, Sequenced, Placed, Follows, Raises,
             Declared, Undocumented, Words, Marks, Auth
<1> QED
  BY <1>1, <1>2, <1>3, <1>4, <1>5, <1>6, <1>7
     DEF Elements, IdentityRoutes

LEMMA CatalogWellFormed ==
  \A route \in Elements(CatalogRoutes) : WellFormed(route)
<1> USE DEF WellFormed, Guarded, Answerable, Success, Sequenced, Placed, Follows, Raises,
             Declared, Undocumented, Words, Marks, Auth
<1>1. WellFormed(Search)
  BY DEF Search, Public, Page
<1>2. WellFormed(Suggest)
  BY DEF Suggest, Public
<1>3. WellFormed(CreateListing)
  BY DEF CreateListing, Public, Private
<1>4. WellFormed(MyListings)
  BY DEF MyListings, Public, Private
<1>5. WellFormed(ListingDetail)
  BY DEF ListingDetail, Public
<1>6. WellFormed(UpdateListing)
  BY DEF UpdateListing, Public, Private, OwnListing
<1>7. WellFormed(Publish)
  BY DEF Publish, Public, Private, OwnListing
<1>8. WellFormed(Close)
  BY DEF Close, Public, Private, OwnListing
<1>9. WellFormed(Reopen)
  BY DEF Reopen, Public, Private, OwnListing
<1>10. WellFormed(SetStock)
  BY DEF SetStock, Public, Private, OwnListing
<1>11. WellFormed(RemoveListing)
  BY DEF RemoveListing, Public, Private, OwnListing
<1> HIDE DEF WellFormed, Guarded, Answerable, Success, Sequenced, Placed, Follows, Raises,
             Declared, Undocumented, Words, Marks, Auth
<1> QED
  BY <1>1, <1>2, <1>3, <1>4, <1>5, <1>6, <1>7, <1>8, <1>9, <1>10, <1>11
     DEF Elements, CatalogRoutes, SearchRoutes, ListingRoutes

LEMMA OrderWellFormed ==
  \A route \in Elements(OrderRoutes) : WellFormed(route)
<1> USE DEF WellFormed, Guarded, Answerable, Success, Sequenced, Placed, Follows, Raises,
             Declared, Undocumented, Words, Marks, Auth
<1>1. WellFormed(OrderDetail)
  BY DEF OrderDetail, Public, Private
<1>2. WellFormed(Transition)
  BY DEF Transition, Public, Private
<1>3. WellFormed(Speculate)
  BY DEF Speculate, Public, Private
<1>4. WellFormed(CheckoutOrder)
  BY DEF CheckoutOrder, Public, Private
<1>5. WellFormed(ConfirmCheckout)
  BY DEF ConfirmCheckout, Public, Private
<1> HIDE DEF WellFormed, Guarded, Answerable, Success, Sequenced, Placed, Follows, Raises,
             Declared, Undocumented, Words, Marks, Auth
<1> QED
  BY <1>1, <1>2, <1>3, <1>4, <1>5
     DEF Elements, OrderRoutes

LEMMA SocialWellFormed ==
  \A route \in Elements(SocialRoutes) : WellFormed(route)
<1> USE DEF WellFormed, Guarded, Answerable, Success, Sequenced, Placed, Follows, Raises,
             Declared, Undocumented, Words, Marks, Auth
<1>1. WellFormed(Follow)
  BY DEF Follow, Public, Private, Edge
<1>2. WellFormed(Unfollow)
  BY DEF Unfollow, Public, Private, Edge
<1>3. WellFormed(ListFavorites)
  BY DEF ListFavorites, Public, Private, Page
<1>4. WellFormed(AddFavorite)
  BY DEF AddFavorite, Public, Private, Edge
<1>5. WellFormed(RemoveFavorite)
  BY DEF RemoveFavorite, Public, Private, Edge
<1>6. WellFormed(CreateStory)
  BY DEF CreateStory, Public, Private
<1>7. WellFormed(LikeStory)
  BY DEF LikeStory, Public, Private, Edge
<1>8. WellFormed(UnlikeStory)
  BY DEF UnlikeStory, Public, Private, Edge
<1>9. WellFormed(CreateHighlight)
  BY DEF CreateHighlight, Public, Private
<1>10. WellFormed(AddHighlightStory)
  BY DEF AddHighlightStory, Public, Private
<1>11. WellFormed(Followers)
  BY DEF Followers, Public, OfUser
<1>12. WellFormed(Following)
  BY DEF Following, Public, OfUser
<1>13. WellFormed(StoriesOf)
  BY DEF StoriesOf, Public, OfUser
<1>14. WellFormed(HighlightsOf)
  BY DEF HighlightsOf, Public, OfUser
<1> HIDE DEF WellFormed, Guarded, Answerable, Success, Sequenced, Placed, Follows, Raises,
             Declared, Undocumented, Words, Marks, Auth
<1> QED
  BY <1>1, <1>2, <1>3, <1>4, <1>5, <1>6, <1>7, <1>8, <1>9, <1>10, <1>11, <1>12, <1>13, <1>14
     DEF Elements, SocialRoutes

LEMMA NotificationWellFormed ==
  \A route \in Elements(NotificationRoutes) : WellFormed(route)
<1> USE DEF WellFormed, Guarded, Answerable, Success, Sequenced, Placed, Follows, Raises,
             Declared, Undocumented, Words, Marks, Auth
<1>1. WellFormed(ListNotifications)
  BY DEF ListNotifications, Public, Private, Page
<1>2. WellFormed(UnreadCount)
  BY DEF UnreadCount, Public, Private
<1>3. WellFormed(MarkRead)
  BY DEF MarkRead, Public, Private
<1>4. WellFormed(GetPreferences)
  BY DEF GetPreferences, Public, Private
<1>5. WellFormed(UpdatePreferences)
  BY DEF UpdatePreferences, Public, Private
<1>6. WellFormed(RegisterPushToken)
  BY DEF RegisterPushToken, Public, Private
<1>7. WellFormed(RevokePushToken)
  BY DEF RevokePushToken, Public, Private
<1> HIDE DEF WellFormed, Guarded, Answerable, Success, Sequenced, Placed, Follows, Raises,
             Declared, Undocumented, Words, Marks, Auth
<1> QED
  BY <1>1, <1>2, <1>3, <1>4, <1>5, <1>6, <1>7
     DEF Elements, NotificationRoutes

LEMMA AdminWellFormed ==
  \A route \in Elements(AdminRoutes) : WellFormed(route)
<1> USE DEF WellFormed, Guarded, Answerable, Success, Sequenced, Placed, Follows, Raises,
             Declared, Undocumented, Words, Marks, Auth
<1>1. WellFormed(ListUsers)
  BY DEF ListUsers, Public, Private, Operator, Page, Queue
<1>2. WellFormed(UserDetail)
  BY DEF UserDetail, Public, Private, Operator
<1>3. WellFormed(Restrict)
  BY DEF Restrict, Public, Private, Operator, Decision, Explained, Account
<1>4. WellFormed(Unrestrict)
  BY DEF Unrestrict, Public, Private, Operator, Decision, Explained, Account
<1>5. WellFormed(Ban)
  BY DEF Ban, Public, Private, Operator, Decision, Explained, Account
<1>6. WellFormed(ListReports)
  BY DEF ListReports, Public, Private, Operator, Page, Queue
<1>7. WellFormed(ResolveReport)
  BY DEF ResolveReport, Public, Private, Operator, Decision, Explained
<1>8. WellFormed(ListAppeals)
  BY DEF ListAppeals, Public, Private, Operator, Page, Queue
<1>9. WellFormed(ReviewAppeal)
  BY DEF ReviewAppeal, Public, Private, Operator, Decision, Explained
<1>10. WellFormed(ListWaitlist)
  BY DEF ListWaitlist, Public, Private, Operator, Page, Queue
<1>11. WellFormed(ApproveWaitlist)
  BY DEF ApproveWaitlist, Public, Private, Operator, Decision
<1>12. WellFormed(ListDeletionRequests)
  BY DEF ListDeletionRequests, Public, Private, Operator, Page, Queue
<1>13. WellFormed(CompleteDeletionRequest)
  BY DEF CompleteDeletionRequest, Public, Private, Operator, Decision
<1> HIDE DEF WellFormed, Guarded, Answerable, Success, Sequenced, Placed, Follows, Raises,
             Declared, Undocumented, Words, Marks, Auth
<1> QED
  BY <1>1, <1>2, <1>3, <1>4, <1>5, <1>6, <1>7, <1>8, <1>9, <1>10, <1>11, <1>12, <1>13
     DEF Elements, AdminRoutes

-----------------------------------------------------------------------------
(* The router.  No route hides one that is registered after it: the verb, the *)
(* number of segments, the first of them (never a parameter) and the last tell *)
(* any two apart.                                                            *)

Hides(a, b) == a.verb = b.verb /\ Matches(a.path, b.path)

NoneHides(S) == \A i, j \in 1 .. Len(S) : j < i => ~Hides(S[j], S[i])

Signed(route, sign) ==
  /\ route.verb = sign[1] /\ Len(route.path) = sign[2] /\ DOMAIN route.path = 1 .. sign[2]
  /\ route.path[1] = sign[3] /\ route.path[sign[2]] = sign[4]

\* The signs of the routes of a group, and that each tells its route from those before it.
SignedBy(S, signs) ==
  /\ Len(S) \in Nat /\ Len(S) = Len(signs)
  /\ \A i \in 1 .. Len(S) : Signed(S[i], signs[i])
Telling(signs) ==
  /\ \A i \in 1 .. Len(signs) : signs[i][2] \in Nat \ {0} /\ signs[i][3] # "*"
  /\ \A i, j \in 1 .. Len(signs) : j < i =>
       \/ signs[i][1] # signs[j][1] \/ signs[i][2] # signs[j][2] \/ signs[i][3] # signs[j][3]
       \/ signs[j][4] \notin {"*", signs[i][4]}

LEMMA HiddenAlike ==
  ASSUME NEW a, NEW b, NEW s, NEW t, Signed(a, s), Signed(b, t), Hides(a, b),
         s[2] \in Nat \ {0}, s[3] # "*"
  PROVE  s[1] = t[1] /\ s[2] = t[2] /\ s[3] = t[3] /\ s[4] \in {"*", t[4]}
  BY DEF Hides, Matches, Signed

LEMMA SignsTell ==
  ASSUME NEW S, NEW signs, SignedBy(S, signs), Telling(signs)
  PROVE  NoneHides(S)
<1> SUFFICES ASSUME NEW i \in 1 .. Len(S), NEW j \in 1 .. Len(S), j < i, Hides(S[j], S[i])
             PROVE  FALSE
  BY DEF NoneHides
<1>1. /\ i \in 1 .. Len(signs) /\ j \in 1 .. Len(signs)
      /\ Signed(S[i], signs[i]) /\ Signed(S[j], signs[j])
  BY DEF SignedBy
<1>2. /\ signs[j][1] = signs[i][1] /\ signs[j][2] = signs[i][2] /\ signs[j][3] = signs[i][3]
      /\ signs[j][4] \in {"*", signs[i][4]}
  BY <1>1, HiddenAlike DEF Telling
<1> QED
  BY <1>1, <1>2 DEF Telling

\* The first segments of a group.
Opens(S, words) ==
  \A i \in 1 .. Len(S) : 1 \in DOMAIN S[i].path /\ S[i].path[1] \in words


IdentitySigns ==
  <<<<"POST", 2, "auth", "signup">>, <<"POST", 2, "auth", "login">>,
     <<"POST", 2, "auth", "refresh">>, <<"POST", 2, "auth", "logout">>,
     <<"GET", 2, "auth", "info">>, <<"GET", 1, "me", "me">>, <<"PATCH", 1, "me", "me">>>>

LEMMA IdentityApart ==
  /\ IdentityRoutes \in Seq(RouteSet) /\ NoneHides(IdentityRoutes)
  /\ Opens(IdentityRoutes, {"auth", "me"})
<1>0. /\ Signed(Signup, IdentitySigns[1])
      /\ Signed(Login, IdentitySigns[2])
      /\ Signed(Refresh, IdentitySigns[3])
      /\ Signed(Logout, IdentitySigns[4])
      /\ Signed(Info, IdentitySigns[5])
      /\ Signed(ShowMe, IdentitySigns[6])
      /\ Signed(UpdateMe, IdentitySigns[7])
  BY DEF Signed, IdentitySigns, Signup, Login, Refresh, Logout, Info, ShowMe, UpdateMe,
         Public, Private
<1>1. SignedBy(IdentityRoutes, IdentitySigns)
  BY <1>0 DEF SignedBy, IdentitySigns, IdentityRoutes
<1>2. Telling(IdentitySigns)
  BY DEF Telling, IdentitySigns
<1>3. IdentityRoutes \in Seq(RouteSet)
  BY DEF RouteSet, Elements, IdentityRoutes
<1>4. Opens(IdentityRoutes, {"auth", "me"})
  BY <1>1 DEF SignedBy, Signed, Opens, IdentitySigns
<1> QED
  BY <1>1, <1>2, <1>3, <1>4, SignsTell

CatalogSigns ==
  <<<<"GET", 1, "listings", "listings">>, <<"GET", 2, "listings", "suggest">>,
     <<"POST", 1, "listings", "listings">>, <<"GET", 2, "listings", "mine">>,
     <<"GET", 2, "listings", "*">>, <<"PATCH", 2, "listings", "*">>,
     <<"POST", 3, "listings", "publish">>, <<"POST", 3, "listings", "close">>,
     <<"POST", 3, "listings", "reopen">>, <<"PATCH", 3, "listings", "stock">>,
     <<"DELETE", 2, "listings", "*">>>>

LEMMA CatalogApart ==
  /\ CatalogRoutes \in Seq(RouteSet) /\ NoneHides(CatalogRoutes)
  /\ Opens(CatalogRoutes, {"listings"})
<1>0. /\ Signed(Search, CatalogSigns[1])
      /\ Signed(Suggest, CatalogSigns[2])
      /\ Signed(CreateListing, CatalogSigns[3])
      /\ Signed(MyListings, CatalogSigns[4])
      /\ Signed(ListingDetail, CatalogSigns[5])
      /\ Signed(UpdateListing, CatalogSigns[6])
      /\ Signed(Publish, CatalogSigns[7])
      /\ Signed(Close, CatalogSigns[8])
      /\ Signed(Reopen, CatalogSigns[9])
      /\ Signed(SetStock, CatalogSigns[10])
      /\ Signed(RemoveListing, CatalogSigns[11])
  BY DEF Signed, CatalogSigns, Search, Suggest, CreateListing, MyListings, ListingDetail,
         UpdateListing, Publish, Close, Reopen, SetStock, RemoveListing, Public, Private,
         Page, OwnListing
<1>1. SignedBy(CatalogRoutes, CatalogSigns)
  BY <1>0 DEF SignedBy, CatalogSigns, CatalogRoutes, SearchRoutes, ListingRoutes
<1>2. Telling(CatalogSigns)
  BY DEF Telling, CatalogSigns
<1>3. CatalogRoutes \in Seq(RouteSet)
  BY DEF RouteSet, Elements, CatalogRoutes, SearchRoutes, ListingRoutes
<1>4. Opens(CatalogRoutes, {"listings"})
  BY <1>1 DEF SignedBy, Signed, Opens, CatalogSigns
<1> QED
  BY <1>1, <1>2, <1>3, <1>4, SignsTell

OrderSigns ==
  <<<<"GET", 2, "orders", "*">>, <<"POST", 4, "orders", "*">>,
     <<"POST", 2, "checkout", "speculate">>, <<"POST", 1, "checkout", "checkout">>,
     <<"POST", 2, "checkout", "confirm">>>>

LEMMA OrderApart ==
  /\ OrderRoutes \in Seq(RouteSet) /\ NoneHides(OrderRoutes)
  /\ Opens(OrderRoutes, {"orders", "checkout"})
<1>0. /\ Signed(OrderDetail, OrderSigns[1])
      /\ Signed(Transition, OrderSigns[2])
      /\ Signed(Speculate, OrderSigns[3])
      /\ Signed(CheckoutOrder, OrderSigns[4])
      /\ Signed(ConfirmCheckout, OrderSigns[5])
  BY DEF Signed, OrderSigns, OrderDetail, Transition, Speculate, CheckoutOrder,
         ConfirmCheckout, Public, Private
<1>1. SignedBy(OrderRoutes, OrderSigns)
  BY <1>0 DEF SignedBy, OrderSigns, OrderRoutes
<1>2. Telling(OrderSigns)
  BY DEF Telling, OrderSigns
<1>3. OrderRoutes \in Seq(RouteSet)
  BY DEF RouteSet, Elements, OrderRoutes
<1>4. Opens(OrderRoutes, {"orders", "checkout"})
  BY <1>1 DEF SignedBy, Signed, Opens, OrderSigns
<1> QED
  BY <1>1, <1>2, <1>3, <1>4, SignsTell

SocialSigns ==
  <<<<"POST", 2, "follow", "*">>, <<"DELETE", 2, "follow", "*">>,
     <<"GET", 1, "favorites", "favorites">>, <<"POST", 2, "favorites", "*">>,
     <<"DELETE", 2, "favorites", "*">>, <<"POST", 1, "stories", "stories">>,
     <<"POST", 3, "stories", "like">>, <<"DELETE", 3, "stories", "like">>,
     <<"POST", 1, "highlights", "highlights">>, <<"POST", 3, "highlights", "stories">>,
     <<"GET", 3, "users", "followers">>, <<"GET", 3, "users", "following">>,
     <<"GET", 3, "users", "stories">>, <<"GET", 3, "users", "highlights">>>>

LEMMA SocialApart ==
  /\ SocialRoutes \in Seq(RouteSet) /\ NoneHides(SocialRoutes)
  /\ Opens(SocialRoutes, {"follow", "favorites", "stories", "highlights", "users"})
<1>0. /\ Signed(Follow, SocialSigns[1])
      /\ Signed(Unfollow, SocialSigns[2])
      /\ Signed(ListFavorites, SocialSigns[3])
      /\ Signed(AddFavorite, SocialSigns[4])
      /\ Signed(RemoveFavorite, SocialSigns[5])
      /\ Signed(CreateStory, SocialSigns[6])
      /\ Signed(LikeStory, SocialSigns[7])
      /\ Signed(UnlikeStory, SocialSigns[8])
      /\ Signed(CreateHighlight, SocialSigns[9])
      /\ Signed(AddHighlightStory, SocialSigns[10])
      /\ Signed(Followers, SocialSigns[11])
      /\ Signed(Following, SocialSigns[12])
      /\ Signed(StoriesOf, SocialSigns[13])
      /\ Signed(HighlightsOf, SocialSigns[14])
  BY DEF Signed, SocialSigns, Follow, Unfollow, ListFavorites, AddFavorite, RemoveFavorite,
         CreateStory, LikeStory, UnlikeStory, CreateHighlight, AddHighlightStory, Followers,
         Following, StoriesOf, HighlightsOf, Public, Private, Page, Edge, OfUser
<1>1. SignedBy(SocialRoutes, SocialSigns)
  BY <1>0 DEF SignedBy, SocialSigns, SocialRoutes
<1>2. Telling(SocialSigns)
  BY DEF Telling, SocialSigns
<1>3. SocialRoutes \in Seq(RouteSet)
  BY DEF RouteSet, Elements, SocialRoutes
<1>4. Opens(SocialRoutes, {"follow", "favorites", "stories", "highlights", "users"})
  BY <1>1 DEF SignedBy, Signed, Opens, SocialSigns
<1> QED
  BY <1>1, <1>2, <1>3, <1>4, SignsTell

NotificationSigns ==
  <<<<"GET", 1, "notifications", "notifications">>,
     <<"GET", 2, "notifications", "unread-count">>,
     <<"POST", 2, "notifications", "mark-read">>,
     <<"GET", 2, "notifications", "preferences">>,
     <<"PUT", 2, "notifications", "preferences">>, <<"POST", 2, "push", "token">>,
     <<"DELETE", 2, "push", "token">>>>

LEMMA NotificationApart ==
  /\ NotificationRoutes \in Seq(RouteSet) /\ NoneHides(NotificationRoutes)
  /\ Opens(NotificationRoutes, {"notifications", "push"})
<1>0. /\ Signed(ListNotifications, NotificationSigns[1])
      /\ Signed(UnreadCount, NotificationSigns[2])
      /\ Signed(MarkRead, NotificationSigns[3])
      /\ Signed(GetPreferences, NotificationSigns[4])
      /\ Signed(UpdatePreferences, NotificationSigns[5])
      /\ Signed(RegisterPushToken, NotificationSigns[6])
      /\ Signed(RevokePushToken, NotificationSigns[7])
  BY DEF Signed, NotificationSigns, ListNotifications, UnreadCount, MarkRead,
         GetPreferences, UpdatePreferences, RegisterPushToken, RevokePushToken, Public,
         Private, Page
<1>1. SignedBy(NotificationRoutes, NotificationSigns)
  BY <1>0 DEF SignedBy, NotificationSigns, NotificationRoutes
<1>2. Telling(NotificationSigns)
  BY DEF Telling, NotificationSigns
<1>3. NotificationRoutes \in Seq(RouteSet)
  BY DEF RouteSet, Elements, NotificationRoutes
<1>4. Opens(NotificationRoutes, {"notifications", "push"})
  BY <1>1 DEF SignedBy, Signed, Opens, NotificationSigns
<1> QED
  BY <1>1, <1>2, <1>3, <1>4, SignsTell

AdminSigns ==
  <<<<"GET", 2, "admin", "users">>, <<"GET", 3, "admin", "*">>,
     <<"POST", 4, "admin", "restrict">>, <<"POST", 4, "admin", "unrestrict">>,
     <<"POST", 4, "admin", "ban">>, <<"GET", 2, "admin", "reports">>,
     <<"POST", 4, "admin", "resolve">>, <<"GET", 2, "admin", "appeals">>,
     <<"POST", 4, "admin", "review">>, <<"GET", 2, "admin", "waitlist">>,
     <<"POST", 4, "admin", "approve">>, <<"GET", 2, "admin", "deletion-requests">>,
     <<"POST", 4, "admin", "complete">>>>

LEMMA AdminApart ==
  /\ AdminRoutes \in Seq(RouteSet) /\ NoneHides(AdminRoutes)
  /\ Opens(AdminRoutes, {"admin"})
<1>0. /\ Signed(ListUsers, AdminSigns[1])
      /\ Signed(UserDetail, AdminSigns[2])
      /\ Signed(Restrict, AdminSigns[3])
      /\ Signed(Unrestrict, AdminSigns[4])
      /\ Signed(Ban, AdminSigns[5])
      /\ Signed(ListReports, AdminSigns[6])
      /\ Signed(ResolveReport, AdminSigns[7])
      /\ Signed(ListAppeals, AdminSigns[8])
      /\ Signed(ReviewAppeal, AdminSigns[9])
      /\ Signed(ListWaitlist, AdminSigns[10])
      /\ Signed(ApproveWaitlist, AdminSigns[11])
      /\ Signed(ListDeletionRequests, AdminSigns[12])
      /\ Signed(CompleteDeletionRequest, AdminSigns[13])
  BY DEF Signed, AdminSigns, ListUsers, UserDetail, Restrict, Unrestrict, Ban, ListReports,
         ResolveReport, ListAppeals, ReviewAppeal, ListWaitlist, ApproveWaitlist,
         ListDeletionRequests, CompleteDeletionRequest, Public, Private, Operator, Page,
         Queue, Decision, Explained
<1>1. SignedBy(AdminRoutes, AdminSigns)
  BY <1>0 DEF SignedBy, AdminSigns, AdminRoutes
<1>2. Telling(AdminSigns)
  BY DEF Telling, AdminSigns
<1>3. AdminRoutes \in Seq(RouteSet)
  BY DEF RouteSet, Elements, AdminRoutes
<1>4. Opens(AdminRoutes, {"admin"})
  BY <1>1 DEF SignedBy, Signed, Opens, AdminSigns
<1> QED
  BY <1>1, <1>2, <1>3, <1>4, SignsTell

\* Groups that open with different words do not hide each other's routes.
LEMMA Joined ==
  ASSUME NEW S \in Seq(RouteSet), NEW T \in Seq(RouteSet), NEW F, NEW G,
         NoneHides(S), NoneHides(T), Opens(S, F), Opens(T, G), F \cap G = {}, "*" \notin F
  PROVE  /\ S \o T \in Seq(RouteSet) /\ NoneHides(S \o T) /\ Opens(S \o T, F \cup G)
<1>1. /\ Len(S) \in Nat /\ Len(T) \in Nat /\ Len(S \o T) = Len(S) + Len(T)
      /\ \A i \in 1 .. Len(S \o T) :
           (S \o T)[i] = IF i <= Len(S) THEN S[i] ELSE T[i - Len(S)]
      /\ S \o T \in Seq(RouteSet)
  OBVIOUS
<1>2. ASSUME NEW i \in 1 .. Len(S \o T), NEW j \in 1 .. Len(S \o T), j < i
      PROVE  ~Hides((S \o T)[j], (S \o T)[i])
  <2>1. CASE i <= Len(S)
    BY <2>1, <1>1, <1>2 DEF NoneHides
  <2>2. CASE j > Len(S)
    <3>1. i - Len(S) \in 1 .. Len(T) /\ j - Len(S) \in 1 .. Len(T) /\ j - Len(S) < i - Len(S)
      BY <2>2, <1>1, <1>2
    <3> QED
      BY <3>1, <2>2, <1>1, <1>2 DEF NoneHides
  <2>3. CASE j <= Len(S) /\ i > Len(S)
    <3> DEFINE a == S[j]
    <3> DEFINE b == T[i - Len(S)]
    <3>1. (S \o T)[j] = a /\ (S \o T)[i] = b
      BY <2>3, <1>1
    <3>2. a.path[1] \in F /\ b.path[1] \in G /\ 1 \in DOMAIN b.path
      BY <2>3, <1>1 DEF Opens
    <3>3. ~Hides(a, b)
      <4> HIDE DEF a, b
      <4> QED
        BY <3>2 DEF Hides, Matches
    <3> QED
      BY <3>1, <3>3
  <2> QED
    BY <2>1, <2>2, <2>3, <1>1
<1>3. ASSUME NEW i \in 1 .. Len(S \o T)
      PROVE  1 \in DOMAIN (S \o T)[i].path /\ (S \o T)[i].path[1] \in F \cup G
  <2>1. CASE i <= Len(S)
    BY <2>1, <1>1 DEF Opens
  <2>2. CASE i > Len(S)
    <3>1. i - Len(S) \in 1 .. Len(T)
      BY <2>2, <1>1
    <3> QED
      BY <3>1, <2>2, <1>1 DEF Opens
  <2> QED
    BY <2>1, <2>2, <1>1
<1> QED
  BY <1>1, <1>2, <1>3 DEF NoneHides, Opens

LEMMA RegisteredApart == Registered \in Seq(RouteSet) /\ NoneHides(Registered)
<1> DEFINE I == IdentityRoutes \o CatalogRoutes
<1> DEFINE O == I \o OrderRoutes
<1> DEFINE S == O \o SocialRoutes
<1> DEFINE N == S \o NotificationRoutes
<1>1. /\ I \in Seq(RouteSet) /\ NoneHides(I) /\ Opens(I, {"auth", "me"} \cup {"listings"})
  BY IdentityApart, CatalogApart, Joined
<1>2. /\ O \in Seq(RouteSet) /\ NoneHides(O)
      /\ Opens(O, {"auth", "me"} \cup {"listings"} \cup {"orders", "checkout"})
  <2> HIDE DEF I
  <2> QED
    BY <1>1, OrderApart, Joined
<1>3. /\ S \in Seq(RouteSet) /\ NoneHides(S)
      /\ Opens(S, {"auth", "me"} \cup {"listings"} \cup {"orders", "checkout"}
                  \cup {"follow", "favorites", "stories", "highlights", "users"})
  <2> HIDE DEF O
  <2> QED
    BY <1>2, SocialApart, Joined
<1>4. /\ N \in Seq(RouteSet) /\ NoneHides(N)
      /\ Opens(N, {"auth", "me"} \cup {"listings"} \cup {"orders", "checkout"}
                  \cup {"follow", "favorites", "stories", "highlights", "users"}
                  \cup {"notifications", "push"})
  <2> HIDE DEF S
  <2> QED
    BY <1>3, NotificationApart, Joined
<1>5. Registered = N \o AdminRoutes
  BY DEF Registered
<1> HIDE DEF N
<1> QED
  BY <1>4, <1>5, AdminApart, Joined

LEMMA LeastIsFirst ==
  ASSUME NEW S \in SUBSET Nat, NEW n \in S, \A j \in S : n <= j
  PROVE  First(S) = n
<1>1. \A m \in S : (\A j \in S : m <= j) => m = n
  OBVIOUS
<1>2. \E m \in S : \A j \in S : m <= j
  OBVIOUS
<1> QED
  BY <1>1, <1>2 DEF First

LEMMA RoutesFound ==
  ASSUME NEW i \in Endpoints
  PROVE  /\ i \in Nat /\ Registered[i] \in RouteSet /\ WellFormed(Registered[i])
         /\ Router[i] = i
<1>1. Registered \in Seq(RouteSet) /\ Len(Registered) \in Nat /\ Endpoints = 1 .. Len(Registered)
  BY RegisteredApart DEF Endpoints
<1>2. Registered[i] \in RouteSet
  BY <1>1
<1>3. WellFormed(Registered[i])
  BY <1>2, IdentityWellFormed, CatalogWellFormed, OrderWellFormed, SocialWellFormed,
     NotificationWellFormed, AdminWellFormed DEF RouteSet
<1>4. Routed(i) = i
  <2> DEFINE M == {j \in Endpoints : /\ Registered[j].verb = Registered[i].verb
                                     /\ Matches(Registered[j].path, Registered[i].path)}
  <2>1. M \in SUBSET Nat
    BY <1>1
  <2>2. i \in M
    BY DEF Matches
  <2>3. \A j \in M : i <= j
    BY <1>1, RegisteredApart DEF NoneHides, Hides
  <2> HIDE DEF M
  <2>4. First(M) = i
    BY <2>1, <2>2, <2>3, LeastIsFirst
  <2> QED
    BY <2>4 DEF Routed, M
<1>5. Router[i] = Routed(i)
  BY <1>1 DEF Router
<1> QED
  BY <1>1, <1>2, <1>3, <1>4, <1>5

LEMMA AddedLength ==
  ASSUME NEW S \in Seq(RouteSet), NEW T \in Seq(RouteSet), Len(S) >= 7
  PROVE  S \o T \in Seq(RouteSet) /\ Len(S \o T) >= 7
<1>1. Len(S) \in Nat /\ Len(T) \in Nat /\ Len(S \o T) = Len(S) + Len(T)
  OBVIOUS
<1> QED
  BY <1>1

LEMMA FirstEndpoint == 1 \in Endpoints
<1>1. /\ Len(IdentityRoutes) = 7 /\ IdentityRoutes \in Seq(RouteSet)
      /\ CatalogRoutes \in Seq(RouteSet) /\ OrderRoutes \in Seq(RouteSet)
      /\ SocialRoutes \in Seq(RouteSet) /\ NotificationRoutes \in Seq(RouteSet)
      /\ AdminRoutes \in Seq(RouteSet)
  BY IdentityApart, CatalogApart, OrderApart, SocialApart, NotificationApart, AdminApart
     DEF IdentityRoutes
<1>3. Len(Registered) >= 7
  <2> DEFINE I == IdentityRoutes \o CatalogRoutes
  <2> DEFINE O == I \o OrderRoutes
  <2> DEFINE S == O \o SocialRoutes
  <2> DEFINE N == S \o NotificationRoutes
  <2>1. I \in Seq(RouteSet) /\ Len(I) >= 7
    <3>1. Len(IdentityRoutes) >= 7
      BY <1>1
    <3> QED
      BY <3>1, <1>1, AddedLength
  <2> HIDE DEF I
  <2>2. O \in Seq(RouteSet) /\ Len(O) >= 7
    BY <1>1, AddedLength, <2>1
  <2> HIDE DEF O
  <2>3. S \in Seq(RouteSet) /\ Len(S) >= 7
    BY <1>1, AddedLength, <2>2
  <2> HIDE DEF S
  <2>4. N \in Seq(RouteSet) /\ Len(N) >= 7
    BY <1>1, AddedLength, <2>3
  <2> HIDE DEF N
  <2>5. Len(N \o AdminRoutes) >= 7
    BY <1>1, AddedLength, <2>4
  <2> QED
    BY <2>5 DEF Registered, I, O, S, N
<1> QED
  BY <1>3, RegisteredApart DEF Endpoints

-----------------------------------------------------------------------------
(* The invariant.  What is known of one request, whatever the row: *)

Statuses == {0, 200, 201, 400, 401, 403, 404, 409, 422, 429}

Asks ==
  [pc : {"idle", "admit", "work", "answered"}, asked : Endpoints, route : Endpoints,
   by : [user : Users \cup {None}, secret : BOOLEAN], browser : BOOLEAN, stale : BOOLEAN,
   carries : BOOLEAN, fault : {"none", "id", "query", "body"}, step : Nat,
   status : Statuses, denied : SUBSET Flags, changed : BOOLEAN, audited : BOOLEAN]

\* The flags denied to a caller who has shown a token, and to one who has not.
DeniedTo(user) == IF user = None THEN {} ELSE denied[user]

\* It stands in the endpoint it was meant for, between two of its statements.
Underway(q) ==
  /\ q.route = q.asked
  /\ q.pc # "work" => q.step = 0
  /\ q.pc = "work" => q.step \in 1 .. Len(Route(q).work) + 1

\* The guards have let it pass.
Admitted(q) ==
  /\ q.pc \in {"admit", "work"} /\ Route(q).scope = "user" => q.by.user # None
  /\ q.pc = "work" /\ Route(q).operator => q.by.secret

\* It has changed something, and is on record for it, when that statement lies behind it.
Recorded(q) ==
  /\ q.audited => q.changed
  /\ q.pc \in {"idle", "admit"} => ~q.changed
  /\ q.pc = "work" => /\ Follows(Route(q), q.step, {"decide", "history"}) => q.changed
                      /\ Follows(Route(q), q.step, {"audit"}) => q.audited
  /\ q.pc = "answered" /\ q.status = 200 /\ Route(q).operator /\ Route(q).verb = "POST"
       => q.audited

AskInv(q) ==
  /\ q \in Asks /\ Underway(q) /\ Admitted(q) /\ Recorded(q)
  /\ q.pc = "answered" => Documented(q)

\* A flag that was set when the request came, and is still set, will be seen by the guard.
DenialInv(q) ==
  /\ q.pc = "admit" => q.denied \subseteq DeniedTo(q.by.user)
  /\ q.pc = "work" => Route(q).permission \notin q.denied

\* Whoever has passed the check of the owner, or of the parties, still is the owner or a
\* party when the write comes: a row is never given to somebody else.
CheckedInv(q) ==
  q.pc = "work" /\ About(Route(q)) =>
    /\ Follows(Route(q), q.step, {"owned"}) =>
         row.state # "none" /\ q.by.user = row.owner
    /\ Follows(Route(q), q.step, {"party"}) =>
         row.state # "none" /\ q.by.user \in {row.owner, row.party}

UnwrittenInv ==
  table \in {"listing", "highlight", "story"} /\ row.state = "none" => row.writer = Nobody

\* Under the lock, what the end of its holder would bring back is what the history says.
AccountInv ==
  table = "user" =>
    /\ row.status \in {"active"} \cup Marks
    /\ IF row.lock = None THEN row.status = row.last ELSE row.was = row.last

RowInv == row \in Rows /\ GuardedWrites /\ UnwrittenInv /\ AccountInv

StateTypes ==
  /\ table \in Tables /\ denied \in [Users -> SUBSET Flags]
  /\ jar \in [access : BOOLEAN, refresh : BOOLEAN] /\ session \in {"none", "live", "dead"}
  /\ req \in [Requests -> Asks]

ApiInv ==
  /\ StateTypes /\ RowInv
  /\ \A r \in Requests : AskInv(req[r]) /\ DenialInv(req[r]) /\ CheckedInv(req[r])

-----------------------------------------------------------------------------
(* Requests as they come, and as they are answered. *)

LEMMA AnsweredFields ==
  ASSUME NEW q \in Asks, NEW s \in Statuses
  PROVE  LET a == Answered(q, s) IN
         /\ a \in Asks /\ a.pc = "answered" /\ a.status = s /\ a.step = 0
         /\ a.asked = q.asked /\ a.route = q.route /\ a.stale = q.stale /\ a.fault = q.fault
         /\ a.changed = q.changed /\ a.audited = q.audited
<1>1. Idle \in Asks
  BY FirstEndpoint DEF Asks, Idle, Nobody, Statuses
<1> DEFINE a == Answered(q, s)
<1>2. a = [Idle EXCEPT !.pc = "answered", !.status = s, !.asked = q.asked, !.route = q.route,
             !.stale = q.stale, !.fault = q.fault, !.changed = q.changed, !.audited = q.audited]
  BY DEF Answered
<1> HIDE DEF a
<1>3. a = [pc |-> "answered", asked |-> q.asked, route |-> q.route, by |-> Nobody,
           browser |-> FALSE, stale |-> q.stale, carries |-> FALSE, fault |-> q.fault,
           step |-> 0, status |-> s, denied |-> {}, changed |-> q.changed,
           audited |-> q.audited]
  BY <1>2 DEF Idle
<1>4. /\ a.pc = "answered" /\ a.status = s /\ a.step = 0
      /\ a.asked = q.asked /\ a.route = q.route /\ a.stale = q.stale /\ a.fault = q.fault
      /\ a.changed = q.changed /\ a.audited = q.audited
  BY <1>3
<1>5. a \in Asks
  <2>1. /\ q.asked \in Endpoints /\ q.route \in Endpoints /\ q.stale \in BOOLEAN
        /\ q.fault \in {"none", "id", "query", "body"}
        /\ q.changed \in BOOLEAN /\ q.audited \in BOOLEAN
    BY DEF Asks
  <2>2. Nobody \in [user : Users \cup {None}, secret : BOOLEAN]
    BY DEF Nobody
  <2> QED
    BY <1>3, <2>1, <2>2 DEF Asks
<1> QED
  BY <1>4, <1>5 DEF a

\* An answer is in order if it is documented, and a success on record.
LEMMA AnsweredInv ==
  ASSUME NEW q \in Asks, NEW s \in Statuses, q.route = q.asked, q.audited => q.changed,
         \/ s = 429
         \/ Declared(Route(q), s)
         \/ s = Route(q).described
         \/ q.fault \in {"id", "query"}
         \/ q.stale /\ Route(q).scope = "public-read",
         s = 200 /\ Route(q).operator /\ Route(q).verb = "POST" => q.audited
  PROVE  /\ AskInv(Answered(q, s)) /\ Answered(q, s).pc = "answered"
<1> DEFINE a == Answered(q, s)
<1>1. /\ a \in Asks /\ a.pc = "answered" /\ a.status = s /\ a.step = 0
      /\ a.asked = q.asked /\ a.route = q.route /\ a.stale = q.stale /\ a.fault = q.fault
      /\ a.changed = q.changed /\ a.audited = q.audited
  BY AnsweredFields
<1> HIDE DEF a
<1>2. Route(a) = Route(q)
  BY <1>1 DEF Route
<1>3. Documented(a)
  BY <1>1, <1>2 DEF Documented, Declared
<1>4. AskInv(a) /\ a.pc = "answered"
  BY <1>1, <1>2, <1>3 DEF AskInv, Underway, Admitted, Recorded
<1> QED
  BY <1>4 DEF a

LEMMA IdleInv == AskInv(Idle) /\ Idle.pc = "idle"
<1>1. /\ Idle \in Asks /\ Idle.pc = "idle" /\ Idle.route = Idle.asked /\ Idle.step = 0
      /\ ~Idle.changed /\ ~Idle.audited
  BY FirstEndpoint DEF Idle, Asks, Nobody, Statuses
<1> QED
  BY <1>1 DEF AskInv, Underway, Admitted, Recorded

\* A step that only moves one request on.
Moves(r, q) ==
  req' = [req EXCEPT ![r] = q] /\ UNCHANGED <<table, row, denied, jar, session>>

LEMMA OneRequestMoves ==
  ASSUME ApiInv, NEW r \in Requests, NEW q, Moves(r, q),
         AskInv(q), DenialInv(q), CheckedInv(q)
  PROVE  ApiInv'
<1> USE DEF Moves
<1>1. \A p \in Requests : req'[p] = IF p = r THEN q ELSE req[p]
  BY DEF ApiInv, StateTypes
<1>2. StateTypes'
  BY DEF ApiInv, StateTypes, AskInv
<1>3. RowInv'
  BY DEF ApiInv, RowInv, GuardedWrites, UnwrittenInv, AccountInv
<1>4. ASSUME NEW p \in Requests
      PROVE  AskInv(req'[p]) /\ DenialInv(req[p])' /\ CheckedInv(req[p])'
  BY <1>1 DEF ApiInv, DenialInv, CheckedInv, DeniedTo, About, Route
<1> QED
  BY <1>2, <1>3, <1>4 DEF ApiInv

\* An answer is the end of what the other conjuncts are about.
LEMMA OneRequestAnswered ==
  ASSUME ApiInv, NEW r \in Requests, NEW q \in Asks, NEW s \in Statuses,
         Moves(r, Answered(q, s)),
         q.route = q.asked, q.audited => q.changed,
         \/ s = 429
         \/ Declared(Route(q), s)
         \/ s = Route(q).described
         \/ q.fault \in {"id", "query"}
         \/ q.stale /\ Route(q).scope = "public-read",
         s = 200 /\ Route(q).operator /\ Route(q).verb = "POST" => q.audited
  PROVE  ApiInv'
<1>1. AskInv(Answered(q, s)) /\ Answered(q, s).pc = "answered"
  BY AnsweredInv
<1>2. DenialInv(Answered(q, s)) /\ CheckedInv(Answered(q, s))
  BY <1>1 DEF DenialInv, CheckedInv
<1> HIDE DEF Answered
<1> QED
  BY <1>1, <1>2, OneRequestMoves

LEMMA ThrottleInv ==
  ASSUME ApiInv, NEW r \in Requests, Throttle(r)
  PROVE  ApiInv'
<1>1. Idle \in Asks /\ Idle.route = Idle.asked /\ ~Idle.audited /\ 429 \in Statuses
  BY IdleInv DEF AskInv, Idle, Statuses
<1>2. Moves(r, Answered(Idle, 429))
  BY DEF Throttle, Moves
<1>3. Idle.audited => Idle.changed
  BY <1>1
<1> QED
  BY <1>1, <1>2, <1>3, OneRequestAnswered

\* A request that has come in, and what the guards that do not wait say of it.
LEMMA ReceiveInv ==
  ASSUME ApiInv, NEW r \in Requests, NEW i \in Endpoints,
         NEW by \in [user : Users \cup {None}, secret : BOOLEAN],
         NEW stale \in BOOLEAN, NEW browser \in BOOLEAN, NEW carries \in BOOLEAN,
         Receive(r, i, by, stale, browser, carries)
  PROVE  ApiInv'
<1> DEFINE q == [Idle EXCEPT !.pc = "admit", !.asked = i, !.route = Router[i], !.by = by,
                   !.browser = browser, !.stale = stale, !.carries = carries,
                   !.denied = IF by.user = None THEN {} ELSE denied[by.user]]
<1>1. Router[i] = i /\ WellFormed(Registered[i])
  BY RoutesFound
<1> DEFINE deny == IF by.user = None THEN {} ELSE denied[by.user]
<1> DEFINE j == Router[i]
<1>2. /\ q \in Asks /\ q.pc = "admit" /\ q.asked = i /\ q.route = i /\ q.by = by
      /\ q.stale = stale /\ q.fault = "none" /\ q.step = 0 /\ ~q.changed /\ ~q.audited
      /\ q.denied = deny
  <2>1. deny \in SUBSET Flags /\ j = i
    BY <1>1 DEF ApiInv, StateTypes
  <2>2. q = [Idle EXCEPT !.pc = "admit", !.asked = i, !.route = j, !.by = by,
               !.browser = browser, !.stale = stale, !.carries = carries, !.denied = deny]
    OBVIOUS
  <2> HIDE DEF q, deny, j
  <2>3. q = [pc |-> "admit", asked |-> i, route |-> j, by |-> by, browser |-> browser,
             stale |-> stale, carries |-> carries, fault |-> "none", step |-> 0,
             status |-> 0, denied |-> deny, changed |-> FALSE, audited |-> FALSE]
    BY <2>2 DEF Idle
  <2>4. q \in Asks
    BY <2>1, <2>3 DEF Asks, Statuses
  <2> QED
    BY <2>1, <2>3, <2>4
<1>3. Moves(r, IF Refused(Route(q), by.user, stale) # 0
               THEN Answered(q, Refused(Route(q), by.user, stale)) ELSE q)
  BY DEF Receive, Moves
<1> HIDE DEF q
<1>4. Route(q) = Registered[i] /\ Asked(q) = Registered[i]
  BY <1>2 DEF Route, Asked
<1>5. CASE Refused(Route(q), by.user, stale) # 0
  <2>1. /\ Refused(Route(q), by.user, stale) = 401 /\ 401 \in Statuses
        /\ stale \/ ~ScopeSuffices(Route(q), Scope(by.user))
    BY <1>5 DEF Refused, Statuses
  <2>2. Route(q).scope = "public-read" => ScopeSuffices(Route(q), Scope(by.user))
    BY DEF ScopeSuffices, Scope, Rank
  <2>3. \/ Declared(Route(q), 401)
        \/ q.stale /\ Route(q).scope = "public-read"
    BY <2>1, <2>2, <1>1, <1>2, <1>4 DEF WellFormed, Guarded, Declared, Auth
  <2> QED
    BY <2>1, <2>3, <1>2, <1>3, OneRequestAnswered
<1>6. CASE Refused(Route(q), by.user, stale) = 0
  <2>1. ScopeSuffices(Route(q), Scope(by.user))
    BY <1>6 DEF Refused
  <2>2. Route(q).scope = "user" => q.by.user # None
    BY <2>1, <1>2 DEF ScopeSuffices, Scope, Rank
  <2>3. AskInv(q)
    BY <2>2, <1>2 DEF AskInv, Underway, Admitted, Recorded
  <2>4. DenialInv(q) /\ CheckedInv(q)
    BY <1>2, <1>4 DEF DenialInv, CheckedInv, DeniedTo
  <2> QED
    BY <2>3, <2>4, <1>3, <1>6, OneRequestMoves
<1> QED
  BY <1>5, <1>6

LEMMA FromClientInv ==
  ASSUME ApiInv, NEW r \in Requests, NEW i \in Endpoints, FromClient(r, i)
  PROVE  ApiInv'
<1>1. PICK user \in Users \cup {None}, secret \in BOOLEAN, stale \in BOOLEAN, carries \in BOOLEAN :
        Receive(r, i, [user |-> user, secret |-> secret], stale, FALSE, carries)
  BY DEF FromClient
<1> DEFINE by == [user |-> user, secret |-> secret]
<1>2. by \in [user : Users \cup {None}, secret : BOOLEAN]
  OBVIOUS
<1>3. Receive(r, i, by, stale, FALSE, carries)
  BY <1>1
<1> HIDE DEF by
<1> QED
  BY <1>2, <1>3, ReceiveInv

LEMMA FromBrowserInv ==
  ASSUME ApiInv, NEW r \in Requests, NEW i \in Endpoints, FromBrowser(r, i)
  PROVE  ApiInv'
<1> DEFINE by == [user |-> IF jar.access THEN row.owner ELSE None, secret |-> FALSE]
<1> DEFINE carries == jar.refresh /\ CookieSent(RefreshCookiePath, Registered[i])
<1>1. by \in [user : Users \cup {None}, secret : BOOLEAN]
  BY DEF ApiInv, RowInv, Rows
<1>2. carries \in BOOLEAN
  OBVIOUS
<1>3. Receive(r, i, by, FALSE, TRUE, carries)
  BY DEF FromBrowser
<1> HIDE DEF by, carries
<1> QED
  BY <1>1, <1>2, <1>3, ReceiveInv

\* The guards that read the database, and the pipes.
LEMMA AdmitInv ==
  ASSUME ApiInv, NEW r \in Requests, Admit(r)
  PROVE  ApiInv'
<1> DEFINE q == req[r]
<1>1. /\ q \in Asks /\ AskInv(q) /\ DenialInv(q) /\ q.pc = "admit" /\ q.step = 0
      /\ q.route = q.asked /\ ~q.audited /\ ~q.changed
  BY DEF ApiInv, AskInv, Underway, Recorded, Admit
<1>2. q.route \in Endpoints /\ WellFormed(Route(q)) /\ Asked(q) = Route(q)
  BY <1>1, RoutesFound DEF Asks, Route, Asked
<1>3. CASE PermissionDenied(q) \/ NotOperator(q)
  <2>1. Moves(r, Answered(q, 403)) /\ 403 \in Statuses
    BY <1>3 DEF Admit, Moves, Statuses
  <2>2. Declared(Route(q), 403)
    BY <1>2, <1>3 DEF WellFormed, Guarded, PermissionDenied, NotOperator, Auth, Declared
  <2> QED
    BY <2>1, <2>2, <1>1, OneRequestAnswered
<1>4. ASSUME NEW fault \in Route(q).pipes, Moves(r, Answered([q EXCEPT !.fault = fault], 400))
      PROVE  ApiInv'
  <2> DEFINE p == [q EXCEPT !.fault = fault]
  <2>1. /\ p \in Asks /\ p.fault = fault /\ p.route = q.route /\ p.asked = q.asked
        /\ p.audited = q.audited /\ p.changed = q.changed /\ 400 \in Statuses
    BY <1>1, <1>2 DEF Asks, WellFormed, Answerable, Statuses
  <2> HIDE DEF p
  <2>2. Route(p) = Route(q)
    BY <2>1 DEF Route
  <2>3. Declared(Route(p), 400) \/ p.fault \in {"id", "query"}
    BY <2>1, <2>2, <1>2 DEF WellFormed, Answerable
  <2>4. Moves(r, Answered(p, 400))
    BY <1>4 DEF p
  <2> QED
    BY <2>1, <2>3, <2>4, <1>1, OneRequestAnswered
<1>5. CASE ~PermissionDenied(q) /\ ~NotOperator(q) /\ Moves(r, [q EXCEPT !.pc = "work", !.step = 1])
  <2> DEFINE p == [q EXCEPT !.pc = "work", !.step = 1]
  <2>1. /\ p \in Asks /\ p.pc = "work" /\ p.step = 1 /\ p.route = q.route /\ p.asked = q.asked
        /\ p.by = q.by /\ p.denied = q.denied /\ ~p.audited /\ ~p.changed
    BY <1>1 DEF Asks
  <2> HIDE DEF p
  <2>2. Route(p) = Route(q)
    BY <2>1 DEF Route
  <2>3. Len(Route(q).work) \in Nat
    BY <1>2 DEF WellFormed, Sequenced
  <2>4. Underway(p) /\ Admitted(p)
    BY <2>1, <2>2, <2>3, <1>1, <1>2, <1>5
       DEF Underway, Admitted, AskInv, NotOperator, WellFormed, Guarded
  <2>5. \A S : ~Follows(Route(p), p.step, S)
    BY <2>1 DEF Follows
  <2>6. Recorded(p)
    BY <2>1, <2>5 DEF Recorded
  <2>7. Route(p).permission \notin p.denied
    <3> SUFFICES ASSUME Route(q).permission \in q.denied PROVE PermissionDenied(q)
      BY <2>1, <2>2, <1>5
    <3>1. q.denied \subseteq Flags /\ q.denied \subseteq DeniedTo(q.by.user)
      BY <1>1 DEF DenialInv, Asks
    <3> QED
      BY <3>1 DEF PermissionDenied, DeniedTo, Flags
  <2>8. AskInv(p) /\ DenialInv(p) /\ CheckedInv(p)
    BY <2>1, <2>4, <2>5, <2>6, <2>7 DEF AskInv, DenialInv, CheckedInv
  <2> QED
    BY <2>8, <1>5, OneRequestMoves DEF p
<1> QED
  BY <1>3, <1>4, <1>5 DEF Admit, Moves

\* The statement a request stands at.
LEMMA AtStatement ==
  ASSUME ApiInv, NEW r \in Requests, req[r].pc = "work", Doing(req[r]) # "done"
  PROVE  LET q == req[r] IN
         /\ q.route \in Endpoints /\ WellFormed(Route(q))
         /\ q.step \in 1 .. Len(Route(q).work) /\ Len(Route(q).work) \in Nat
         /\ Doing(q) = Route(q).work[q.step] /\ Placed(Route(q), q.step)
<1> DEFINE q == req[r]
<1>1. q \in Asks /\ q.step \in 1 .. Len(Route(q).work) + 1
  BY DEF ApiInv, AskInv, Underway
<1>2. q.route \in Endpoints /\ WellFormed(Route(q))
  BY <1>1, RoutesFound DEF Asks, Route
<1>3. q.step \in DOMAIN Route(q).work /\ Doing(q) = Route(q).work[q.step]
  BY DEF Doing
<1> QED
  BY <1>1, <1>2, <1>3 DEF WellFormed, Sequenced

LEMMA RefuseInv ==
  ASSUME ApiInv, NEW r \in Requests, Refuse(r)
  PROVE  ApiInv'
<1> DEFINE q == req[r]
<1>1. /\ q \in Asks /\ q.pc = "work" /\ q.route = q.asked /\ (q.audited => q.changed)
  BY DEF ApiInv, AskInv, Underway, Recorded, Refuse
<1>2. PICK s \in Refusals(q) \cup Possible(q) : Moves(r, Answered(q, s))
  BY DEF Refuse, Moves
<1>3. s \in Raises(Doing(q))
  BY <1>2 DEF Refusals, Possible, Raises
<1>4. s \in Statuses /\ s # 200 /\ Doing(q) # "done"
  BY <1>3 DEF Raises, Statuses
<1>5. Declared(Route(q), s)
  BY <1>1, <1>3, <1>4, AtStatement DEF Placed
<1> QED
  BY <1>1, <1>2, <1>4, <1>5, OneRequestAnswered

\* Whoever answers has all its statements behind it.
LEMMA AnswerInv ==
  ASSUME ApiInv, NEW r \in Requests, Answer(r)
  PROVE  ApiInv'
<1> DEFINE q == req[r]
<1>1. /\ q \in Asks /\ q.pc = "work" /\ q.route = q.asked /\ (q.audited => q.changed)
      /\ q.step \in 1 .. Len(Route(q).work) + 1 /\ Recorded(q)
      /\ Moves(r, Answered(q, Success(Route(q)))) /\ Doing(q) = "done"
  BY DEF ApiInv, AskInv, Underway, Recorded, Answer, Moves
<1>2. q.route \in Endpoints /\ WellFormed(Route(q))
  BY <1>1, RoutesFound DEF Asks, Route
<1>3. Success(Route(q)) = Route(q).described /\ Success(Route(q)) \in Statuses
  BY <1>2 DEF WellFormed, Answerable, Statuses
<1>4. q.step = Len(Route(q).work) + 1 /\ Len(Route(q).work) \in Nat
  <2>1. ASSUME q.step \in 1 .. Len(Route(q).work) PROVE FALSE
    <3>1. "done" \in Words
      BY <2>1, <1>1, <1>2 DEF WellFormed, Sequenced, Placed, Doing
    <3> QED
      BY <3>1 DEF Words, Marks
  <2> QED
    BY <2>1, <1>1, <1>2 DEF WellFormed, Sequenced
<1>5. Route(q).operator /\ Route(q).verb = "POST" => q.audited
  <2> SUFFICES ASSUME Route(q).operator, Route(q).verb = "POST" PROVE q.audited
    OBVIOUS
  <2>1. PICK k \in 1 .. Len(Route(q).work) : Route(q).work[k] = "audit"
    BY <1>2 DEF WellFormed, Sequenced
  <2>2. Follows(Route(q), q.step, {"audit"})
    BY <2>1, <1>4 DEF Follows
  <2> QED
    BY <2>2, <1>1 DEF Recorded
<1> QED
  BY <1>1, <1>3, <1>5, OneRequestAnswered

-----------------------------------------------------------------------------
(* The statements. *)

LEMMA FollowsNext ==
  ASSUME NEW route, NEW k \in Nat, NEW S, Follows(route, k + 1, S), k > 0
  PROVE  Follows(route, k, S) \/ route.work[k] \in S
<1>1. PICK j \in 1 .. k : route.work[j] \in S
  BY DEF Follows
<1>2. j = k \/ j \in 1 .. k - 1
  OBVIOUS
<1> QED
  BY <1>1, <1>2 DEF Follows

\* A row that exists keeps existing, and its owner and its party.
Kept == row.state # "none" =>
  row'.state # "none" /\ row'.owner = row.owner /\ row'.party = row.party

LEMMA EffectInv ==
  ASSUME ApiInv, NEW r \in Requests, Work(r)
  PROVE  RowInv' /\ Kept
<1> DEFINE q == req[r]
<1> DEFINE w == Doing(q)
<1>1. /\ q \in Asks /\ AskInv(q) /\ CheckedInv(q) /\ q.pc = "work"
      /\ row \in Rows /\ GuardedWrites /\ UnwrittenInv /\ AccountInv /\ table' = table
      /\ q.by \in [user : Users \cup {None}, secret : BOOLEAN]
  <2>1. AskInv(q) /\ CheckedInv(q) /\ RowInv
    BY DEF ApiInv
  <2>2. q.pc = "work" /\ table' = table
    BY DEF Work
  <2>3. q \in Asks
    BY <2>1 DEF AskInv
  <2>4. q.by \in [user : Users \cup {None}, secret : BOOLEAN]
    BY <2>3 DEF Asks
  <2> QED
    BY <2>1, <2>2, <2>3, <2>4 DEF RowInv
<1>2. /\ WellFormed(Route(q)) /\ w = Route(q).work[q.step] /\ Placed(Route(q), q.step)
      /\ w \in Words
  BY <1>1, AtStatement DEF Work, Placed
<1>3. CASE ~About(Route(q))
  <2>1. row' = row
    BY <1>3 DEF Work, About
  <2> QED
    BY <2>1, <1>1 DEF RowInv, GuardedWrites, UnwrittenInv, AccountInv, Kept
<1>4. CASE About(Route(q))
  <2>1. row' = Effect(r, w, q) /\ Refusals(q) = {} /\ ~Waits(w)
    BY <1>4 DEF Work, About
  <2>2. Route(q).table = table
    BY <1>4 DEF About
  <2>3. Follows(Route(q), q.step, {"owned"}) => row.state # "none" /\ q.by.user = row.owner
    BY <1>1, <1>4 DEF CheckedInv
  <2>4. Follows(Route(q), q.step, {"party"}) =>
          row.state # "none" /\ q.by.user \in {row.owner, row.party}
    BY <1>1, <1>4 DEF CheckedInv
  <2>5. CASE w = "stock"
    <3>1. row.state # "none" /\ q.by.user = row.owner
      BY <2>1, <2>2, <2>5 DEF Refusals
    <3>2. row' = [row EXCEPT !.writer = q.by] /\ table = "listing"
      BY <2>1, <2>2, <2>5, <1>2 DEF Effect, Marks, Placed
    <3> QED
      BY <3>1, <3>2, <1>1
         DEF RowInv, Rows, Callers, GuardedWrites, UnwrittenInv, AccountInv, Kept
  <2>6. CASE w = "write"
    <3>1. row.state # "none" /\ q.by.user = row.owner
      BY <2>3, <2>6, <1>2 DEF Placed
    <3>2. row' = [row EXCEPT !.writer = q.by] /\ table = "listing"
      BY <2>1, <2>2, <2>6, <1>2 DEF Effect, Marks, Placed
    <3> QED
      BY <3>1, <3>2, <1>1
         DEF RowInv, Rows, Callers, GuardedWrites, UnwrittenInv, AccountInv, Kept
  <2>7. CASE w = "delete"
    <3>1. row.state # "none" /\ q.by.user = row.owner
      BY <2>3, <2>7, <1>2 DEF Placed
    <3>2. row' = [row EXCEPT !.state = "deleted", !.writer = q.by] /\ table = "listing"
      BY <2>1, <2>2, <2>7, <1>2 DEF Effect, Marks, Placed
    <3> QED
      BY <3>1, <3>2, <1>1
         DEF RowInv, Rows, Callers, GuardedWrites, UnwrittenInv, AccountInv, Kept
  <2>8. CASE w \in {"confirm", "transition"}
    <3>1. row.state # "none" /\ q.by.user \in {row.owner, row.party}
      BY <2>3, <2>4, <2>8, <1>2 DEF Placed
    <3>2. row' = [row EXCEPT !.writer = q.by] /\ table = "order"
      BY <2>1, <2>2, <2>8, <1>2 DEF Effect, Marks, Placed
    <3> QED
      BY <3>1, <3>2, <1>1
         DEF RowInv, Rows, Callers, GuardedWrites, UnwrittenInv, AccountInv, Kept
  <2>9. CASE w \in {"post", "insert"} /\ row.state = "none"
    <3>1. row' = [row EXCEPT !.state = "live", !.owner = q.by.user, !.writer = q.by]
      BY <2>1, <2>9 DEF Effect, Marks
    <3>2. table \in {"listing", "story", "highlight"} /\ q.by.user \in Users
      BY <2>2, <2>9, <1>1, <1>2 DEF Placed, AskInv, Admitted
    <3> QED
      BY <3>1, <3>2, <2>9, <1>1
         DEF RowInv, Rows, Callers, GuardedWrites, UnwrittenInv, AccountInv, Kept
  <2>10. CASE w = "decide"
    <3>1. row' = [row EXCEPT !.status = "decided", !.decider = q.by]
      BY <2>1, <2>10 DEF Effect, Marks
    <3>2. table = "case" /\ q.by.secret /\ q.by.user # None
      BY <2>2, <2>10, <1>1, <1>2 DEF Placed, AskInv, Admitted, WellFormed, Guarded
    <3> QED
      BY <3>1, <3>2, <1>1
         DEF RowInv, Rows, Callers, GuardedWrites, UnwrittenInv, AccountInv, Kept
  <2>11. CASE w \in Marks
    <3>1. row' = [row EXCEPT !.status = w, !.was = row.status, !.lock = r]
      BY <2>1, <2>11 DEF Effect, Marks
    <3>2. table = "user" /\ row.lock = None /\ r # None
      BY <2>1, <2>2, <2>11, <1>2, ApiAssumption DEF Placed, Waits
    <3>3. row.status \in {"active"} \cup Marks /\ row.status = row.last
      BY <3>2, <1>1 DEF AccountInv
    <3> HIDE DEF w
    <3> QED
      BY <3>1, <3>2, <3>3, <2>11, <1>1
         DEF RowInv, Rows, Callers, GuardedWrites, UnwrittenInv, AccountInv, Kept
  <2>12. CASE w = "history"
    <3>1. row' = [row EXCEPT !.last = row.status, !.was = "active", !.lock = None, !.decider = q.by]
      BY <2>1, <2>12 DEF Effect, Marks
    <3>2. table = "user" /\ q.by.secret /\ q.by.user # None
      BY <2>2, <2>12, <1>1, <1>2 DEF Placed, AskInv, Admitted, WellFormed, Guarded
    <3>3. row.status \in {"active"} \cup Marks
      BY <3>2, <1>1 DEF AccountInv
    <3> QED
      BY <3>1, <3>2, <3>3, <1>1
         DEF RowInv, Rows, Callers, GuardedWrites, UnwrittenInv, AccountInv, Kept
  <2>13. CASE w = "member"
    <3>1. row.state # "none" /\ q.by.user = row.owner
      BY <2>3, <2>13, <1>2 DEF Placed
    <3>2. row' = [row EXCEPT !.writer = q.by] /\ table = "highlight"
      BY <2>1, <2>2, <2>13, <1>2 DEF Effect, Marks, Placed
    <3> QED
      BY <3>1, <3>2, <1>1
         DEF RowInv, Rows, Callers, GuardedWrites, UnwrittenInv, AccountInv, Kept
  <2>14. CASE w = "profile" /\ q.by.user = row.owner
    <3>1. row' = [row EXCEPT !.writer = q.by] /\ table = "user"
      BY <2>1, <2>2, <2>14, <1>2 DEF Effect, Marks, Placed
    <3> QED
      BY <3>1, <2>14, <1>1
         DEF RowInv, Rows, Callers, GuardedWrites, UnwrittenInv, AccountInv, Kept
  <2>15. CASE /\ w \notin {"stock", "write", "delete", "confirm", "transition", "member"}
              /\ w \notin Marks \cup {"decide", "history"}
              /\ ~(w \in {"post", "insert"} /\ row.state = "none")
              /\ ~(w = "profile" /\ q.by.user = row.owner)
    <3>1. row' = row
      BY <2>1, <2>15 DEF Effect
    <3> QED
      BY <3>1, <1>1 DEF RowInv, GuardedWrites, UnwrittenInv, AccountInv, Kept
  <2> QED
    BY <2>5, <2>6, <2>7, <2>8, <2>9, <2>10, <2>11, <2>12, <2>13, <2>14, <2>15
<1> QED
  BY <1>3, <1>4

\* The request that has run a statement, with what that statement has checked and done.
LEMMA StatementInv ==
  ASSUME ApiInv, NEW r \in Requests, Work(r)
  PROVE  /\ AskInv(req'[r]) /\ DenialInv(req[r])' /\ CheckedInv(req[r])'
         /\ \A p \in Requests : p # r => req'[p] = req[p]
<1> DEFINE q == req[r]
<1> DEFINE w == Doing(q)
<1> DEFINE p == req'[r]
<1> DEFINE changed == q.changed \/ w \in {"decide", "history"}
<1> DEFINE audited == q.audited \/ w = "audit"
<1>1. /\ q \in Asks /\ AskInv(q) /\ DenialInv(q) /\ CheckedInv(q) /\ q.pc = "work"
      /\ q.route = q.asked /\ req \in [Requests -> Asks]
  BY DEF ApiInv, StateTypes, AskInv, Underway, Work
<1>2. /\ WellFormed(Route(q)) /\ w = Route(q).work[q.step] /\ Placed(Route(q), q.step)
      /\ q.step \in 1 .. Len(Route(q).work) /\ Len(Route(q).work) \in Nat
  BY <1>1, AtStatement DEF Work
<1>3. /\ p \in Asks /\ p.pc = "work" /\ p.step = q.step + 1 /\ p.route = q.route
      /\ p.asked = q.asked /\ p.by = q.by /\ p.denied = q.denied
      /\ p.changed = changed /\ p.audited = audited
      /\ \A o \in Requests : o # r => req'[o] = req[o]
  <2>1. changed \in BOOLEAN /\ audited \in BOOLEAN
    OBVIOUS
  <2>2. req' = [req EXCEPT ![r].step = @ + 1, ![r].changed = changed, ![r].audited = audited]
    BY DEF Work
  <2> HIDE DEF changed, audited, p
  <2>3. p = [q EXCEPT !.step = @ + 1, !.changed = changed, !.audited = audited]
    BY <2>2, <1>1 DEF p
  <2>4. q.step + 1 \in Nat
    BY <1>2
  <2>5. p \in Asks
    BY <2>1, <2>3, <2>4, <1>1 DEF Asks
  <2> QED
    BY <2>2, <2>3, <2>5, <1>1 DEF Asks
<1>4. Route(p) = Route(q) /\ q.step \in Nat /\ q.step > 0
  BY <1>2, <1>3 DEF Route
<1> HIDE DEF p
<1>5. \A S : Follows(Route(p), p.step, S) => Follows(Route(q), q.step, S) \/ w \in S
  BY <1>2, <1>3, <1>4, FollowsNext
<1>6. w = "audit" => q.changed
  <2>1. w = "audit" => Follows(Route(q), q.step, {"decide", "history"})
    BY <1>2 DEF Placed
  <2> QED
    BY <2>1, <1>1 DEF AskInv, Recorded
<1>7. Recorded(p)
  <2>1. (q.audited => q.changed) /\ (Follows(Route(q), q.step, {"decide", "history"}) => q.changed)
        /\ (Follows(Route(q), q.step, {"audit"}) => q.audited)
    BY <1>1 DEF AskInv, Recorded
  <2> QED
    BY <2>1, <1>3, <1>5, <1>6 DEF Recorded
<1>8. AskInv(p)
  BY <1>1, <1>2, <1>3, <1>4, <1>7 DEF AskInv, Underway, Admitted
<1>9. p.pc = "work" /\ Route(p).permission \notin p.denied
  BY <1>1, <1>3, <1>4 DEF DenialInv
<1>10. CheckedInv(req[r])'
  <2> SUFFICES ASSUME About(Route(q))
               PROVE  /\ Follows(Route(p), p.step, {"owned"}) =>
                           row'.state # "none" /\ p.by.user = row'.owner
                      /\ Follows(Route(p), p.step, {"party"}) =>
                           row'.state # "none" /\ p.by.user \in {row'.owner, row'.party}
    BY <1>4 DEF CheckedInv, About, p, Work
  <2>1. Kept
    BY EffectInv
  <2>2. w = "owned" => row.state # "none" /\ q.by.user = row.owner
    BY DEF Work, Refusals, About, Rows, ApiInv, RowInv
  <2>3. w = "party" => row.state # "none" /\ q.by.user \in {row.owner, row.party}
    BY DEF Work, Refusals, About, Rows, ApiInv, RowInv
  <2>4. Follows(Route(p), p.step, {"owned"}) => row.state # "none" /\ q.by.user = row.owner
    BY <2>2, <1>1, <1>5 DEF CheckedInv
  <2>5. Follows(Route(p), p.step, {"party"}) =>
          row.state # "none" /\ q.by.user \in {row.owner, row.party}
    BY <2>3, <1>1, <1>5 DEF CheckedInv
  <2> QED
    BY <2>1, <2>4, <2>5, <1>3 DEF Kept
<1> QED
  BY <1>3, <1>8, <1>9, <1>10 DEF p, DenialInv

LEMMA WorkInv ==
  ASSUME ApiInv, NEW r \in Requests, Work(r)
  PROVE  ApiInv'
<1>1. RowInv' /\ Kept
  BY EffectInv
<1>2. /\ AskInv(req'[r]) /\ DenialInv(req[r])' /\ CheckedInv(req[r])'
      /\ \A p \in Requests : p # r => req'[p] = req[p]
  BY StatementInv
<1>3. jar' \in [access : BOOLEAN, refresh : BOOLEAN] /\ session' \in {"none", "live", "dead"}
  BY DEF Work, Cookies, Credential, ApiInv, StateTypes
<1>4. StateTypes'
  <2>1. req' \in [Requests -> Asks]
    <3>1. \A p \in Requests : req'[p] \in Asks
      BY <1>2 DEF ApiInv, AskInv
    <3>2. req' = [p \in Requests |-> req'[p]]
      BY DEF Work, ApiInv, StateTypes
    <3> QED
      BY <3>1, <3>2
  <2> QED
    BY <2>1, <1>3 DEF StateTypes, ApiInv, Work
<1>5. ASSUME NEW p \in Requests, p # r
      PROVE  AskInv(req'[p]) /\ DenialInv(req[p])' /\ CheckedInv(req[p])'
  <2>1. req'[p] = req[p] /\ denied' = denied /\ table' = table
    BY <1>2, <1>5 DEF Work
  <2>2. AskInv(req[p]) /\ DenialInv(req[p]) /\ CheckedInv(req[p])
    BY DEF ApiInv
  <2>3. CheckedInv(req[p])'
    BY <2>1, <2>2, <1>1 DEF CheckedInv, About, Kept
  <2> QED
    BY <2>1, <2>2, <2>3 DEF DenialInv, DeniedTo, Route
<1> QED
  BY <1>1, <1>2, <1>4, <1>5 DEF ApiInv

-----------------------------------------------------------------------------
(* The environment. *)

LEMMA EndInv ==
  ASSUME ApiInv, NEW r \in Requests, End(r)
  PROVE  ApiInv'
<1>1. /\ \A p \in Requests : req'[p] = IF p = r THEN Idle ELSE req[p]
      /\ req' \in [Requests -> Asks] /\ r # None
  BY IdleInv, ApiAssumption DEF End, ApiInv, StateTypes, AskInv
<1>2. StateTypes'
  BY <1>1 DEF StateTypes, ApiInv, End
<1>3. RowInv' /\ Kept
  <2>1. CASE row.lock = r
    <3>1. row' = [row EXCEPT !.status = row.was, !.was = "active", !.lock = None]
      BY <2>1 DEF End
    <3> QED
      BY <2>1, <3>1, <1>1
         DEF End, ApiInv, RowInv, Rows, Callers, GuardedWrites, UnwrittenInv, AccountInv, Kept
  <2>2. CASE row.lock # r
    <3>1. row' = row
      BY <2>2 DEF End
    <3> QED
      BY <3>1 DEF End, ApiInv, RowInv, GuardedWrites, UnwrittenInv, AccountInv, Kept
  <2> QED
    BY <2>1, <2>2
<1>4. ASSUME NEW p \in Requests
      PROVE  AskInv(req'[p]) /\ DenialInv(req[p])' /\ CheckedInv(req[p])'
  <2>1. CASE p = r
    <3>1. req'[p] = Idle
      BY <2>1, <1>1
    <3> QED
      BY <3>1, IdleInv DEF DenialInv, CheckedInv
  <2>2. CASE p # r
    <3>1. req'[p] = req[p] /\ denied' = denied /\ table' = table
      BY <2>2, <1>1 DEF End
    <3>2. AskInv(req[p]) /\ DenialInv(req[p]) /\ CheckedInv(req[p])
      BY DEF ApiInv
    <3>3. CheckedInv(req[p])'
      BY <3>1, <3>2, <1>3 DEF CheckedInv, About, Kept
    <3> QED
      BY <3>1, <3>2, <3>3 DEF DenialInv, DeniedTo, Route
  <2> QED
    BY <2>1, <2>2
<1> QED
  BY <1>2, <1>3, <1>4 DEF ApiInv

LEMMA DenyInv ==
  ASSUME ApiInv, NEW u \in Users, NEW flag \in Flags, Deny(u, flag)
  PROVE  ApiInv'
<1>1. /\ UNCHANGED <<table, row, jar, session, req>>
      /\ denied' \in [Users -> SUBSET Flags] /\ \A v \in Users : denied[v] \subseteq denied'[v]
  BY DEF Deny, ApiInv, StateTypes
<1>2. StateTypes' /\ RowInv'
  BY <1>1 DEF ApiInv, StateTypes, RowInv, GuardedWrites, UnwrittenInv, AccountInv
<1>3. ASSUME NEW p \in Requests
      PROVE  AskInv(req'[p]) /\ DenialInv(req[p])' /\ CheckedInv(req[p])'
  <2>1. AskInv(req[p]) /\ DenialInv(req[p]) /\ CheckedInv(req[p]) /\ req'[p] = req[p]
    BY <1>1 DEF ApiInv
  <2>2. req[p].by.user \in Users \cup {None}
    BY <2>1 DEF AskInv, Asks
  <2>3. DeniedTo(req[p].by.user) \subseteq DeniedTo(req[p].by.user)'
    BY <1>1, <2>1, <2>2 DEF DeniedTo
  <2>4. DenialInv(req[p])'
    BY <2>1, <2>3, <1>1 DEF DenialInv, Route
  <2> QED
    BY <2>1, <2>4, <1>1 DEF CheckedInv, About
<1> QED
  BY <1>2, <1>3 DEF ApiInv

LEMMA AllowInv ==
  ASSUME ApiInv, NEW u \in Users, NEW flag \in Flags, Allow(u, flag)
  PROVE  ApiInv'
<1>1. /\ UNCHANGED <<table, row, jar, session>>
      /\ denied \in [Users -> SUBSET Flags] /\ denied' = [denied EXCEPT ![u] = @ \ {flag}]
      /\ \A p \in Requests :
           req'[p] = IF req[p].by.user = u THEN [req[p] EXCEPT !.denied = @ \ {flag}] ELSE req[p]
  BY DEF Allow, ApiInv, StateTypes
<1>2. ASSUME NEW p \in Requests
      PROVE  AskInv(req'[p]) /\ DenialInv(req[p])' /\ CheckedInv(req[p])'
  <2> DEFINE q == req[p]
  <2> DEFINE n == req'[p]
  <2>1. AskInv(q) /\ DenialInv(q) /\ CheckedInv(q) /\ q \in Asks /\ u # None
    BY ApiAssumption DEF ApiInv, AskInv
  <2>2. CASE q.by.user = u
    <3>1. n = [q EXCEPT !.denied = q.denied \ {flag}]
      BY <2>2, <1>1
    <3>2. q.denied \ {flag} \in SUBSET Flags
      BY <2>1 DEF Asks
    <3> HIDE DEF n
    <3>3. /\ n \in Asks /\ n.denied = q.denied \ {flag} /\ n.pc = q.pc /\ n.asked = q.asked
          /\ n.route = q.route /\ n.by = q.by /\ n.step = q.step /\ n.status = q.status
          /\ n.fault = q.fault /\ n.stale = q.stale /\ n.changed = q.changed
          /\ n.audited = q.audited
      BY <3>1, <3>2, <2>1 DEF Asks
    <3>4. Route(n) = Route(q)
      BY <3>3 DEF Route
    <3>5. AskInv(n)
      BY <3>3, <3>4, <2>1 DEF AskInv, Underway, Admitted, Recorded, Documented
    <3>6. DenialInv(req[p])'
      <4>1. DeniedTo(q.by.user) = denied[u] /\ denied'[u] = denied[u] \ {flag}
        BY <2>1, <2>2, <1>1 DEF DeniedTo
      <4>2. DeniedTo(req[p].by.user)' = denied'[u]
        BY <3>3, <2>1, <2>2 DEF DeniedTo, n
      <4>3. n.pc = "admit" => n.denied \subseteq denied'[u]
        BY <4>1, <3>3, <2>1 DEF DenialInv
      <4>4. n.pc = "work" => Route(n).permission \notin n.denied
        BY <3>3, <3>4, <2>1 DEF DenialInv
      <4> QED
        BY <4>2, <4>3, <4>4 DEF DenialInv, Route, n
    <3>7. CheckedInv(req[p])'
      BY <3>3, <3>4, <2>1, <1>1 DEF CheckedInv, About, n
    <3> QED
      BY <3>5, <3>6, <3>7 DEF n
  <2>3. CASE q.by.user # u
    <3>1. n = q
      BY <2>3, <1>1
    <3>2. DeniedTo(q.by.user)' = DeniedTo(q.by.user)
      BY <3>1, <2>1, <2>3, <1>1 DEF DeniedTo, Asks
    <3>3. DenialInv(req[p])'
      BY <3>1, <3>2, <2>1 DEF DenialInv, Route
    <3> QED
      BY <3>1, <3>3, <2>1, <1>1 DEF CheckedInv, About
  <2> QED
    BY <2>2, <2>3
<1>3. StateTypes'
  <2>1. req' \in [Requests -> Asks]
    <3>1. \A p \in Requests : req'[p] \in Asks
      BY <1>2 DEF AskInv
    <3>2. req' = [p \in Requests |-> req'[p]]
      BY DEF Allow
    <3> QED
      BY <3>1, <3>2
  <2>2. denied' \in [Users -> SUBSET Flags]
    BY <1>1
  <2> QED
    BY <2>1, <2>2, <1>1 DEF ApiInv, StateTypes
<1>4. RowInv'
  BY <1>1 DEF ApiInv, RowInv, GuardedWrites, UnwrittenInv, AccountInv
<1> QED
  BY <1>2, <1>3, <1>4 DEF ApiInv

LEMMA CookieInv ==
  ASSUME ApiInv, UNCHANGED <<table, row, denied, session, req>>,
         jar' \in [access : BOOLEAN, refresh : BOOLEAN]
  PROVE  ApiInv'
<1>1. StateTypes' /\ RowInv'
  BY DEF ApiInv, StateTypes, RowInv, GuardedWrites, UnwrittenInv, AccountInv
<1>2. ASSUME NEW p \in Requests
      PROVE  AskInv(req'[p]) /\ DenialInv(req[p])' /\ CheckedInv(req[p])'
  BY DEF ApiInv, DenialInv, CheckedInv, DeniedTo, About, Route
<1> QED
  BY <1>1, <1>2 DEF ApiInv

LEMMA InitInv ==
  ASSUME Init
  PROVE  ApiInv
<1>1. StateTypes
  BY IdleInv DEF Init, StateTypes, AskInv
<1>2. RowInv
  <2>1. PICK state \in {"none", "live"}, owner \in Users, party \in Users :
          row = [state |-> state, owner |-> owner, party |-> party, writer |-> Nobody,
                 decider |-> Nobody, lock |-> None, was |-> "active", last |-> "active",
                 status |-> IF table = "case" THEN "open" ELSE "active"]
    BY DEF Init
  <2>2. row \in Rows
    BY <2>1 DEF Rows, Callers, Nobody
  <2> QED
    BY <2>1, <2>2 DEF RowInv, GuardedWrites, UnwrittenInv, AccountInv
<1>3. \A r \in Requests : req[r] = Idle
  BY DEF Init
<1>4. \A r \in Requests : AskInv(req[r]) /\ DenialInv(req[r]) /\ CheckedInv(req[r])
  BY <1>3, IdleInv DEF DenialInv, CheckedInv
<1> QED
  BY <1>1, <1>2, <1>4 DEF ApiInv

\* Whatever any request, the operator of the database or the browser does, the invariant is kept.
LEMMA StepInv ==
  ASSUME ApiInv, [Next]_vars
  PROVE  ApiInv'
<1>1. ASSUME NEW r \in Requests, Throttle(r) PROVE ApiInv'
  BY <1>1, ThrottleInv
<1>2. ASSUME NEW r \in Requests, Admit(r) PROVE ApiInv'
  BY <1>2, AdmitInv
<1>3. ASSUME NEW r \in Requests, Refuse(r) PROVE ApiInv'
  BY <1>3, RefuseInv
<1>4. ASSUME NEW r \in Requests, Work(r) PROVE ApiInv'
  BY <1>4, WorkInv
<1>5. ASSUME NEW r \in Requests, Answer(r) PROVE ApiInv'
  BY <1>5, AnswerInv
<1>6. ASSUME NEW r \in Requests, End(r) PROVE ApiInv'
  BY <1>6, EndInv
<1>7. ASSUME NEW r \in Requests, NEW i \in Endpoints, FromClient(r, i) PROVE ApiInv'
  BY <1>7, FromClientInv
<1>8. ASSUME NEW r \in Requests, NEW i \in Endpoints, FromBrowser(r, i) PROVE ApiInv'
  BY <1>8, FromBrowserInv
<1>9. ASSUME NEW u \in Users, NEW flag \in Flags, Deny(u, flag) PROVE ApiInv'
  BY <1>9, DenyInv
<1>10. ASSUME NEW u \in Users, NEW flag \in Flags, Allow(u, flag) PROVE ApiInv'
  BY <1>10, AllowInv
<1>11. CASE AccessExpires
  BY <1>11, CookieInv DEF AccessExpires, ApiInv, StateTypes
<1>12. CASE BrowserCloses
  BY <1>12, CookieInv DEF BrowserCloses, ApiInv, StateTypes
<1>13. CASE UNCHANGED vars
  BY <1>13, CookieInv DEF vars, ApiInv, StateTypes
<1> QED
  BY <1>1, <1>2, <1>3, <1>4, <1>5, <1>6, <1>7, <1>8, <1>9, <1>10, <1>11, <1>12, <1>13 DEF Next

-----------------------------------------------------------------------------
(* The theorems. *)

\* Requests, row, flags and cookies agree with each other, for any number of requests.
THEOREM ApiInvariant == Spec => []ApiInv
<1>1. Init => ApiInv
  BY InitInv
<1>2. ApiInv /\ [Next]_vars => ApiInv'
  BY StepInv
<1> QED
  BY <1>1, <1>2, PTL DEF Spec

\* Every variable keeps its type: a status is one that guards, pipes or handlers
\* answer with, and a request stands at a statement of its endpoint or behind the last.
THEOREM TypeCorrect == Spec => []TypeOK
<1>1. ApiInv => TypeOK
  <2> SUFFICES ASSUME ApiInv PROVE TypeOK
    OBVIOUS
  <2>1. ASSUME NEW r \in Requests
        PROVE  /\ DOMAIN req[r] = DOMAIN Idle
               /\ req[r].pc \in {"idle", "admit", "work", "answered"}
               /\ req[r].asked \in Endpoints /\ req[r].route \in Endpoints
               /\ req[r].by.user \in Users \cup {None} /\ req[r].denied \subseteq Flags
               /\ req[r].step \in 0 .. Len(Route(req[r]).work) + 1
               /\ req[r].status \in {0, 200, 201, 400, 401, 403, 404, 409, 422, 429}
    <3>1. req[r] \in Asks /\ Underway(req[r])
      BY DEF ApiInv, AskInv
    <3>2. DOMAIN req[r] = DOMAIN Idle
      BY <3>1 DEF Asks, Idle
    <3>3. req[r].route \in Endpoints /\ Len(Route(req[r]).work) \in Nat
      BY <3>1, RoutesFound DEF Asks, Route, WellFormed, Sequenced
    <3>4. req[r].step \in 0 .. Len(Route(req[r]).work) + 1
      BY <3>1, <3>3 DEF Underway, Asks
    <3> QED
      BY <3>1, <3>2, <3>4 DEF Asks, Statuses
  <2>2. /\ table \in Tables /\ row \in Rows /\ denied \in [Users -> SUBSET Flags]
        /\ jar \in [access : BOOLEAN, refresh : BOOLEAN] /\ session \in {"none", "live", "dead"}
    BY DEF ApiInv, StateTypes, RowInv
  <2> QED
    BY <2>1, <2>2 DEF TypeOK
<1> QED
  BY <1>1, ApiInvariant, PTL

\* Express takes every request to the endpoint whose path it was sent to (the registration
\* order of the controllers).
THEOREM RoutesAreFound == Spec => []EveryPathFindsItsRoute
<1>1. ApiInv => EveryPathFindsItsRoute
  BY DEF ApiInv, AskInv, Underway, EveryPathFindsItsRoute
<1> QED
  BY <1>1, ApiInvariant, PTL

\* A handler that uses me.userId! has a user (ScopesGuard).
THEOREM HandlersHaveCallers == Spec => []CallersAreKnown
<1>1. ApiInv => CallersAreKnown
  <2> SUFFICES ASSUME ApiInv, NEW r \in Requests, req[r].pc = "work", Route(req[r]).caller
               PROVE  req[r].by.user # None
    BY DEF CallersAreKnown
  <2>1. req[r] \in Asks /\ Admitted(req[r])
    BY DEF ApiInv, AskInv
  <2>2. Guarded(Route(req[r]))
    BY <2>1, RoutesFound DEF Asks, Route, WellFormed
  <2> QED
    BY <2>1, <2>2 DEF Guarded, Admitted
<1> QED
  BY <1>1, ApiInvariant, PTL

\* A row is written by whom it belongs to (the owner checks of the handlers), and decided
\* on with the operator secret, although check and write are two statements.
THEOREM WritesAreGuarded == Spec => []GuardedWrites
<1>1. ApiInv => GuardedWrites
  BY DEF ApiInv, RowInv
<1> QED
  BY <1>1, ApiInvariant, PTL

\* A row that exists goes on existing and is never given to somebody else (no handler
\* writes authorId or providerId again): what an owner check has read is still true when
\* the row is written by its id.
THEOREM RowsKeepTheirOwners == Spec => [][Kept]_vars
<1>1. ASSUME ApiInv, Next PROVE Kept
  <2>1. ASSUME NEW r \in Requests, Work(r) PROVE Kept
    BY <1>1, <2>1, EffectInv
  <2>2. ASSUME NEW r \in Requests, End(r) PROVE Kept
    BY <1>1, <2>2 DEF End, Kept, ApiInv, RowInv, Rows
  <2>3. UNCHANGED row => Kept
    BY DEF Kept
  <2>4. ASSUME NEW r \in Requests, NEW i \in Endpoints, FromClient(r, i) \/ FromBrowser(r, i)
        PROVE  UNCHANGED row
    <3>1. ASSUME NEW by, NEW stale, NEW browser, NEW carries,
                 Receive(r, i, by, stale, browser, carries)
          PROVE  UNCHANGED row
      BY <3>1 DEF Receive
    <3>2. CASE FromClient(r, i)
      BY <3>1, <3>2, Zenon DEF FromClient
    <3>3. CASE FromBrowser(r, i)
      BY <3>1, <3>3, Zenon DEF FromBrowser
    <3> QED
      BY <2>4, <3>2, <3>3
  <2>5. ASSUME NEW r \in Requests, Throttle(r) \/ Admit(r) \/ Refuse(r) \/ Answer(r)
        PROVE  UNCHANGED row
    BY <2>5 DEF Throttle, Admit, Refuse, Answer
  <2>6. ASSUME NEW u \in Users, NEW flag \in Flags, Deny(u, flag) \/ Allow(u, flag)
        PROVE  UNCHANGED row
    BY <2>6 DEF Deny, Allow
  <2>7. AccessExpires \/ BrowserCloses => UNCHANGED row
    BY DEF AccessExpires, BrowserCloses
  <2> QED
    BY <1>1, <2>1, <2>2, <2>3, <2>4, <2>5, <2>6, <2>7 DEF Next
<1>2. ApiInv /\ [Next]_vars => [Kept]_vars
  BY <1>1
<1> QED
  BY <1>2, ApiInvariant, PTL DEF Spec

\* Where an endpoint asks for a permission, as posting a listing and placing an order do,
\* nobody is served to whom it was denied before the request came and has been since
\* (PermissionsGuard).  Publish, reopen, confirm and the transitions ask for none, and of
\* them the theorem says nothing.
THEOREM PermissionsHold == Spec => []PermissionTakesHold
<1>1. ApiInv => PermissionTakesHold
  BY DEF ApiInv, DenialInv, PermissionTakesHold
<1> QED
  BY <1>1, ApiInvariant, PTL

\* Every answer is in the documentation of its endpoint (the OpenAPI decorators), a
\* malformed id or query and the nine pairs of Undocumented excepted.
THEOREM AnswersAreDocumented == Spec => []AnswersAreDeclared
<1>1. ApiInv => AnswersAreDeclared
  BY DEF ApiInv, AskInv, AnswersAreDeclared
<1> QED
  BY <1>1, ApiInvariant, PTL

\* An operator's success has been audited, and nothing else is (AuditService.log).
THEOREM SuccessesAreAudited == Spec => []DecisionsAreAudited
<1>1. ApiInv => DecisionsAreAudited
  BY DEF ApiInv, AskInv, Recorded, DecisionsAreAudited
<1> QED
  BY <1>1, ApiInvariant, PTL

\* The account's status and its restriction history agree, with any number of operators
\* (the transaction of admin-users.service).
THEOREM StatusIsHistory == Spec => []StatusTellsHistory
<1>1. ApiInv => StatusTellsHistory
  BY DEF ApiInv, RowInv, AccountInv, StatusTellsHistory
<1> QED
  BY <1>1, ApiInvariant, PTL
================================================================================
