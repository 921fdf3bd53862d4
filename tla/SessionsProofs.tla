----------------------------- MODULE SessionsProofs -----------------------------
(***************************************************************************)
(* Proofs about Sessions, for any number of accounts, requests and tokens: *)
(* a rotated credential is consumed, a session that ended stays ended, and *)
(* a ban takes hold.                                                       *)
(***************************************************************************)
EXTENDS Sessions, TLAPS

\* A credential names credentials that were issued before it: the first of its
\* family, and the one it was exchanged for, which is revoked.
Lineage ==
  \A c \in Credentials : Exists(c) =>
    /\ Exists(cred[c].family)
    /\ cred[c].from # None =>
         /\ Exists(cred[c].from) /\ cred[cred[c].from].revoked
         /\ cred[cred[c].from].user = cred[c].user
         /\ cred[cred[c].from].family = cred[c].family

\* A request q acts for the user of the credential it presents, and has revoked that
\* credential before it issues another; C are the rows.
Sound(q, C) ==
  /\ q.pc = "idle" => q = Idle
  /\ q.pc # "idle" => q.user \in Users
  /\ q.pc = "signup" => q.cred = None
  /\ q.pc \in {"check", "rotate", "burn"} => q.cred # None
  /\ q.cred # None => /\ C[q.cred] # Absent /\ C[q.cred].user = q.user
                      /\ q.pc = "issue" => C[q.cred].revoked
Presented == \A r \in Requests : Sound(req[r], cred)

IInv == TypeOK /\ Lineage /\ Presented

-----------------------------------------------------------------------------
\* A row is there exactly if it has a user.
LEMMA ExistsIsRow ==
  ASSUME TypeOK
  PROVE  \A c \in Credentials : /\ Exists(c) <=> cred[c] \in Rows
                                /\ Exists(c) <=> cred[c].user \in Users
  BY NoneAssumption DEF TypeOK, Exists, Rows, Absent

\* Revoking credentials changes nothing but revoked, and that only to TRUE.
LEMMA RevokeOnlyRevokes ==
  ASSUME TypeOK, NEW C, \A c \in C : Exists(c), cred' = Revoke(C)
  PROVE  /\ cred' \in [Credentials -> Rows \cup {Absent}]
         /\ \A c \in Credentials :
              /\ cred'[c].user = cred[c].user /\ cred'[c].family = cred[c].family
              /\ cred'[c].from = cred[c].from /\ cred'[c].expired = cred[c].expired
              /\ cred[c].revoked => cred'[c].revoked
              /\ c \in C => cred'[c].revoked
              /\ Exists(c)' <=> Exists(c)
<1>1. ASSUME NEW c \in Credentials
      PROVE  /\ cred'[c] \in Rows \cup {Absent}
             /\ cred'[c].user = cred[c].user /\ cred'[c].family = cred[c].family
             /\ cred'[c].from = cred[c].from /\ cred'[c].expired = cred[c].expired
             /\ cred[c].revoked => cred'[c].revoked
             /\ c \in C => cred'[c].revoked
             /\ Exists(c)' <=> Exists(c)
  <2>1. cred'[c] = IF c \in C THEN [cred[c] EXCEPT !.revoked = TRUE] ELSE cred[c]
    BY DEF Revoke
  <2>2. CASE cred[c] = Absent
    <3>1. cred'[c] = Absent
      BY <2>1, <2>2 DEF Exists
    <3> QED BY <2>2, <3>1 DEF Exists, Absent
  <2>3. CASE cred[c] \in Rows
    <3>1. cred'[c] \in Rows
      BY <2>1, <2>3 DEF Rows
    <3> QED BY <2>1, <2>3, <3>1, NoneAssumption DEF Rows, Exists, Absent
  <2> QED BY <2>2, <2>3 DEF TypeOK
<1>2. cred' \in [Credentials -> Rows \cup {Absent}]
  BY <1>1 DEF Revoke
<1> QED BY <1>1, <1>2

\* Revocations leave what credentials and requests name as it is.
LEMMA RevokeKeeps ==
  ASSUME IInv, NEW C, \A c \in C : Exists(c), cred' = Revoke(C)
  PROVE  /\ cred' \in [Credentials -> Rows \cup {Absent}]
         /\ Lineage'
         /\ \A r \in Requests : Sound(req[r], cred')
<1>1. TypeOK /\ Lineage /\ Presented
  BY DEF IInv
<1>2. \A c \in Credentials : Exists(c) => /\ cred[c].family \in Credentials
                                          /\ cred[c].from \in Credentials \cup {None}
  BY <1>1, ExistsIsRow DEF Rows
<1>3. \A c \in Credentials :
        /\ cred'[c].user = cred[c].user /\ cred'[c].family = cred[c].family
        /\ cred'[c].from = cred[c].from
        /\ cred[c].revoked => cred'[c].revoked
        /\ Exists(c)' <=> Exists(c)
  BY <1>1, RevokeOnlyRevokes
<1>4. cred' \in [Credentials -> Rows \cup {Absent}]
  BY <1>1, RevokeOnlyRevokes
<1>5. Lineage'
  BY <1>1, <1>2, <1>3 DEF Lineage
<1>6. \A r \in Requests : req[r].cred # None => req[r].cred \in Credentials
  BY <1>1 DEF TypeOK
<1>7. \A r \in Requests : Sound(req[r], cred')
  BY <1>1, <1>3, <1>6 DEF Presented, Sound, Exists
<1> QED BY <1>4, <1>5, <1>7

\* What Issue adds: a row for the user of the request, in a new family or in that of
\* the presented credential, which is revoked by then.
LEMMA IssueAdds ==
  ASSUME IInv, NEW r \in Requests, Issue(r)
  PROVE  \E c \in Credentials :
           /\ ~Exists(c)
           /\ cred' = [cred EXCEPT ![c] = cred'[c]]
           /\ cred'[c] \in Rows
           /\ cred'[c].user = req[r].user /\ cred'[c].from = req[r].cred
           /\ req[r].cred = None => cred'[c].family = c
           /\ req[r].cred # None =>
                /\ req[r].cred \in Credentials /\ req[r].cred # c /\ Exists(req[r].cred)
                /\ cred'[c].family = cred[req[r].cred].family
<1>1. PICK c \in Credentials :
        /\ ~Exists(c)
        /\ cred' = [cred EXCEPT ![c] =
             [user |-> req[r].user, from |-> req[r].cred,
              family |-> IF req[r].cred = None THEN c ELSE cred[req[r].cred].family,
              revoked |-> FALSE, expired |-> FALSE]]
  BY DEF Issue
<1>2. cred'[c] = [user |-> req[r].user, from |-> req[r].cred,
                  family |-> IF req[r].cred = None THEN c ELSE cred[req[r].cred].family,
                  revoked |-> FALSE, expired |-> FALSE]
  BY <1>1 DEF IInv, TypeOK
<1>3. req[r].user \in Users /\ req[r].cred \in Credentials \cup {None}
  BY DEF Issue, IInv, Presented, Sound, TypeOK
<1>4. req[r].cred # None => Exists(req[r].cred)
  BY DEF IInv, Presented, Sound, Exists
<1>5. req[r].cred # None => cred[req[r].cred].family \in Credentials
  BY <1>3, <1>4, ExistsIsRow DEF IInv, Rows
<1>6. cred'[c] \in Rows
  BY <1>2, <1>3, <1>5 DEF Rows
<1>7. cred' = [cred EXCEPT ![c] = cred'[c]]
  BY <1>1, <1>2
<1>8. /\ cred'[c].user = req[r].user /\ cred'[c].from = req[r].cred
      /\ req[r].cred = None => cred'[c].family = c
      /\ req[r].cred # None => cred'[c].family = cred[req[r].cred].family
  BY <1>2
<1>9. req[r].cred # None => req[r].cred \in Credentials /\ req[r].cred # c
  BY <1>1, <1>3, <1>4
<1> QED BY <1>1, <1>4, <1>6, <1>7, <1>8, <1>9

-----------------------------------------------------------------------------
\* The invariant is inductive; one step per action.
LEMMA IInvInit == Init => IInv
<1> SUFFICES ASSUME Init PROVE IInv
  OBVIOUS
<1>1. TypeOK
  BY DEF Init, TypeOK, Statuses, Idle
<1>2. Lineage
  BY DEF Init, Lineage, Exists
<1>3. Presented
  BY NoneAssumption DEF Init, Presented, Sound, Idle
<1> QED BY <1>1, <1>2, <1>3 DEF IInv

\* Where a request goes on, it keeps its user and its credential.
LEMMA GotoKeeps ==
  ASSUME TypeOK, NEW r \in Requests, NEW pc, Goto(r, pc)
  PROVE  req' = [req EXCEPT ![r] = [pc |-> pc, user |-> req[r].user, cred |-> req[r].cred]]
<1>1. req[r] \in [pc : {"idle", "signup", "issue", "check", "burn", "rotate"},
                  user : Users \cup {None}, cred : Credentials \cup {None}]
  BY DEF TypeOK
<1>2. [req[r] EXCEPT !.pc = pc] = [pc |-> pc, user |-> req[r].user, cred |-> req[r].cred]
  BY <1>1
<1>3. req' = [req EXCEPT ![r] = [req[r] EXCEPT !.pc = pc]]
  BY DEF Goto, TypeOK
<1> QED BY <1>2, <1>3

\* A step that writes one request, soundly for the rows it leaves, keeps all sound.
LEMMA SoundStep ==
  ASSUME TypeOK, NEW r \in Requests, NEW q, req' = [req EXCEPT ![r] = q],
         Sound(q, cred'), \A s \in Requests : Sound(req[s], cred')
  PROVE  Presented'
<1>1. \A s \in Requests : req'[s] = IF s = r THEN q ELSE req[s]
  BY DEF TypeOK
<1>2. ASSUME NEW s \in Requests PROVE Sound(req'[s], cred')
  BY <1>1
<1> QED BY <1>2 DEF Presented, Sound, Idle, Absent

\* A step of requests and accounts alone.
LEMMA IInvOtherwise ==
  ASSUME IInv, NEW r \in Requests,
         \/ \E u \in Users : SignupCheck(r, u) \/ Login(r, u)
         \/ \E c \in Credentials : Present(r, c)
         \/ CreateUser(r) \/ CheckAccount(r) \/ Fail(r)
  PROVE  IInv'
<1>0. TypeOK /\ Lineage /\ Presented
  BY DEF IInv
<1>1. cred' = cred
  BY DEF SignupCheck, Login, Present, CreateUser, CheckAccount, Fail
<1>2. /\ account' \in [Users -> Statuses]
      /\ burned' = burned
  BY <1>0 DEF SignupCheck, Login, Present, CreateUser, CheckAccount, Fail, Done, Goto,
              TypeOK, Statuses
<1> DEFINE Requested == [pc : {"idle", "signup", "issue", "check", "burn", "rotate"},
                         user : Users \cup {None}, cred : Credentials \cup {None}]
<1>3. \E q \in Requested : req' = [req EXCEPT ![r] = q] /\ Sound(q, cred)
  <2>1. CASE \E u \in Users : SignupCheck(r, u) \/ Login(r, u)
    <3>1. PICK u \in Users, pc \in {"signup", "issue"} :
            req' = [req EXCEPT ![r] = [pc |-> pc, user |-> u, cred |-> None]]
      BY <2>1 DEF SignupCheck, Login
    <3>2. Sound([pc |-> pc, user |-> u, cred |-> None], cred)
      BY <3>1 DEF Sound
    <3> QED BY <3>1, <3>2
  <2>2. CASE \E c \in Credentials : Present(r, c)
    <3>1. PICK c \in Credentials, pc \in {"burn", "check"} :
            /\ Exists(c)
            /\ req' = [req EXCEPT ![r] = [pc |-> pc, user |-> cred[c].user, cred |-> c]]
      BY <2>2 DEF Present
    <3>2. cred[c].user \in Users
      BY <1>0, <3>1, ExistsIsRow
    <3>3. Sound([pc |-> pc, user |-> cred[c].user, cred |-> c], cred)
      BY <3>1, <3>2, NoneAssumption DEF Sound, Exists
    <3> QED BY <3>1, <3>2, <3>3
  <2>3. CASE req' = [req EXCEPT ![r] = Idle]
    <3>1. Sound(Idle, cred) /\ Idle \in Requested
      BY DEF Sound, Idle
    <3> QED BY <2>3, <3>1
  <2>4. CASE CreateUser(r) /\ Goto(r, "issue")
    <3>1. req' = [req EXCEPT ![r] = [pc |-> "issue", user |-> req[r].user,
                                     cred |-> req[r].cred]]
      BY <1>0, <2>4, GotoKeeps
    <3>2. req[r].cred = None /\ req[r].user \in Users
      BY <1>0, <2>4 DEF CreateUser, Presented, Sound
    <3>3. Sound([pc |-> "issue", user |-> req[r].user, cred |-> req[r].cred], cred)
      BY <3>2 DEF Sound
    <3> QED BY <3>1, <3>2, <3>3
  <2>5. CASE CheckAccount(r) /\ Goto(r, "rotate")
    <3>1. req' = [req EXCEPT ![r] = [pc |-> "rotate", user |-> req[r].user,
                                     cred |-> req[r].cred]]
      BY <1>0, <2>5, GotoKeeps
    <3>2. /\ req[r].user \in Users /\ req[r].cred \in Credentials /\ req[r].cred # None
          /\ cred[req[r].cred] # Absent /\ cred[req[r].cred].user = req[r].user
      BY <1>0, <2>5 DEF CheckAccount, Presented, Sound, TypeOK
    <3>3. Sound([pc |-> "rotate", user |-> req[r].user, cred |-> req[r].cred], cred)
      BY <3>2 DEF Sound
    <3> QED BY <3>1, <3>2, <3>3
  <2> QED BY <2>1, <2>2, <2>3, <2>4, <2>5 DEF CreateUser, CheckAccount, Fail, Done
<1>4. TypeOK'
  BY <1>0, <1>1, <1>2, <1>3 DEF TypeOK
<1>5. Lineage'
  BY <1>0, <1>1 DEF Lineage, Exists
<1>6. Presented'
  <2>1. PICK q \in Requested : req' = [req EXCEPT ![r] = q] /\ Sound(q, cred)
    BY <1>3
  <2>2. \A s \in Requests : Sound(req[s], cred)
    BY <1>0 DEF Presented
  <2> QED BY <1>0, <1>1, <2>1, <2>2, SoundStep
<1> QED BY <1>4, <1>5, <1>6 DEF IInv

\* A step that revokes credentials, whatever it does with the request.
LEMMA RevokingStep ==
  ASSUME IInv, NEW C, \A c \in C : Exists(c), cred' = Revoke(C),
         NEW r \in Requests, NEW q, req' = [req EXCEPT ![r] = q],
         \/ q = Idle
         \/ /\ q = [pc |-> "issue", user |-> req[r].user, cred |-> req[r].cred]
            /\ req[r].pc = "rotate" /\ req[r].cred \in C,
         account' = account, burned' \subseteq Credentials
  PROVE  IInv'
<1>1. TypeOK /\ Presented
  BY DEF IInv
<1>2. /\ cred' \in [Credentials -> Rows \cup {Absent}]
      /\ Lineage'
      /\ \A s \in Requests : Sound(req[s], cred')
  BY RevokeKeeps
<1>3. q \in [pc : {"idle", "signup", "issue", "check", "burn", "rotate"},
             user : Users \cup {None}, cred : Credentials \cup {None}]
  BY <1>1 DEF TypeOK, Idle
<1>4. TypeOK'
  BY <1>1, <1>2, <1>3 DEF TypeOK
<1>5. Sound(q, cred')
  <2>1. CASE q = Idle
    BY <2>1 DEF Idle, Sound
  <2>2. CASE /\ q = [pc |-> "issue", user |-> req[r].user, cred |-> req[r].cred]
             /\ req[r].pc = "rotate" /\ req[r].cred \in C
    <3>1. req[r].user \in Users /\ req[r].cred # None /\ req[r].cred \in Credentials
      BY <1>1, <2>2 DEF Presented, Sound, TypeOK
    <3>2. cred'[req[r].cred].revoked
      BY <1>1, <2>2, <3>1, RevokeOnlyRevokes
    <3>3. cred'[req[r].cred] # Absent /\ cred'[req[r].cred].user = req[r].user
      BY <1>2, <3>1 DEF Sound
    <3> QED BY <2>2, <3>1, <3>2, <3>3 DEF Sound
  <2> QED BY <2>1, <2>2
<1>6. Presented'
  BY <1>1, <1>2, <1>5, SoundStep
<1> QED BY <1>2, <1>4, <1>6 DEF IInv

\* The steps that revoke credentials.
LEMMA IInvRevokes ==
  ASSUME IInv,
         \/ \E r \in Requests : Burn(r) \/ RevokeOld(r)
         \/ \E c \in Credentials : Logout(c)
  PROVE  IInv'
<1>1. TypeOK /\ Presented
  BY DEF IInv
<1>2. ASSUME NEW c \in Credentials, Logout(c) PROVE IInv'
  <2>1. /\ cred' = Revoke({c}) /\ \A d \in {c} : Exists(d)
        /\ account' = account /\ burned' \subseteq Credentials
    BY <1>1, <1>2 DEF Logout, TypeOK
  <2>2. /\ cred' \in [Credentials -> Rows \cup {Absent}]
        /\ Lineage'
        /\ \A r \in Requests : Sound(req[r], cred')
    BY <2>1, RevokeKeeps
  <2>3. req' = req
    BY <1>2 DEF Logout
  <2> QED BY <1>1, <2>1, <2>2, <2>3 DEF IInv, TypeOK, Presented, Sound, Idle, Absent
<1>3. ASSUME NEW r \in Requests, Burn(r) PROVE IInv'
  <2> DEFINE f == cred[req[r].cred].family
  <2>1. f \in Credentials
    <3>1. req[r].cred \in Credentials /\ Exists(req[r].cred)
      BY <1>1, <1>3 DEF Burn, TypeOK, Presented, Sound, Exists
    <3> QED BY <1>1, <3>1, ExistsIsRow DEF Rows
  <2>2. /\ cred' = Revoke(Family(f)) /\ \A d \in Family(f) : Exists(d)
        /\ account' = account /\ req' = [req EXCEPT ![r] = Idle]
        /\ burned' = burned \cup {f}
    BY <1>3 DEF Burn, Family, Done
  <2>3. burned' \subseteq Credentials
    BY <1>1, <2>1, <2>2 DEF TypeOK
  <2> QED BY <2>2, <2>3, RevokingStep
<1>4. ASSUME NEW r \in Requests, RevokeOld(r) PROVE IInv'
  <2>1. /\ cred' = Revoke({req[r].cred}) /\ \A d \in {req[r].cred} : Exists(d)
        /\ account' = account /\ burned' \subseteq Credentials /\ req[r].pc = "rotate"
    BY <1>1, <1>4 DEF RevokeOld, Presented, Sound, Exists, TypeOK
  <2>2. req' = [req EXCEPT ![r] = [pc |-> "issue", user |-> req[r].user,
                                   cred |-> req[r].cred]]
    BY <1>1, <1>4, GotoKeeps DEF RevokeOld
  <2> QED BY <2>1, <2>2, RevokingStep
<1> QED BY <1>2, <1>3, <1>4

\* A new credential names rows that are there, and no row names it before.
LEMMA IInvIssue ==
  ASSUME IInv, NEW r \in Requests, Issue(r)
  PROVE  IInv'
<1>1. TypeOK /\ Lineage /\ Presented
  BY DEF IInv
<1>2. PICK c \in Credentials :
        /\ ~Exists(c)
        /\ cred' = [cred EXCEPT ![c] = cred'[c]]
        /\ cred'[c] \in Rows
        /\ cred'[c].user = req[r].user /\ cred'[c].from = req[r].cred
        /\ req[r].cred = None => cred'[c].family = c
        /\ req[r].cred # None =>
             /\ req[r].cred \in Credentials /\ req[r].cred # c /\ Exists(req[r].cred)
             /\ cred'[c].family = cred[req[r].cred].family
  BY IssueAdds
<1>3. /\ req' = [req EXCEPT ![r] = Idle] /\ account' = account /\ burned' = burned
      /\ req[r].pc = "issue"
  BY DEF Issue, Done
<1>4. \A d \in Credentials : /\ d # c => cred'[d] = cred[d]
                             /\ Exists(d) => d # c /\ Exists(d)'
  BY <1>1, <1>2 DEF TypeOK, Exists
<1>5. Exists(c)'
  BY <1>2, ExistsIsRow, NoneAssumption DEF Exists, Rows, Absent
<1>6. \A d \in Credentials : Exists(d) => /\ cred[d].family \in Credentials
                                          /\ cred[d].from \in Credentials \cup {None}
  BY <1>1, ExistsIsRow DEF Rows
<1>7. TypeOK'
  BY <1>1, <1>2, <1>3 DEF TypeOK, Idle
<1>8. Lineage'
  <2>1. ASSUME NEW d \in Credentials, Exists(d)', d # c
        PROVE  /\ Exists(cred[d].family)'
               /\ cred[d].from # None =>
                    /\ Exists(cred[d].from)' /\ cred'[cred[d].from] = cred[cred[d].from]
    BY <1>1, <1>4, <1>6, <2>1 DEF Lineage, Exists
  <2> QED
    <3>1. ASSUME NEW d \in Credentials, Exists(d)'
          PROVE  /\ cred'[cred'[d].family] # Absent
                 /\ cred'[d].from # None =>
                      /\ cred'[cred'[d].from] # Absent /\ cred'[cred'[d].from].revoked
                      /\ cred'[cred'[d].from].user = cred'[d].user
                      /\ cred'[cred'[d].from].family = cred'[d].family
      <4>1. CASE d # c
        <5>1. cred'[d] = cred[d] /\ Exists(d)
          BY <1>4, <3>1, <4>1 DEF Exists
        <5>2. /\ Exists(cred[d].family)
              /\ cred[d].from # None =>
                   /\ Exists(cred[d].from) /\ cred[cred[d].from].revoked
                   /\ cred[cred[d].from].user = cred[d].user
                   /\ cred[cred[d].from].family = cred[d].family
          BY <1>1, <5>1 DEF Lineage
        <5> QED BY <1>4, <1>6, <5>1, <5>2 DEF Exists
      <4>2. CASE d = c
        <5>1. CASE req[r].cred = None
          BY <1>2, <1>5, <4>2, <5>1 DEF Exists
        <5>2. CASE req[r].cred # None
          <6>1. /\ cred[req[r].cred].revoked /\ cred[req[r].cred].user = req[r].user
                /\ req[r].cred \in Credentials /\ Exists(req[r].cred)
                /\ cred'[req[r].cred] = cred[req[r].cred]
            BY <1>1, <1>2, <1>3, <1>4, <5>2 DEF Presented, Sound
          <6>2. /\ cred[req[r].cred].family \in Credentials
                /\ Exists(cred[req[r].cred].family)
            BY <1>1, <1>6, <6>1 DEF Lineage
          <6> QED BY <1>2, <1>4, <4>2, <5>2, <6>1, <6>2 DEF Exists
        <5> QED BY <5>1, <5>2
      <4> QED BY <4>1, <4>2
    <3> QED BY <3>1 DEF Lineage, Exists
<1>9. Presented'
  <2>1. \A s \in Requests : Sound(req[s], cred')
    <3>1. ASSUME NEW s \in Requests, req[s].cred # None
          PROVE  cred'[req[s].cred] = cred[req[s].cred]
      BY <1>1, <1>4, <3>1 DEF TypeOK, Presented, Sound, Exists
    <3> QED BY <1>1, <3>1 DEF Presented, Sound
  <2>2. Sound(Idle, cred')
    BY DEF Sound, Idle
  <2> QED BY <1>1, <1>3, <2>1, <2>2, SoundStep
<1> QED BY <1>7, <1>8, <1>9 DEF IInv

\* Time and operators.
LEMMA IInvEnvironment ==
  ASSUME IInv,
         \/ \E c \in Credentials : Expire(c)
         \/ \E u \in Users, s \in {"active", "restricted", "banned"} : SetStatus(u, s)
  PROVE  IInv'
<1>1. TypeOK /\ Lineage /\ Presented
  BY DEF IInv
<1>2. ASSUME NEW c \in Credentials, Expire(c) PROVE IInv'
  <2>1. /\ Exists(c) /\ cred[c] \in Rows
        /\ cred' = [cred EXCEPT ![c] = [cred[c] EXCEPT !.expired = TRUE]]
        /\ UNCHANGED <<account, req, burned>>
    BY <1>1, <1>2, ExistsIsRow DEF Expire, TypeOK
  <2>2. /\ [cred[c] EXCEPT !.expired = TRUE] \in Rows
        /\ [cred[c] EXCEPT !.expired = TRUE].user = cred[c].user
        /\ [cred[c] EXCEPT !.expired = TRUE].family = cred[c].family
        /\ [cred[c] EXCEPT !.expired = TRUE].from = cred[c].from
        /\ [cred[c] EXCEPT !.expired = TRUE].revoked = cred[c].revoked
    BY <2>1 DEF Rows
  <2>3. /\ cred' \in [Credentials -> Rows \cup {Absent}]
        /\ \A d \in Credentials :
             /\ cred'[d].user = cred[d].user /\ cred'[d].family = cred[d].family
             /\ cred'[d].from = cred[d].from /\ cred'[d].revoked = cred[d].revoked
    BY <1>1, <2>1, <2>2 DEF TypeOK
  <2>4. TypeOK'
    BY <1>1, <2>1, <2>3 DEF TypeOK
  <2>5. \A d \in Credentials : cred'[d] = Absent <=> cred[d] = Absent
    <3>1. \A x \in Rows : x # Absent
      BY NoneAssumption DEF Rows, Absent
    <3>2. \A d \in Credentials \ {c} : cred'[d] = cred[d]
      BY <1>1, <2>1 DEF TypeOK
    <3>3. cred'[c] \in Rows /\ cred[c] \in Rows
      BY <1>1, <2>1, <2>2 DEF TypeOK
    <3> QED BY <3>1, <3>2, <3>3
  <2>6. \A d \in Credentials : Exists(d) => /\ cred[d].family \in Credentials
                                            /\ cred[d].from \in Credentials \cup {None}
    BY <1>1, ExistsIsRow DEF Rows
  <2>7. Lineage'
    BY <1>1, <2>3, <2>5, <2>6 DEF Lineage, Exists
  <2>8. Presented'
    BY <1>1, <2>1, <2>3, <2>5 DEF Presented, Sound, Idle, TypeOK
  <2> QED BY <2>4, <2>7, <2>8 DEF IInv
<1>3. ASSUME NEW u \in Users, NEW s \in {"active", "restricted", "banned"}, SetStatus(u, s)
      PROVE  IInv'
  <2>1. TypeOK'
    BY <1>1, <1>3 DEF SetStatus, TypeOK, Statuses
  <2>2. Lineage' /\ Presented'
    BY <1>1, <1>3 DEF SetStatus, Lineage, Presented, Sound, Exists, Idle
  <2> QED BY <2>1, <2>2 DEF IInv
<1> QED BY <1>2, <1>3

LEMMA IInvInductive == IInv /\ [Next]_vars => IInv'
<1> SUFFICES ASSUME IInv, [Next]_vars PROVE IInv'
  OBVIOUS
<1>1. CASE UNCHANGED vars
  BY <1>1 DEF vars, IInv, TypeOK, Lineage, Presented, Exists, Sound, Idle
<1>2. CASE Next
  BY <1>2, IInvOtherwise, IInvRevokes, IInvIssue, IInvEnvironment DEF Next, Step
<1> QED BY <1>1, <1>2

-----------------------------------------------------------------------------
\* The variables keep their types, for any number of accounts, requests and tokens.
THEOREM SessionTypes == Spec => []TypeOK
<1>1. IInv => TypeOK
  BY DEF IInv
<1> QED BY <1>1, IInvInit, IInvInductive, PTL DEF Spec

\* However requests interleave, and wherever they fail, a rotated credential is revoked
\* before its successor can be used, which has its user and family.
THEOREM RotationConsumes == Spec => []RotatedIsConsumed
<1>1. IInv => RotatedIsConsumed
  <2> SUFFICES ASSUME IInv, NEW c \in Credentials, cred[c].from # None
               PROVE  LET p == cred[cred[c].from] IN
                      p.revoked /\ p.user = cred[c].user /\ p.family = cred[c].family
    BY DEF RotatedIsConsumed
  <2>1. Exists(c)
    BY DEF Exists, Absent
  <2> QED BY <2>1 DEF IInv, Lineage
<1> QED BY <1>1, IInvInit, IInvInductive, PTL DEF Spec

-----------------------------------------------------------------------------
\* No family comes to life by a step.
LEMMA DeadStep ==
  ASSUME IInv, [Next]_vars, NEW f \in Credentials, Dead(f)
  PROVE  Dead(f)'
<1>1. TypeOK /\ Lineage /\ Presented
  BY DEF IInv
\* What keeps the rows of the family, and adds no request that rotates one.
<1>2. ASSUME \A c \in Credentials : Exists(c) => Exists(c)',
             \A c \in Credentials : cred'[c].family = f /\ Exists(c)' =>
               /\ Exists(c) /\ cred[c].family = f
               /\ cred[c].revoked => cred'[c].revoked
               /\ cred[c].expired => cred'[c].expired,
             \A c \in Credentials : Exists(c) => cred'[c].family = cred[c].family,
             \A r \in Requests :
               req'[r].cred \in Family(f) /\ req'[r].pc \in {"check", "rotate", "issue"} =>
                 Rotating(r, f)
      PROVE  Dead(f)'
  <2>1. Family(f)' = Family(f)
    BY <1>2 DEF Family
  <2>2. \A c \in Family(f) : ~Live(c)'
    BY <1>2, <2>1 DEF Dead, Live, Family
  <2>3. \A r \in Requests : ~Rotating(r, f)'
    BY <1>2, <2>1 DEF Dead, Rotating
  <2> QED BY <2>1, <2>2, <2>3 DEF Dead
<1>3. ASSUME NEW C, \A c \in C : Exists(c), cred' = Revoke(C),
             \A r \in Requests :
               req'[r].cred \in Family(f) /\ req'[r].pc \in {"check", "rotate", "issue"} =>
                 Rotating(r, f)
      PROVE  Dead(f)'
  BY <1>1, <1>2, <1>3, RevokeOnlyRevokes
<1>4. ASSUME NEW r \in Requests, NEW q, req' = [req EXCEPT ![r] = q],
             \/ q = Idle
             \/ q.cred \notin Family(f)
             \/ q.cred = req[r].cred /\ req[r].pc \in {"check", "rotate", "issue"}
      PROVE  \A s \in Requests :
               req'[s].cred \in Family(f) /\ req'[s].pc \in {"check", "rotate", "issue"} =>
                 Rotating(s, f)
  <2>1. \A s \in Requests : req'[s] = IF s = r THEN q ELSE req[s]
    BY <1>1, <1>4 DEF TypeOK
  <2> QED BY <1>4, <2>1 DEF Rotating, Idle
<1>5. ASSUME cred' = cred,
             \A r \in Requests :
               req'[r].cred \in Family(f) /\ req'[r].pc \in {"check", "rotate", "issue"} =>
                 Rotating(r, f)
      PROVE  Dead(f)'
  BY <1>2, <1>5 DEF Exists
<1>6. None \notin Family(f)
  BY NoneAssumption DEF Family
\* A revoked credential is burned, not rotated.
<1>7. ASSUME NEW r \in Requests, NEW c \in Credentials, Present(r, c) PROVE Dead(f)'
  <2>1. c \in Family(f) => cred[c].revoked
    BY <1>7 DEF Present, Dead, Live
  <2>2. CASE cred[c].revoked
    <3>1. req' = [req EXCEPT ![r] = [pc |-> "burn", user |-> cred[c].user, cred |-> c]]
      BY <1>7, <2>2 DEF Present
    <3>2. \A s \in Requests : req'[s] =
            IF s = r THEN [pc |-> "burn", user |-> cred[c].user, cred |-> c] ELSE req[s]
      BY <1>1, <3>1 DEF TypeOK
    <3> QED BY <1>5, <1>7, <3>2 DEF Present, Rotating
  <2>3. CASE c \notin Family(f)
    <3>1. PICK pc \in {"burn", "check"} :
            req' = [req EXCEPT ![r] = [pc |-> pc, user |-> cred[c].user, cred |-> c]]
      BY <1>7 DEF Present
    <3> DEFINE q == [pc |-> pc, user |-> cred[c].user, cred |-> c]
    <3>2. req' = [req EXCEPT ![r] = q] /\ q.cred = c
      BY <3>1
    <3> HIDE DEF q
    <3> QED BY <1>4, <1>5, <1>7, <2>3, <3>2 DEF Present
  <2> QED BY <2>1, <2>2, <2>3
<1>8. ASSUME NEW r \in Requests, NEW u \in Users, SignupCheck(r, u) \/ Login(r, u)
      PROVE  Dead(f)'
  <2>1. PICK pc \in {"signup", "issue"} :
          req' = [req EXCEPT ![r] = [pc |-> pc, user |-> u, cred |-> None]]
    BY <1>8 DEF SignupCheck, Login
  <2> DEFINE q == [pc |-> pc, user |-> u, cred |-> None]
  <2>2. req' = [req EXCEPT ![r] = q] /\ q.cred = None
    BY <2>1
  <2> HIDE DEF q
  <2> QED BY <1>4, <1>5, <1>6, <1>8, <2>2 DEF SignupCheck, Login
<1>9. ASSUME NEW r \in Requests, CreateUser(r) \/ CheckAccount(r) \/ Fail(r)
      PROVE  Dead(f)'
  <2>1. CASE req' = [req EXCEPT ![r] = Idle]
    BY <1>4, <1>5, <1>9, <2>1 DEF CreateUser, CheckAccount, Fail
  <2>2. CASE Goto(r, "issue") /\ CreateUser(r)
    <3>1. PICK q : req' = [req EXCEPT ![r] = q] /\ q.cred = req[r].cred
      BY <1>1, <2>2, GotoKeeps
    <3>2. req[r].cred = None
      BY <1>1, <2>2 DEF CreateUser, Presented, Sound
    <3> QED BY <1>4, <1>5, <1>6, <2>2, <3>1, <3>2 DEF CreateUser
  <2>3. CASE Goto(r, "rotate") /\ CheckAccount(r)
    <3>1. PICK q : req' = [req EXCEPT ![r] = q] /\ q.cred = req[r].cred
      BY <1>1, <2>3, GotoKeeps
    <3> QED BY <1>4, <1>5, <2>3, <3>1 DEF CheckAccount
  <2> QED BY <1>9, <2>1, <2>2, <2>3 DEF CreateUser, CheckAccount, Fail, Done
<1>10. ASSUME NEW c \in Credentials, Logout(c) PROVE Dead(f)'
  <2>1. cred' = Revoke({c}) /\ \A d \in {c} : Exists(d)
    BY <1>10 DEF Logout
  <2>2. req' = req
    BY <1>10 DEF Logout
  <2> QED BY <1>3, <2>1, <2>2 DEF Rotating
<1>11. ASSUME NEW r \in Requests, Burn(r) PROVE Dead(f)'
  <2>1. PICK C : cred' = Revoke(C) /\ \A d \in C : Exists(d)
    BY <1>11 DEF Burn, Family
  <2>2. req' = [req EXCEPT ![r] = Idle]
    BY <1>11 DEF Burn, Done
  <2> QED BY <1>3, <1>4, <2>1, <2>2
<1>12. ASSUME NEW r \in Requests, RevokeOld(r) PROVE Dead(f)'
  <2>1. PICK C : cred' = Revoke(C) /\ \A d \in C : Exists(d)
    BY <1>1, <1>12 DEF RevokeOld, Presented, Sound, Exists
  <2>2. PICK q : req' = [req EXCEPT ![r] = q] /\ q.cred = req[r].cred
    BY <1>1, <1>12, GotoKeeps DEF RevokeOld
  <2> QED BY <1>3, <1>4, <1>12, <2>1, <2>2 DEF RevokeOld
\* The new row is in another family, or in that of a request that was rotating.
<1>13. ASSUME NEW r \in Requests, Issue(r) PROVE Dead(f)'
  <2>1. PICK c \in Credentials :
          /\ ~Exists(c)
          /\ cred' = [cred EXCEPT ![c] = cred'[c]]
          /\ req[r].cred = None => cred'[c].family = c
          /\ req[r].cred # None =>
               /\ req[r].cred \in Credentials /\ req[r].cred # c /\ Exists(req[r].cred)
               /\ cred'[c].family = cred[req[r].cred].family
    BY <1>13, IssueAdds
  <2>2. cred'[c].family # f
    <3>1. CASE req[r].cred = None
      BY <1>1, <2>1, <3>1 DEF Dead, Family, Lineage
    <3>2. CASE req[r].cred # None
      BY <1>13, <2>1, <3>2 DEF Issue, Dead, Rotating, Family
    <3> QED BY <3>1, <3>2
  <2>3. \A d \in Credentials : d # c => cred'[d] = cred[d]
    BY <1>1, <2>1 DEF TypeOK
  <2>4. /\ \A d \in Credentials : Exists(d) => Exists(d)'
        /\ \A d \in Credentials : cred'[d].family = f /\ Exists(d)' =>
             /\ Exists(d) /\ cred[d].family = f
             /\ cred[d].revoked => cred'[d].revoked
             /\ cred[d].expired => cred'[d].expired
        /\ \A d \in Credentials : Exists(d) => cred'[d].family = cred[d].family
    BY <2>1, <2>2, <2>3 DEF Exists
  <2>5. req' = [req EXCEPT ![r] = Idle]
    BY <1>13 DEF Issue, Done
  <2> QED BY <1>2, <1>4, <2>4, <2>5
<1>14. ASSUME NEW c \in Credentials, Expire(c) PROVE Dead(f)'
  <2>1. /\ Exists(c) /\ cred[c] \in Rows
        /\ cred' = [cred EXCEPT ![c] = [cred[c] EXCEPT !.expired = TRUE]]
        /\ req' = req
    BY <1>1, <1>14, ExistsIsRow DEF Expire, TypeOK
  <2>2. /\ [cred[c] EXCEPT !.expired = TRUE] \in Rows
        /\ [cred[c] EXCEPT !.expired = TRUE].family = cred[c].family
        /\ [cred[c] EXCEPT !.expired = TRUE].revoked = cred[c].revoked
        /\ [cred[c] EXCEPT !.expired = TRUE].expired
    BY <2>1 DEF Rows
  <2>3. /\ \A d \in Credentials \ {c} : cred'[d] = cred[d]
        /\ cred'[c].family = cred[c].family /\ cred'[c].revoked = cred[c].revoked
        /\ cred'[c].expired /\ cred'[c] # Absent
    BY <1>1, <2>1, <2>2, NoneAssumption DEF TypeOK, Rows, Absent
  <2> QED BY <1>2, <2>1, <2>3 DEF Exists, Rotating
<1>15. ASSUME NEW u \in Users, NEW s \in {"active", "restricted", "banned"}, SetStatus(u, s)
       PROVE  Dead(f)'
  BY <1>5, <1>15 DEF SetStatus, Rotating
<1>16. CASE UNCHANGED vars
  BY <1>5, <1>16 DEF vars, Rotating
<1> QED
  BY <1>7, <1>8, <1>9, <1>10, <1>11, <1>12, <1>13, <1>14, <1>15, <1>16 DEF Next, Step

\* A session that ended, and that no request is still rotating, never comes back,
\* whichever of its old tokens are presented to refresh.
THEOREM DeadSessionsStayDead == Spec => DeadStaysDead
<1>1. IInv /\ [Next]_vars => [\A f \in Credentials : Dead(f) => Dead(f)']_vars
  BY DeadStep
<1> QED BY <1>1, IInvInit, IInvInductive, PTL DEF Spec, DeadStaysDead

-----------------------------------------------------------------------------
\* Where the requests of a banned user are over, no step lets another one past the look
\* at the account, and none issues a token.
LEMMA BanStep ==
  ASSUME IInv, [Next]_vars, NEW u \in Users, Settled(u)
  PROVE  /\ \A r \in Requests : ~Passed(r, u)'
         /\ \A c \in Credentials : cred[c].user # u => cred'[c].user # u
<1>1. TypeOK /\ Presented
  BY DEF IInv
<1> DEFINE NonePasses == \A r \in Requests : ~Passed(r, u)'
           NoNewRow == \A c \in Credentials : cred[c].user # u => cred'[c].user # u
<1>2. ASSUME NEW r \in Requests, NEW q, req' = [req EXCEPT ![r] = q],
             q.user # u \/ q.pc \notin {"issue", "rotate"}
      PROVE  NonePasses
  <2>1. \A s \in Requests : req'[s] = IF s = r THEN q ELSE req[s]
    BY <1>1, <1>2 DEF TypeOK
  <2> QED BY <1>2, <2>1 DEF Passed, Settled
<1>3. ASSUME NEW r \in Requests, req' = [req EXCEPT ![r] = Idle]
      PROVE  NonePasses
  <2>1. Idle.pc \notin {"issue", "rotate"}
    BY DEF Idle
  <2> QED BY <1>2, <1>3, <2>1
<1>4. ASSUME NEW C, \A c \in C : Exists(c), cred' = Revoke(C)
      PROVE  NoNewRow
  BY <1>1, <1>4, RevokeOnlyRevokes
<1>5. ASSUME NEW r \in Requests, NEW v \in Users, SignupCheck(r, v) \/ Login(r, v)
      PROVE  NonePasses /\ NoNewRow
  <2>1. PICK pc \in {"signup", "issue"} :
          /\ req' = [req EXCEPT ![r] = [pc |-> pc, user |-> v, cred |-> None]]
          /\ pc = "issue" => v # u
    BY <1>5 DEF SignupCheck, Login, MaySignIn, Settled
  <2> DEFINE q == [pc |-> pc, user |-> v, cred |-> None]
  <2>2. req' = [req EXCEPT ![r] = q] /\ (q.user # u \/ q.pc \notin {"issue", "rotate"})
    BY <2>1
  <2> HIDE DEF q
  <2> QED BY <1>2, <1>5, <2>2 DEF SignupCheck, Login
<1>6. ASSUME NEW r \in Requests, NEW c \in Credentials, Present(r, c)
      PROVE  NonePasses /\ NoNewRow
  <2>1. PICK pc \in {"burn", "check"} :
          req' = [req EXCEPT ![r] = [pc |-> pc, user |-> cred[c].user, cred |-> c]]
    BY <1>6 DEF Present
  <2> DEFINE q == [pc |-> pc, user |-> cred[c].user, cred |-> c]
  <2>2. req' = [req EXCEPT ![r] = q] /\ q.pc \notin {"issue", "rotate"}
    BY <2>1
  <2> HIDE DEF q
  <2> QED BY <1>2, <1>6, <2>2 DEF Present
<1>7. ASSUME NEW r \in Requests, CreateUser(r) \/ CheckAccount(r) \/ Fail(r)
      PROVE  NonePasses /\ NoNewRow
  <2>1. CASE req' = [req EXCEPT ![r] = Idle]
    BY <1>3, <1>7, <2>1 DEF CreateUser, CheckAccount, Fail
  <2>2. CASE req' # [req EXCEPT ![r] = Idle]
    <3>1. PICK pc \in {"issue", "rotate"} : Goto(r, pc) /\ req[r].user # u
      BY <1>7, <2>2 DEF CreateUser, CheckAccount, Fail, Done, MaySignIn, Settled
    <3>2. PICK q : req' = [req EXCEPT ![r] = q] /\ q.user = req[r].user
      BY <1>1, <3>1, GotoKeeps
    <3> QED BY <1>2, <1>7, <3>1, <3>2 DEF CreateUser, CheckAccount, Fail
  <2> QED BY <2>1, <2>2
<1>8. ASSUME NEW c \in Credentials, Logout(c) PROVE NonePasses /\ NoNewRow
  <2>1. PICK C : cred' = Revoke(C) /\ \A d \in C : Exists(d)
    BY <1>8 DEF Logout
  <2>2. NoNewRow
    BY <1>4, <2>1
  <2>3. NonePasses
    BY <1>8 DEF Logout, Passed, Settled
  <2> QED BY <2>2, <2>3
<1>9. ASSUME NEW r \in Requests, Burn(r) PROVE NonePasses /\ NoNewRow
  <2>1. PICK C : cred' = Revoke(C) /\ \A d \in C : Exists(d)
    BY <1>9 DEF Burn, Family
  <2> QED BY <1>3, <1>4, <1>9, <2>1 DEF Burn, Done
<1>10. ASSUME NEW r \in Requests, RevokeOld(r) PROVE NonePasses /\ NoNewRow
  <2>1. PICK C : cred' = Revoke(C) /\ \A d \in C : Exists(d)
    BY <1>1, <1>10 DEF RevokeOld, Presented, Sound, Exists
  <2>2. PICK q : req' = [req EXCEPT ![r] = q] /\ q.user = req[r].user
    BY <1>1, <1>10, GotoKeeps DEF RevokeOld
  <2>3. req[r].user # u
    BY <1>10 DEF RevokeOld, Settled, Passed
  <2> QED BY <1>2, <1>4, <2>1, <2>2, <2>3
<1>11. ASSUME NEW r \in Requests, Issue(r) PROVE NonePasses /\ NoNewRow
  <2>1. PICK c \in Credentials :
          cred' = [cred EXCEPT ![c] = cred'[c]] /\ cred'[c].user = req[r].user
    BY <1>11, IssueAdds
  <2>2. req[r].user # u
    BY <1>11 DEF Issue, Settled, Passed
  <2>3. \A d \in Credentials : d # c => cred'[d] = cred[d]
    BY <1>1, <2>1 DEF TypeOK
  <2> QED BY <1>3, <1>11, <2>1, <2>2, <2>3 DEF Issue, Done
<1>12. ASSUME NEW c \in Credentials, Expire(c) PROVE NonePasses /\ NoNewRow
  <2>1. /\ cred[c] \in Rows
        /\ cred' = [cred EXCEPT ![c] = [cred[c] EXCEPT !.expired = TRUE]]
        /\ req' = req
    BY <1>1, <1>12, ExistsIsRow DEF Expire, TypeOK
  <2>2. [cred[c] EXCEPT !.expired = TRUE].user = cred[c].user
    BY <2>1 DEF Rows
  <2>3. \A d \in Credentials : cred'[d].user = cred[d].user
    BY <1>1, <2>1, <2>2 DEF TypeOK
  <2> QED BY <2>1, <2>3 DEF Passed, Settled
<1>13. ASSUME NEW v \in Users, NEW s \in {"active", "restricted", "banned"}, SetStatus(v, s)
       PROVE  NonePasses /\ NoNewRow
  BY <1>13 DEF SetStatus, Passed, Settled
<1>14. CASE UNCHANGED vars
  BY <1>14 DEF vars, Passed, Settled
<1> QED
  BY <1>5, <1>6, <1>7, <1>8, <1>9, <1>10, <1>11, <1>12, <1>13, <1>14 DEF Next, Step

\* Once a user is banned and the requests that had looked at the account are over, the
\* user is not let past that look, and has no new token, as long as the ban lasts.
THEOREM BannedStayOut == Spec => BanTakesHold
<1>1. IInv /\ [Next]_vars =>
        [\A u \in Users : Settled(u) =>
           /\ \A r \in Requests : ~Passed(r, u)'
           /\ \A c \in Credentials : cred[c].user # u => cred'[c].user # u]_vars
  BY BanStep
<1> QED BY <1>1, IInvInit, IInvInductive, PTL DEF Spec, BanTakesHold

\* The row of a token: whose it is and where it comes from are never written again, and what
\* made it unusable stays.
NeverRevived(c) == Exists(c) =>
  /\ Exists(c)'
  /\ cred'[c].user = cred[c].user /\ cred'[c].family = cred[c].family
  /\ cred'[c].from = cred[c].from
  /\ cred[c].revoked => cred'[c].revoked
  /\ cred[c].expired => cred'[c].expired

\* A token never becomes usable again once it was revoked or has expired, and never passes to
\* another user or family (the statements of TokenService), whichever requests and
\* operators are at work.
THEOREM TokensNeverRevive == Spec => [][\A c \in Credentials : NeverRevived(c)]_vars
<1>1. ASSUME IInv, [Next]_vars, NEW c \in Credentials PROVE NeverRevived(c)
  <2>0. TypeOK /\ Presented
    BY <1>1 DEF IInv
  <2>1. ASSUME cred' = cred PROVE NeverRevived(c)
    BY <2>1 DEF NeverRevived, Exists
  <2>2. ASSUME NEW C, \A d \in C : Exists(d), cred' = Revoke(C) PROVE NeverRevived(c)
    BY <2>0, <2>2, RevokeOnlyRevokes DEF NeverRevived
  <2>3. ASSUME NEW r \in Requests, Issue(r) PROVE NeverRevived(c)
    <3>1. PICK d \in Credentials : ~Exists(d) /\ cred' = [cred EXCEPT ![d] = cred'[d]]
      BY <1>1, <2>3, IssueAdds
    <3>2. ASSUME Exists(c) PROVE cred'[c] = cred[c]
      <4>1. c # d
        BY <3>1, <3>2
      <4> DEFINE x == cred'[d]
      <4>2. cred' = [cred EXCEPT ![d] = x]
        BY <3>1
      <4> HIDE DEF x
      <4> QED
        BY <4>1, <4>2, <2>0 DEF TypeOK
    <3> QED
      BY <3>2 DEF NeverRevived, Exists
  <2>4. ASSUME NEW d \in Credentials, Expire(d) PROVE NeverRevived(c)
    <3>1. cred[d] \in Rows /\ cred' = [cred EXCEPT ![d] = [cred[d] EXCEPT !.expired = TRUE]]
      BY <2>0, <2>4, ExistsIsRow DEF Expire
    <3> DEFINE x == [cred[d] EXCEPT !.expired = TRUE]
    <3>2. /\ x \in Rows /\ x.user = cred[d].user /\ x.family = cred[d].family
          /\ x.from = cred[d].from /\ x.revoked = cred[d].revoked /\ x.expired = TRUE
      BY <3>1 DEF Rows
    <3>3. cred' = [cred EXCEPT ![d] = x]
      BY <3>1
    <3>4. Absent \notin Rows
      BY NoneAssumption DEF Absent, Rows
    <3> HIDE DEF x
    <3>5. CASE c = d
      <4>1. cred'[c] = x
        BY <3>3, <3>5, <2>0 DEF TypeOK
      <4> QED
        BY <4>1, <3>2, <3>4, <3>5 DEF NeverRevived, Exists
    <3>6. CASE c # d
      BY <3>3, <3>6 DEF NeverRevived, Exists
    <3> QED
      BY <3>5, <3>6
  <2>5. ASSUME NEW r \in Requests,
               \/ \E u \in Users : SignupCheck(r, u) \/ Login(r, u)
               \/ \E d \in Credentials : Present(r, d)
               \/ CreateUser(r) \/ CheckAccount(r) \/ Fail(r)
        PROVE  cred' = cred
    BY <2>5 DEF SignupCheck, Login, Present, CreateUser, CheckAccount, Fail
  <2>6. ASSUME NEW r \in Requests, Burn(r) \/ RevokeOld(r)
        PROVE  \E C : (\A d \in C : Exists(d)) /\ cred' = Revoke(C)
    <3>1. CASE Burn(r)
      BY <3>1 DEF Burn, Family
    <3>2. CASE RevokeOld(r)
      BY <2>0, <3>2 DEF RevokeOld, Presented, Sound, Exists
    <3> QED
      BY <2>6, <3>1, <3>2
  <2>7. ASSUME NEW d \in Credentials, Logout(d)
        PROVE  \E C : (\A e \in C : Exists(e)) /\ cred' = Revoke(C)
    BY <2>7 DEF Logout
  <2>8. ASSUME NEW u, NEW s, SetStatus(u, s) PROVE cred' = cred
    BY <2>8 DEF SetStatus
  <2>9. CASE UNCHANGED vars
    BY <2>1, <2>9 DEF vars
  <2> QED
    BY <1>1, <2>1, <2>2, <2>3, <2>4, <2>5, <2>6, <2>7, <2>8, <2>9 DEF Next, Step
<1>2. IInv /\ [Next]_vars => [\A c \in Credentials : NeverRevived(c)]_vars
  BY <1>1
<1> QED
  BY <1>2, IInvInit, IInvInductive, PTL DEF Spec
=============================================================================
