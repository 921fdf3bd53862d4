-------------------------------- MODULE Sessions --------------------------------
(***************************************************************************)
(* Sessions: signup, login, rotating refresh tokens and logout             *)
(* (AuthService, TokenService), and what an operator does to the account   *)
(* (AdminUsersService).                                                    *)
(*                                                                         *)
(* No request holds a transaction: each query is a statement of its own,   *)
(* and requests interleave between them.  A refresh token is named by the  *)
(* id of its credential, a family by the id of its first credential.       *)
(***************************************************************************)
CONSTANTS
  Users,        \* the accounts, one for each email address
  Credentials,  \* the credential ids that can be drawn: bounds the tokens issued
  Requests,     \* the requests that can be under way at the same time
  None          \* no user, no credential

ASSUME NoneAssumption == None \notin Users \cup Credentials

VARIABLES
  account,  \* account[u]: User.accountStatus, "absent" before signup
  cred,     \* the Credential rows
  req,      \* req[r]: where request r stands
  burned    \* families in which a reused token was detected (history)

vars == <<account, cred, req, burned>>

-----------------------------------------------------------------------------
Statuses == {"absent", "active", "restricted", "banned"}

\* `from` is the credential that was presented for this one (history), None for
\* the first of a family.
Rows == [user : Users, family : Credentials, from : Credentials \cup {None},
         revoked : BOOLEAN, expired : BOOLEAN]
Absent == [user |-> None, family |-> None, from |-> None, revoked |-> TRUE, expired |-> TRUE]

Idle == [pc |-> "idle", user |-> None, cred |-> None]

Exists(c) == cred[c] # Absent
Live(c) == Exists(c) /\ ~cred[c].revoked /\ ~cred[c].expired
Revoke(C) == [c \in Credentials |-> IF c \in C THEN [cred[c] EXCEPT !.revoked = TRUE]
                                               ELSE cred[c]]
Family(f) == {c \in Credentials : Exists(c) /\ cred[c].family = f}
Goto(r, pc) == req' = [req EXCEPT ![r].pc = pc]
Done(r) == req' = [req EXCEPT ![r] = Idle]

-----------------------------------------------------------------------------
(* Signup and login. *)

\* findUnique by email, then argon2, then the insert: the email is unique, so that
\* of two signups that both found it free one fails.
SignupCheck(r, u) ==
  /\ req[r].pc = "idle" /\ account[u] = "absent"
  /\ req' = [req EXCEPT ![r] = [pc |-> "signup", user |-> u, cred |-> None]]
  /\ UNCHANGED <<account, cred, burned>>

CreateUser(r) ==
  /\ req[r].pc = "signup"
  /\ IF account[req[r].user] = "absent"
     THEN /\ account' = [account EXCEPT ![req[r].user] = "active"]
          /\ Goto(r, "issue")
     ELSE Done(r) /\ UNCHANGED account
  /\ UNCHANGED <<cred, burned>>

MaySignIn(u) == account[u] \notin {"absent", "banned"}

Login(r, u) ==
  /\ req[r].pc = "idle" /\ MaySignIn(u)
  /\ req' = [req EXCEPT ![r] = [pc |-> "issue", user |-> u, cred |-> None]]
  /\ UNCHANGED <<account, cred, burned>>

-----------------------------------------------------------------------------
(* Refresh and logout. *)

\* Mutant: no reuse detection.
AcceptAny(r, c) ==
  /\ req[r].pc = "idle" /\ Exists(c)
  /\ req' = [req EXCEPT ![r] = [pc |-> "check", user |-> cred[c].user, cred |-> c]]
  /\ UNCHANGED <<account, cred, burned>>

\* The credential is read, without a lock.  An expired one is refused, which
\* changes nothing.
Present(r, c) ==
  /\ req[r].pc = "idle" /\ Exists(c) /\ (cred[c].revoked \/ ~cred[c].expired)
  /\ req' = [req EXCEPT ![r] = [pc |-> IF cred[c].revoked THEN "burn" ELSE "check",
                                user |-> cred[c].user, cred |-> c]]
  /\ UNCHANGED <<account, cred, burned>>

\* A revoked credential was presented: the whole family is revoked.
Burn(r) ==
  /\ req[r].pc = "burn"
  /\ LET f == cred[req[r].cred].family IN
     /\ cred' = Revoke(Family(f))
     /\ burned' = burned \cup {f}
  /\ Done(r)
  /\ UNCHANGED account

\* Mutant: the account is not looked at again.
NoAccountCheck(r) ==
  /\ req[r].pc = "check"
  /\ Goto(r, "rotate")
  /\ UNCHANGED <<account, cred, burned>>

CheckAccount(r) ==
  /\ req[r].pc = "check"
  /\ IF MaySignIn(req[r].user) THEN Goto(r, "rotate") ELSE Done(r)
  /\ UNCHANGED <<account, cred, burned>>

\* Mutant: the presented credential is left as it is.
KeepOld(r) ==
  /\ req[r].pc = "rotate"
  /\ Goto(r, "issue")
  /\ UNCHANGED <<account, cred, burned>>

\* The update goes by id, whether or not the credential was revoked meanwhile.
RevokeOld(r) ==
  /\ req[r].pc = "rotate"
  /\ cred' = Revoke({req[r].cred})
  /\ Goto(r, "issue")
  /\ UNCHANGED <<account, burned>>

\* Mutant: no family is given to the first credential of a session.
IssueWithoutFamily(r) ==
  /\ req[r].pc = "issue"
  /\ \E c \in Credentials :
       /\ ~Exists(c)
       /\ cred' = [cred EXCEPT ![c] =
            [user |-> req[r].user, from |-> req[r].cred,
             family |-> IF req[r].cred = None THEN None ELSE cred[req[r].cred].family,
             revoked |-> FALSE, expired |-> FALSE]]
  /\ Done(r)
  /\ UNCHANGED <<account, burned>>

\* createCredential: a fresh id; a new family, or that of the presented credential.
Issue(r) ==
  /\ req[r].pc = "issue"
  /\ \E c \in Credentials :
       /\ ~Exists(c)
       /\ cred' = [cred EXCEPT ![c] =
            [user |-> req[r].user, from |-> req[r].cred,
             family |-> IF req[r].cred = None THEN c ELSE cred[req[r].cred].family,
             revoked |-> FALSE, expired |-> FALSE]]
  /\ Done(r)
  /\ UNCHANGED <<account, burned>>

Logout(c) ==
  /\ Exists(c) /\ ~cred[c].revoked
  /\ cred' = Revoke({c})
  /\ UNCHANGED <<account, req, burned>>

-----------------------------------------------------------------------------
(* The environment. *)

\* The process of a request dies, or its next query fails.
Fail(r) ==
  /\ req[r].pc # "idle"
  /\ Done(r)
  /\ UNCHANGED <<account, cred, burned>>

\* Time passes expiresAt.
Expire(c) ==
  /\ Exists(c) /\ ~cred[c].expired
  /\ cred' = [cred EXCEPT ![c].expired = TRUE]
  /\ UNCHANGED <<account, req, burned>>

\* restrict, unrestrict and ban write the status whatever it was.
SetStatus(u, s) ==
  /\ account[u] # "absent" /\ account[u] # s
  /\ account' = [account EXCEPT ![u] = s]
  /\ UNCHANGED <<cred, req, burned>>

Init ==
  /\ account = [u \in Users |-> "absent"]
  /\ cred = [c \in Credentials |-> Absent]
  /\ req = [r \in Requests |-> Idle]
  /\ burned = {}

Step(r) == CreateUser(r) \/ Burn(r) \/ CheckAccount(r) \/ RevokeOld(r) \/ Issue(r)

Next ==
  \/ \E r \in Requests :
       \/ Step(r) \/ Fail(r)
       \/ \E u \in Users : SignupCheck(r, u) \/ Login(r, u)
       \/ \E c \in Credentials : Present(r, c)
  \/ \E c \in Credentials : Logout(c) \/ Expire(c)
  \/ \E u \in Users, s \in {"active", "restricted", "banned"} : SetStatus(u, s)

Spec == Init /\ [][Next]_vars

-----------------------------------------------------------------------------
(* Properties. *)

TypeOK ==
  /\ account \in [Users -> Statuses]
  /\ cred \in [Credentials -> Rows \cup {Absent}]
  /\ req \in [Requests ->
       [pc : {"idle", "signup", "issue", "check", "burn", "rotate"},
        user : Users \cup {None}, cred : Credentials \cup {None}]]
  /\ burned \subseteq Credentials

\* A refresh token is consumed by the rotation it pays for: no credential is usable
\* beside its successor, wherever requests interleave or fail between the two
\* statements of the rotation, and the successor is of the same user and family.
RotatedIsConsumed ==
  \A c \in Credentials :
    cred[c].from # None =>
      LET p == cred[cred[c].from] IN
      p.revoked /\ p.user = cred[c].user /\ p.family = cred[c].family

\* No request is about to issue a token in family f.
Rotating(r, f) ==
  req[r].pc \in {"check", "rotate", "issue"} /\ req[r].cred \in Family(f)
Dead(f) == /\ Family(f) # {}
           /\ \A c \in Family(f) : ~Live(c)
           /\ \A r \in Requests : ~Rotating(r, f)

\* A session that ended - logged out, burned by reuse, expired - and that no request
\* is still rotating, never comes back, whichever of its old tokens are presented.
DeadStaysDead == [][\A f \in Credentials : Dead(f) => Dead(f)']_vars

\* A ban takes hold: once a user is banned and the requests that looked at the account
\* before are over, none gets past that look any more, and the user has no new token.
Passed(r, u) == req[r].user = u /\ req[r].pc \in {"issue", "rotate"}
Settled(u) == account[u] = "banned" /\ \A r \in Requests : ~Passed(r, u)
BanTakesHold ==
  [][\A u \in Users : Settled(u) =>
       /\ \A r \in Requests : ~Passed(r, u)'
       /\ \A c \in Credentials : cred[c].user # u => cred'[c].user # u]_vars

-----------------------------------------------------------------------------
(* What the code's comments say, and TLC refutes. *)

\* token.service.ts:22 - every use revokes the old credential and issues a new one:
\* a credential is exchanged for one other, not for two.
ConsumedOnce ==
  \A c, d \in Credentials :
    cred[c].from # None /\ cred[c].from = cred[d].from => c = d

\* token.service.ts:23 - reuse revokes the whole family: with no request under way, a
\* family in which reuse was detected has no live credential.
BurnedIsDead ==
  (\A r \in Requests : req[r] = Idle) =>
    \A c \in Credentials : Exists(c) /\ cred[c].family \in burned => ~Live(c)

=============================================================================
