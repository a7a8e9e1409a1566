----------------------------- MODULE AuthLedger -----------------------------
(***************************************************************************)
(* What the account database promises: users are added, and a login gives  *)
(* a user one new token in place of all earlier ones, each in one step.    *)
(***************************************************************************)
CONSTANTS User, Token, NoUser

VARIABLES users,  \* the users there are
          owner,  \* the user of each token that was given, or NoUser
          valid   \* the tokens that are not revoked

Init ==
  /\ users = {}
  /\ owner = [t \in Token |-> NoUser]
  /\ valid = {}

\* The tokens ever given to u.
Given(own, u) == {t \in Token : own[t] = u}

Register(u) ==
  /\ u \notin users
  /\ users' = users \cup {u}
  /\ UNCHANGED <<owner, valid>>

Login(u, t) ==
  /\ u \in users
  /\ owner[t] = NoUser
  /\ owner' = [owner EXCEPT ![t] = u]
  /\ valid' = (valid \ Given(owner, u)) \cup {t}
  /\ UNCHANGED users

Next == \E u \in User : Register(u) \/ \E t \in Token : Login(u, t)

Spec == Init /\ [][Next]_<<users, owner, valid>>
=============================================================================
