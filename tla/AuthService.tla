---------------------------- MODULE AuthService ----------------------------
(***************************************************************************)
(* Accounts: packets that become requests to the DB thread (PacketHandler, *)
(* PacketDispatcher, DbWorker), AuthService, which carries a request out   *)
(* statement by statement in an SQLite transaction, and the answer.  Any   *)
(* statement may fail; the process may die at any step, which loses the    *)
(* requests, the sessions and an open transaction, and be started again.   *)
(*                                                                         *)
(* A user is a name; whether a password is accepted, and whether a hash    *)
(* can be made, is the library's answer: either may be.                    *)
(***************************************************************************)
EXTENDS Naturals, Sequences, FiniteSets

CONSTANTS User, Token, Session,
          MaxRequests,  \* bound: packets that are handled
          MaxCrashes,   \* bound: deaths of the process
          NoUser,       \* a user id of 0
          NoToken

ASSUME NullAssumption == NoUser \notin User /\ NoToken \notin Token
ASSUME BoundsAssumption == MaxRequests \in Nat /\ MaxCrashes \in Nat

VARIABLES
  disk,      \* what is committed: [users, owner, valid]
  work,      \* what the connection sees: disk, or the open transaction
  tx,        \* "none" or "open"
  queue,     \* _taskQueue of the DB worker
  pc,        \* the statement the DB thread is at
  job,       \* the request it carries out
  token,     \* the token a login made
  open,      \* the sessions that are connected
  userOf,    \* _userId of each session
  expired,   \* the tokens whose time has passed
  requests,  \* packets handled so far
  crashes,   \* deaths so far
  answered,  \* history: the requests that were answered
  silent,    \* history: those whose answer could not be written
  lost,      \* history: those that a crash took
  told       \* history: what login answers said

asked == <<queue, requests>>
request == <<asked, job>>
db == <<disk, work, tx, token>>
outcome == <<answered, silent, lost, told>>
vars == <<db, request, pc, open, userOf, expired, crashes, outcome>>

Kinds == {"register", "login", "resume"}
Stores == [users : SUBSET User, owner : [Token -> User \cup {NoUser}], valid : SUBSET Token]
Requests == [id : 1 .. MaxRequests, kind : Kinds, session : Session,
             user : User \cup {NoUser}, token : Token \cup {NoToken}]

NoRequest == [id |-> 0]

EmptyStore == [users |-> {}, owner |-> [t \in Token |-> NoUser], valid |-> {}]

Ledger == INSTANCE AuthLedger
            WITH users <- disk.users, owner <- disk.owner, valid <- disk.valid

Given(store, u) == {t \in Token : store.owner[t] = u}

Init ==
  /\ disk = EmptyStore
  /\ work = EmptyStore
  /\ tx = "none"
  /\ queue = <<>>
  /\ pc = "idle"
  /\ job = NoRequest
  /\ token = NoToken
  /\ open = Session
  /\ userOf = [s \in Session |-> NoUser]
  /\ expired = {}
  /\ requests = 0
  /\ crashes = 0
  /\ answered = {}
  /\ silent = {}
  /\ lost = {}
  /\ told = {}

----------------------------------------------------------------------------
(***************************************************************************)
(* A session's packets.                                                    *)
(***************************************************************************)

\* A packet's handler gives its request to the DB worker.
Ask(s, kind, u, t) ==
  /\ s \in open
  /\ requests < MaxRequests
  /\ requests' = requests + 1
  /\ queue' = Append(queue, [id |-> requests + 1, kind |-> kind, session |-> s,
                             user |-> u, token |-> t])
  /\ UNCHANGED <<db, job, pc, open, userOf, expired, crashes, outcome>>

C2S_Register(s, u) == Ask(s, "register", u, NoToken)
C2S_Login(s, u) == Ask(s, "login", u, NoToken)
C2S_Resume(s, t) == Ask(s, "resume", NoUser, t)

\* A packet that no handler is registered for, or that cannot be read, ends
\* the session; what it has asked for is carried out all the same.
Disconnect(s) ==
  /\ s \in open
  /\ open' = open \ {s}
  /\ UNCHANGED <<db, request, pc, userOf, expired, crashes, outcome>>

----------------------------------------------------------------------------
(***************************************************************************)
(* The DB thread.                                                          *)
(***************************************************************************)

FirstStep == [register |-> "hash", login |-> "lookup", resume |-> "check"]

\* DbWorker::Run takes a request.
TakeRequest ==
  /\ pc = "idle"
  /\ queue # <<>>
  /\ job' = Head(queue)
  /\ queue' = Tail(queue)
  /\ pc' = FirstStep[Head(queue).kind]
  /\ UNCHANGED <<db, requests, open, userOf, expired, crashes, outcome>>

\* The DB thread goes from one step to another and changes nothing else.
Go(from, to) ==
  /\ pc = from
  /\ pc' = to
  /\ UNCHANGED <<db, request, open, userOf, expired, crashes, outcome>>

HashPassword == Go("hash", "begin") \/ Go("hash", "fail")

\* Mutant: a user who is not found ends the request without an answer.
FindUserQuietly ==
  /\ pc = "lookup"
  /\ \/ job.user \in work.users /\ pc' = "begin" /\ UNCHANGED job
     \/ pc' = "idle" /\ job' = NoRequest
  /\ UNCHANGED <<db, asked, open, userOf, expired, crashes, outcome>>

\* Whether the password is accepted is left open, as is what the hash of it is:
\* VerifyPassword (AuthService.cpp:265) gives the library `password.size() == 0`
\* for a length and returns its 0, which means success, as false, and the handlers
\* pass the user's name for the password (PacketHandler.cpp:22, 57).
FindUser ==
  \/ pc = "lookup" /\ job.user \in work.users /\ Go("lookup", "begin")
  \/ Go("lookup", "fail")

\* BEGIN IMMEDIATE.
BeginTransaction ==
  \/ /\ pc = "begin"
     /\ tx = "none"
     /\ tx' = "open"
     /\ pc' = IF job.kind = "register" THEN "insertUser" ELSE "revoke"
     /\ UNCHANGED <<disk, work, token, request, open, userOf, expired, crashes, outcome>>
  \/ Go("begin", "fail")

\* A statement of the transaction succeeds.
Write(from, store, to) ==
  /\ pc = from
  /\ work' = store
  /\ pc' = to
  /\ UNCHANGED <<disk, tx, request, open, userOf, expired, crashes, outcome>>

\* The name is unique.
InsertUser ==
  /\ pc = "insertUser" /\ job.user \notin work.users
  /\ Write("insertUser", [work EXCEPT !.users = @ \cup {job.user}], "commit")
  /\ UNCHANGED token

\* Mutant: the tokens given before stay valid.
RevokeNothing ==
  /\ Write("revoke", work, "insertToken")
  /\ UNCHANGED token

RevokeTokens ==
  /\ Write("revoke", [work EXCEPT !.valid = @ \ Given(work, job.user)], "insertToken")
  /\ UNCHANGED token

\* Mutant: whether the row went in is not looked at.
InsertUnchecked ==
  \E t \in Token :
    /\ work.owner[t] = NoUser
    /\ \/ Write("insertToken", [work EXCEPT !.owner[t] = job.user, !.valid = @ \cup {t}],
                "commit")
       \/ Write("insertToken", work, "commit")
    /\ token' = t

\* The new token is a random one, and the table's key.
InsertToken ==
  \E t \in Token :
    /\ work.owner[t] = NoUser
    /\ Write("insertToken", [work EXCEPT !.owner[t] = job.user, !.valid = @ \cup {t}],
             "commit")
    /\ token' = t

Transactional == {"insertUser", "revoke", "insertToken", "commit"}

StatementFails == \E from \in Transactional : Go(from, "rollback")

\* Mutant: whether the commit succeeds is not looked at.
CommitUnchecked ==
  /\ pc = "commit"
  /\ disk' \in {disk, work}
  /\ work' = disk'
  /\ tx' = "none"
  /\ pc' = "ok"
  /\ UNCHANGED <<token, request, open, userOf, expired, crashes, outcome>>

CommitTransaction ==
  /\ pc = "commit"
  /\ disk' = work
  /\ tx' = "none"
  /\ pc' = "ok"
  /\ UNCHANGED <<work, token, request, open, userOf, expired, crashes, outcome>>

RollbackTransaction ==
  /\ pc = "rollback"
  /\ work' = disk
  /\ tx' = "none"
  /\ pc' = "fail"
  /\ UNCHANGED <<disk, token, request, open, userOf, expired, crashes, outcome>>

\* Mutant: a revoked token will do.
KnownToken(t) == work.owner[t] # NoUser

\* What Resume reads of a token lets it go on.
GoodToken(t) == t \in work.valid \ expired

\* Resume reads the token's row, then updates the time it was last seen.
CheckToken ==
  \/ /\ pc = "check" /\ job.token \in Token
     /\ GoodToken(job.token)
     /\ Go("check", "touch")
  \/ Go("check", "fail")

TouchToken == Go("touch", "ok") \/ Go("touch", "fail")

----------------------------------------------------------------------------
(***************************************************************************)
(* The answer, from the DB thread.                                         *)
(***************************************************************************)

Done == pc' = "idle" /\ job' = NoRequest

SessionOfJob(u) == userOf' = [userOf EXCEPT ![job.session] = u]

\* A login's answer carries the token.  Its user id was never filled in
\* (AuthService.cpp:162): the session gets 0.
AnswerLogin ==
  /\ pc = "ok" /\ job.kind = "login"
  /\ SessionOfJob(NoUser)
  /\ answered' = answered \cup {job.id}
  /\ told' = told \cup {[user |-> job.user, token |-> token]}
  /\ Done
  /\ UNCHANGED <<db, asked, open, expired, crashes, silent, lost>>

\* The success of the others has an empty token, which BinaryWriter refuses to
\* write: SendPacket gives up, and nothing is sent.
AnswerSilently ==
  /\ pc = "ok" /\ job.kind # "login"
  /\ IF job.kind = "resume" THEN SessionOfJob(work.owner[job.token])
                            ELSE UNCHANGED userOf
  /\ silent' = silent \cup {job.id}
  /\ Done
  /\ UNCHANGED <<db, asked, open, expired, crashes, answered, lost, told>>

\* S2C_AuthFail.
AnswerFail ==
  /\ pc = "fail"
  /\ answered' = answered \cup {job.id}
  /\ Done
  /\ UNCHANGED <<db, asked, open, userOf, expired, crashes, silent, lost, told>>

----------------------------------------------------------------------------
(***************************************************************************)
(* Time and the process.                                                   *)
(***************************************************************************)

Expire(t) ==
  /\ work.owner[t] # NoUser
  /\ expired' = expired \cup {t}
  /\ UNCHANGED <<db, request, pc, open, userOf, crashes, outcome>>

Unanswered == {queue[i].id : i \in DOMAIN queue} \cup
              (IF pc = "idle" THEN {} ELSE {job.id})

\* The process dies and is started again with new sessions on the same file.
Crash ==
  /\ crashes < MaxCrashes
  /\ crashes' = crashes + 1
  /\ work' = disk
  /\ tx' = "none"
  /\ queue' = <<>>
  /\ Done
  /\ lost' = lost \cup Unanswered
  /\ open' = Session
  /\ userOf' = [s \in Session |-> NoUser]
  /\ UNCHANGED <<disk, token, requests, expired, answered, silent, told>>

----------------------------------------------------------------------------
Packet ==
  \E s \in Session :
    \/ \E u \in User : C2S_Register(s, u) \/ C2S_Login(s, u)
    \/ \E t \in Token : C2S_Resume(s, t)
    \/ Disconnect(s)

Transaction ==
  \/ BeginTransaction \/ InsertUser \/ RevokeTokens \/ InsertToken
  \/ StatementFails \/ CommitTransaction \/ RollbackTransaction

Answer == AnswerLogin \/ AnswerSilently \/ AnswerFail

RunDb ==
  TakeRequest \/ HashPassword \/ FindUser \/ Transaction \/ CheckToken \/ TouchToken \/ Answer

Next == Packet \/ RunDb \/ (\E t \in Token : Expire(t)) \/ Crash

SafeSpec == Init /\ [][Next]_vars

\* The DB thread goes on as long as there is something to do.
Spec == SafeSpec /\ WF_vars(RunDb)

----------------------------------------------------------------------------
Steps == {"idle", "hash", "lookup", "begin", "check", "touch", "rollback", "ok", "fail"}
           \cup Transactional

TypeOK ==
  /\ disk \in Stores /\ work \in Stores
  /\ tx \in {"none", "open"}
  /\ queue \in Seq(Requests)
  /\ pc \in Steps
  /\ job \in IF pc = "idle" THEN {NoRequest} ELSE Requests
  /\ token \in Token \cup {NoToken}
  /\ open \subseteq Session
  /\ userOf \in [Session -> User \cup {NoUser}]
  /\ expired \subseteq Token
  /\ requests \in 0 .. MaxRequests /\ crashes \in Nat
  /\ told \subseteq [user : User, token : Token]

\* Whatever fails, and wherever the process dies, the file goes from one whole
\* registration or login to the next.
ImplementsLedger == Ledger!Spec

\* A user who has ever logged in has one valid token, no more and no fewer.
OneValidToken ==
  \A u \in User : Given(disk, u) # {} => \E t \in Token : disk.valid \cap Given(disk, u) = {t}

\* What a login answer said is in the file, and outlives a crash: the token is
\* the user's, and only a later one of the same user takes its place.
AnsweredIsCommitted ==
  \A a \in told : /\ disk.owner[a.token] = a.user
                  /\ a.token \in disk.valid \/ (disk.valid \cap Given(disk, a.user) # {})

\* A session takes on a user only for the token it has shown, which is that
\* user's valid one at the moment of the answer.
ActsForTokenOwner ==
  [][\A s \in Session : userOf'[s] # userOf[s] =>
       \/ userOf'[s] = NoUser
       \/ job.token \in disk.valid /\ disk.owner[job.token] = userOf'[s]]_vars

\* A login request is answered, unless the process dies first.
LoginsAnswered ==
  \A r \in 1 .. MaxRequests :
    (\E i \in DOMAIN queue : queue[i].id = r /\ queue[i].kind = "login")
      ~> (r \in answered \cup lost)

----------------------------------------------------------------------------
(***************************************************************************)
(* Statements that the code refutes.                                       *)
(***************************************************************************)

\* Every request is answered: a registration or a resume that succeeds is not.
EveryRequestAnswered ==
  \A r \in 1 .. MaxRequests :
    (\E i \in DOMAIN queue : queue[i].id = r) ~> (r \in answered \cup lost)

\* A login makes its session one of the user's.
LoginIsAuthed ==
  [][\A a \in told' \ told : userOf'[job.session] = a.user]_vars
=============================================================================
