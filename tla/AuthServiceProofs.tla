------------------------- MODULE AuthServiceProofs -------------------------
(***************************************************************************)
(* For any users, tokens and sessions, and any number of failures and      *)
(* crashes: the file follows AuthLedger, a user has one valid token, and   *)
(* what a login answer said stays true.                                    *)
(***************************************************************************)
EXTENDS AuthService, TLAPS

\* A request names what its kind needs.
Named(r) == /\ r \in Requests
            /\ r.kind \in {"register", "login"} => r.user \in User
            /\ r.kind = "resume" => r.token \in Token

\* How far a request has got, and what the open transaction then holds.
StepInv ==
  /\ queue \in Seq({r \in Requests : Named(r)})
  /\ pc # "idle" => Named(job)
  /\ pc \in {"hash", "insertUser"} => job.kind = "register"
  /\ pc \in {"lookup", "revoke", "insertToken"} => job.kind = "login"
  /\ pc \in {"check", "touch"} => job.kind = "resume"
  /\ pc \in {"begin", "commit", "rollback"} => job.kind \in {"register", "login"}
  /\ pc \in {"revoke", "insertToken"} => job.user \in disk.users
  /\ pc \in {"begin", "commit"} /\ job.kind = "login" => job.user \in disk.users
  /\ pc \in {"touch", "ok"} /\ job.kind = "resume" => job.token \in disk.valid

StoreInv ==
  /\ disk \in Stores /\ work \in Stores
  /\ token \in Token \cup {NoToken}
  /\ tx = IF pc \in Transactional \cup {"rollback"} THEN "open" ELSE "none"
  /\ pc \notin {"insertToken", "commit", "rollback"} => work = disk
  /\ pc = "insertToken" =>
       work = [disk EXCEPT !.valid = @ \ Given(disk, job.user)]
  /\ pc = "commit" /\ job.kind = "register" =>
       /\ job.user \notin disk.users
       /\ work = [disk EXCEPT !.users = @ \cup {job.user}]
  /\ pc = "commit" /\ job.kind = "login" =>
       /\ token \in Token
       /\ disk.owner[token] = NoUser
       /\ work = [disk EXCEPT !.owner[token] = job.user,
                              !.valid = (@ \ Given(disk, job.user)) \cup {token}]
  /\ pc = "ok" /\ job.kind = "login" => token \in Token /\ disk.owner[token] = job.user

Inv == pc \in Steps /\ requests \in Nat /\ StepInv /\ StoreInv

----------------------------------------------------------------------------
LEMMA InvInit == Init => Inv
BY DEF Init, Inv, StepInv, StoreInv, Stores, EmptyStore, Steps, Transactional

\* The requests are queued as they are asked, and taken as they were queued.
LEMMA AskKeeps ==
  ASSUME Inv, NEW s \in Session, NEW kind \in Kinds, NEW u \in User \cup {NoUser},
         NEW t \in Token \cup {NoToken}, Ask(s, kind, u, t),
         kind \in {"register", "login"} => u \in User,
         kind = "resume" => t \in Token
  PROVE  Inv'
<1> DEFINE r == [id |-> requests + 1, kind |-> kind, session |-> s,
                 user |-> u, token |-> t]
<1>1. requests + 1 \in 1 .. MaxRequests
  BY BoundsAssumption DEF Ask, Inv
<1>2. Named(r)
  BY <1>1 DEF Named, Requests
<1>3. queue' \in Seq({q \in Requests : Named(q)})
  <2>1. queue \in Seq({q \in Requests : Named(q)})
    BY DEF Inv, StepInv
  <2>2. r \in {q \in Requests : Named(q)}
    BY <1>2 DEF Named
  <2>3. queue' = Append(queue, r)
    BY DEF Ask
  <2>4. QED
    BY <2>1, <2>2, <2>3
<1>4. UNCHANGED <<db, pc, job>>
  BY DEF Ask
<1>5. QED
  BY <1>3, <1>4 DEF Inv, StepInv, StoreInv, db, Ask

LEMMA TakeRequestKeeps == ASSUME Inv, TakeRequest PROVE Inv'
<1>1. queue \in Seq({r \in Requests : Named(r)}) /\ queue # <<>>
  BY DEF Inv, StepInv, TakeRequest
<1>2. Head(queue) \in {r \in Requests : Named(r)}
  BY <1>1
<1>3. Tail(queue) \in Seq({r \in Requests : Named(r)})
  BY <1>1
<1>4. job' \in Requests /\ Named(job)' /\ job'.kind \in Kinds
  BY <1>2 DEF TakeRequest, Named, Requests
<1>5. pc' = FirstStep[job'.kind]
  BY DEF TakeRequest
<1>6. /\ pc' \in {"hash", "lookup", "check"}
      /\ pc' = "hash" => job'.kind = "register"
      /\ pc' = "lookup" => job'.kind = "login"
      /\ pc' = "check" => job'.kind = "resume"
  BY <1>4, <1>5 DEF FirstStep, Kinds
<1>7. queue' \in Seq({r \in Requests : Named(r)})
  BY <1>3 DEF TakeRequest
<1>8. StepInv'
  BY <1>4, <1>6, <1>7 DEF StepInv
<1>9. StoreInv'
  BY <1>6 DEF StoreInv, Inv, TakeRequest, db, Transactional
<1>10. QED
  BY <1>6, <1>8, <1>9 DEF Inv, Steps, TakeRequest

\* The requests that wait stay as they are while one is carried out.
LEMMA JobKeeps ==
  ASSUME StepInv, UNCHANGED <<queue, job>>, pc # "idle"
  PROVE  queue' \in Seq({r \in Requests : Named(r)}) /\ Named(job)'
BY DEF StepInv, Named

LEMMA StepsKeep ==
  ASSUME Inv, HashPassword \/ FindUser \/ CheckToken \/ TouchToken \/ StatementFails
  PROVE  Inv'
<1> USE DEF Go, asked, request
<1>0. UNCHANGED <<db, queue, job, requests>>
  BY DEF HashPassword, FindUser, CheckToken, TouchToken, StatementFails
<1>1. CASE HashPassword
  BY <1>0, <1>1, JobKeeps
     DEF HashPassword, Inv, StepInv, StoreInv, db, Steps, Transactional
<1>2. CASE FindUser
  BY <1>0, <1>2, JobKeeps
     DEF FindUser, Inv, StepInv, StoreInv, db, Steps, Transactional
<1>3. CASE CheckToken
  BY <1>0, <1>3, JobKeeps
     DEF CheckToken, GoodToken, Inv, StepInv, StoreInv, db, Steps, Transactional
<1>4. CASE TouchToken
  BY <1>0, <1>4, JobKeeps
     DEF TouchToken, Inv, StepInv, StoreInv, db, Steps, Transactional
<1>5. CASE StatementFails
  BY <1>0, <1>5, JobKeeps
     DEF StatementFails, Inv, StepInv, StoreInv, db, Steps, Transactional
<1>6. QED
  BY <1>1, <1>2, <1>3, <1>4, <1>5

LEMMA BeginKeeps == ASSUME Inv, BeginTransaction PROVE Inv'
<1> USE DEF Go, asked, request
<1>1. UNCHANGED <<disk, work, token, queue, job, requests>> /\ pc = "begin"
  BY DEF BeginTransaction, db
<1>2. \/ pc' = "fail" /\ tx' = tx
      \/ /\ pc' = IF job.kind = "register" THEN "insertUser" ELSE "revoke"
         /\ tx' = "open"
  BY DEF BeginTransaction, db
<1>3. QED
  BY <1>1, <1>2, JobKeeps DEF Inv, StepInv, StoreInv, Steps, Transactional

LEMMA StatementsKeep ==
  ASSUME Inv, InsertUser \/ RevokeTokens \/ InsertToken
  PROVE  Inv'
<1> USE DEF Write, asked, request
<1>0. UNCHANGED <<disk, tx, queue, job, requests>>
  BY DEF InsertUser, RevokeTokens, InsertToken
<1>1. CASE InsertUser
  <2>1. /\ pc = "insertUser" /\ pc' = "commit" /\ token' = token
        /\ job.user \notin work.users
        /\ work' = [work EXCEPT !.users = @ \cup {job.user}]
    BY <1>1 DEF InsertUser
  <2>2. job.kind = "register" /\ job.user \in User /\ work = disk
    BY <2>1 DEF Inv, StepInv, StoreInv, Named
  <2>3. work' \in Stores
    BY <2>1, <2>2 DEF Inv, StoreInv, Stores
  <2>4. QED
    BY <1>0, <2>1, <2>2, <2>3, JobKeeps DEF Inv, StepInv, StoreInv, Steps, Transactional
<1>2. CASE RevokeTokens
  <2>1. /\ pc = "revoke" /\ pc' = "insertToken" /\ token' = token
        /\ work' = [work EXCEPT !.valid = @ \ Given(work, job.user)]
    BY <1>2 DEF RevokeTokens
  <2>2. work = disk
    BY <2>1 DEF Inv, StoreInv
  <2>3. work' \in Stores
    BY <2>1, <2>2 DEF Inv, StoreInv, Stores
  <2>4. QED
    BY <1>0, <2>1, <2>2, <2>3, JobKeeps
       DEF Inv, StepInv, StoreInv, Steps, Transactional, Given
<1>3. CASE InsertToken
  <2>1. PICK t \in Token :
          /\ work.owner[t] = NoUser
          /\ Write("insertToken", [work EXCEPT !.owner[t] = job.user, !.valid = @ \cup {t}],
                   "commit")
          /\ token' = t
    BY <1>3 DEF InsertToken
  <2>2. /\ pc = "insertToken" /\ pc' = "commit"
        /\ work' = [work EXCEPT !.owner[t] = job.user, !.valid = @ \cup {t}]
    BY <2>1
  <2>3. /\ work = [disk EXCEPT !.valid = @ \ Given(disk, job.user)]
        /\ job.kind = "login" /\ job.user \in User /\ disk \in Stores
    BY <2>2 DEF Inv, StepInv, StoreInv, Named
  <2>4. /\ disk.owner[t] = NoUser
        /\ work' = [disk EXCEPT !.owner[t] = job.user,
                                !.valid = (@ \ Given(disk, job.user)) \cup {t}]
    BY <2>1, <2>2, <2>3 DEF Stores
  <2>5. work' \in Stores
    BY <2>3, <2>4 DEF Stores
  <2>6. QED
    BY <1>0, <2>1, <2>2, <2>3, <2>4, <2>5, JobKeeps
       DEF Inv, StepInv, StoreInv, Steps, Transactional, Given
<1>4. QED
  BY <1>1, <1>2, <1>3

LEMMA EndsKeep == ASSUME Inv, CommitTransaction \/ RollbackTransaction PROVE Inv'
<1> USE DEF asked, request
<1>0. UNCHANGED <<token, queue, job, requests>>
  BY DEF CommitTransaction, RollbackTransaction
<1>1. CASE CommitTransaction
  <2>1. /\ pc = "commit" /\ pc' = "ok" /\ tx' = "none"
        /\ disk' = work /\ work' = work
    BY <1>1 DEF CommitTransaction
  <2>2. job.kind \in {"register", "login"}
    BY <2>1 DEF Inv, StepInv
  <2>3. job.kind = "login" => token \in Token /\ work.owner[token] = job.user
    BY <2>1 DEF Inv, StoreInv, Stores
  <2>4. QED
    BY <1>0, <2>1, <2>2, <2>3, JobKeeps DEF Inv, StepInv, StoreInv, Steps, Transactional
<1>2. CASE RollbackTransaction
  BY <1>0, <1>2, JobKeeps
     DEF RollbackTransaction, Inv, StepInv, StoreInv, Steps, Transactional
<1>3. QED
  BY <1>1, <1>2

LEMMA AnswersKeep == ASSUME Inv, Answer \/ Crash PROVE Inv'
<1> USE DEF asked, request, db, Done
<1>1. CASE Answer
  <2>1. /\ pc' = "idle" /\ UNCHANGED <<db, queue, requests>>
        /\ pc \in {"ok", "fail"}
    BY <1>1 DEF Answer, AnswerLogin, AnswerSilently, AnswerFail
  <2>2. QED
    BY <2>1 DEF Inv, StepInv, StoreInv, Steps, Transactional
<1>2. CASE Crash
  <2>1. /\ pc' = "idle" /\ tx' = "none" /\ work' = disk /\ queue' = <<>>
        /\ UNCHANGED <<disk, token, requests>>
    BY <1>2 DEF Crash
  <2>2. queue' \in Seq({r \in Requests : Named(r)})
    BY <2>1
  <2>3. QED
    BY <2>1, <2>2 DEF Inv, StepInv, StoreInv, Steps, Transactional
<1>3. QED
  BY <1>1, <1>2

LEMMA InvStep == Inv /\ [Next]_vars => Inv'
<1> SUFFICES ASSUME Inv, [Next]_vars PROVE Inv'
  OBVIOUS
<1>1. ASSUME NEW s \in Session, NEW u \in User, C2S_Register(s, u) \/ C2S_Login(s, u)
      PROVE  Inv'
  BY <1>1, AskKeeps DEF C2S_Register, C2S_Login, Kinds
<1>2. ASSUME NEW s \in Session, NEW t \in Token, C2S_Resume(s, t) PROVE Inv'
  BY <1>2, AskKeeps DEF C2S_Resume, Kinds
<1>3. ASSUME UNCHANGED <<db, request, pc>> PROVE Inv'
  BY <1>3 DEF Inv, StepInv, StoreInv, db, request, asked, Named
<1>4. ASSUME NEW s \in Session, Disconnect(s) PROVE Inv'
  BY <1>3, <1>4 DEF Disconnect
<1>5. ASSUME NEW t \in Token, Expire(t) PROVE Inv'
  BY <1>3, <1>5 DEF Expire
<1>6. CASE RunDb
  BY <1>6, TakeRequestKeeps, StepsKeep, BeginKeeps, StatementsKeep, EndsKeep, AnswersKeep
     DEF RunDb, Transaction
<1>7. CASE UNCHANGED vars
  BY <1>3, <1>7 DEF vars
<1>8. QED
  BY <1>1, <1>2, <1>4, <1>5, <1>6, <1>7, AnswersKeep DEF Next, Packet

\* The transaction is open exactly while a request is in the middle of it, and
\* holds what the request has done so far.
THEOREM TransactionInv == SafeSpec => []Inv
BY InvInit, InvStep, PTL DEF SafeSpec

----------------------------------------------------------------------------
\* A step changes the file only as one whole registration or login.
LEMMA FileStep ==
  ASSUME Inv, [Next]_vars
  PROVE  [Ledger!Next]_(<<disk.users, disk.owner, disk.valid>>)
<1>1. CASE UNCHANGED disk
  BY <1>1
<1>2. CASE CommitTransaction
  <2>1. pc = "commit" /\ disk' = work
    BY <1>2 DEF CommitTransaction
  <2>2. job.user \in User /\ disk \in Stores /\ job.kind \in {"register", "login"}
    BY <2>1 DEF Inv, StepInv, StoreInv, Named
  <2>3. CASE job.kind = "register"
    <3>1. job.user \notin disk.users /\ disk' = [disk EXCEPT !.users = @ \cup {job.user}]
      BY <2>1, <2>3 DEF Inv, StoreInv
    <3>2. Ledger!Register(job.user)
      BY <2>2, <3>1 DEF Ledger!Register, Stores
    <3>3. QED
      BY <2>2, <3>2 DEF Ledger!Next
  <2>4. CASE job.kind = "login"
    <3>1. /\ token \in Token /\ disk.owner[token] = NoUser
          /\ disk' = [disk EXCEPT !.owner[token] = job.user,
                                  !.valid = (@ \ Given(disk, job.user)) \cup {token}]
          /\ job.user \in disk.users
      BY <2>1, <2>4 DEF Inv, StepInv, StoreInv
    <3>2. Ledger!Login(job.user, token)
      BY <2>2, <3>1 DEF Ledger!Login, Ledger!Given, Given, Stores
    <3>3. QED
      BY <2>2, <3>1, <3>2 DEF Ledger!Next
  <2>5. QED
    BY <2>2, <2>3, <2>4
<1>3. CommitTransaction \/ UNCHANGED disk
  BY DEF Next, Packet, C2S_Register, C2S_Login, C2S_Resume, Ask, Disconnect, Expire, Crash,
         RunDb, TakeRequest, HashPassword, FindUser, Transaction, CheckToken, TouchToken,
         Answer, BeginTransaction, InsertUser, RevokeTokens, InsertToken, StatementFails,
         RollbackTransaction, AnswerLogin, AnswerSilently, AnswerFail, Go, Write, db, vars
<1>4. QED
  BY <1>1, <1>2, <1>3

\* The transactions make AuthLedger's steps, whatever fails and whenever the
\* process dies.
THEOREM ImplementsLedgerHolds == SafeSpec => ImplementsLedger
<1>1. Init => Ledger!Init
  BY DEF Init, Ledger!Init, EmptyStore
<1>2. Inv /\ [Next]_vars => [Ledger!Next]_(<<disk.users, disk.owner, disk.valid>>)
  BY FileStep
<1>3. QED
  BY <1>1, <1>2, TransactionInv, PTL DEF SafeSpec, ImplementsLedger, Ledger!Spec

----------------------------------------------------------------------------
\* One step of the ledger leaves every user with one valid token, and gives no
\* token a second owner.
LEMMA LedgerKeeps ==
  ASSUME disk \in Stores, disk' \in Stores, OneValidToken,
         [Ledger!Next]_(<<disk.users, disk.owner, disk.valid>>)
  PROVE  /\ OneValidToken'
         /\ \A t \in Token : disk.owner[t] # NoUser => disk'.owner[t] = disk.owner[t]
<1> USE NullAssumption DEF Stores
<1>1. CASE UNCHANGED <<disk.users, disk.owner, disk.valid>>
  BY <1>1 DEF OneValidToken, Given
<1>2. ASSUME NEW u \in User, Ledger!Register(u)
      PROVE  disk'.owner = disk.owner /\ disk'.valid = disk.valid
  BY <1>2 DEF Ledger!Register
<1>3. ASSUME NEW u \in User, NEW t \in Token, Ledger!Login(u, t)
      PROVE  /\ OneValidToken'
             /\ \A k \in Token : disk.owner[k] # NoUser => disk'.owner[k] = disk.owner[k]
  <2>1. /\ disk.owner[t] = NoUser
        /\ disk'.owner = [disk.owner EXCEPT ![t] = u]
        /\ disk'.valid = (disk.valid \ Given(disk, u)) \cup {t}
    BY <1>3 DEF Ledger!Login, Ledger!Given, Given
  <2>2. Given(disk, u)' = Given(disk, u) \cup {t}
    BY <2>1 DEF Given
  <2>3. disk'.valid \cap Given(disk, u)' = {t}
    BY <2>1, <2>2 DEF Given
  <2>4. ASSUME NEW v \in User, v # u
        PROVE  Given(disk, v)' = Given(disk, v) /\ t \notin Given(disk, v)
    BY <2>1, <2>4 DEF Given
  <2>5. ASSUME NEW v \in User, v # u
        PROVE  disk'.valid \cap Given(disk, v)' = disk.valid \cap Given(disk, v)
    BY <2>1, <2>4, <2>5 DEF Given
  <2>6. OneValidToken'
    <3> SUFFICES ASSUME NEW v \in User, Given(disk, v)' # {}
                 PROVE  \E k \in Token : disk'.valid \cap Given(disk, v)' = {k}
      BY DEF OneValidToken
    <3>1. CASE v = u
      BY <2>3, <3>1
    <3>2. CASE v # u
      BY <2>4, <2>5, <3>2 DEF OneValidToken
    <3>3. QED
      BY <3>1, <3>2
  <2>7. QED
    BY <2>1, <2>6
<1>4. QED
  BY <1>1, <1>2, <1>3 DEF Ledger!Next, OneValidToken, Given

\* The tokens that answers have named, and their owners.
ToldInv == /\ told \subseteq [user : User, token : Token]
           /\ \A a \in told : disk.owner[a.token] = a.user

LEMMA ToldStep ==
  ASSUME Inv, [Next]_vars, ToldInv,
         \A t \in Token : disk.owner[t] # NoUser => disk'.owner[t] = disk.owner[t]
  PROVE  ToldInv'
<1> USE NullAssumption
<1>1. CASE UNCHANGED told
  BY <1>1 DEF ToldInv
<1>2. CASE AnswerLogin
  <2>1. /\ pc = "ok" /\ job.kind = "login" /\ disk' = disk
        /\ told' = told \cup {[user |-> job.user, token |-> token]}
    BY <1>2 DEF AnswerLogin, db
  <2>2. job.user \in User /\ token \in Token /\ disk.owner[token] = job.user
    BY <2>1 DEF Inv, StepInv, StoreInv, Named
  <2>3. QED
    BY <2>1, <2>2 DEF ToldInv
<1>3. AnswerLogin \/ UNCHANGED told
  BY DEF Next, Packet, C2S_Register, C2S_Login, C2S_Resume, Ask, Disconnect, Expire, Crash,
         RunDb, TakeRequest, HashPassword, FindUser, Transaction, CheckToken, TouchToken,
         Answer, BeginTransaction, InsertUser, RevokeTokens, InsertToken, StatementFails,
         CommitTransaction, RollbackTransaction, AnswerSilently, AnswerFail, Go, Write,
         outcome, vars
<1>4. QED
  BY <1>1, <1>2, <1>3

TokensInv == OneValidToken /\ ToldInv

LEMMA TokensStep == Inv /\ Inv' /\ TokensInv /\ [Next]_vars => TokensInv'
<1> SUFFICES ASSUME Inv, Inv', TokensInv, [Next]_vars PROVE TokensInv'
  OBVIOUS
<1>1. disk \in Stores /\ disk' \in Stores
  BY DEF Inv, StoreInv
<1>2. QED
  BY <1>1, FileStep, LedgerKeeps, ToldStep DEF TokensInv

LEMMA TokensAlways == SafeSpec => []TokensInv
<1>1. Init => TokensInv
  BY NullAssumption DEF Init, TokensInv, OneValidToken, ToldInv, EmptyStore, Given
<1>2. QED
  BY <1>1, TokensStep, TransactionInv, PTL DEF SafeSpec

\* A user who has ever logged in has one valid token.
THEOREM OneValidTokenHolds == SafeSpec => []OneValidToken
BY TokensAlways, PTL DEF TokensInv

\* What a login answer said is in the file and stays there; the token is valid
\* until another of the same user takes its place.
THEOREM AnsweredIsCommittedHolds == SafeSpec => []AnsweredIsCommitted
<1>1. TokensInv => AnsweredIsCommitted
  <2> SUFFICES ASSUME TokensInv, NEW a \in told
               PROVE  /\ disk.owner[a.token] = a.user
                      /\ disk.valid \cap Given(disk, a.user) # {}
    BY DEF AnsweredIsCommitted
  <2>1. a.user \in User /\ a.token \in Token /\ disk.owner[a.token] = a.user
    BY DEF TokensInv, ToldInv
  <2>2. Given(disk, a.user) # {}
    BY <2>1 DEF Given
  <2>3. QED
    BY <2>1, <2>2 DEF TokensInv, OneValidToken
<1>2. QED
  BY <1>1, TokensAlways, PTL

----------------------------------------------------------------------------
UserInv == userOf \in [Session -> User \cup {NoUser}]

\* What a step does to the sessions' users.
LEMMA UserStep ==
  ASSUME Inv, UserInv, [Next]_vars
  PROVE  /\ UserInv'
         /\ \A s \in Session : userOf'[s] # userOf[s] =>
              \/ userOf'[s] = NoUser
              \/ job.token \in disk.valid /\ disk.owner[job.token] = userOf'[s]
<1>1. CASE UNCHANGED userOf
  BY <1>1 DEF UserInv
<1>2. CASE AnswerLogin \/ Crash
  BY <1>2 DEF AnswerLogin, Crash, SessionOfJob, UserInv
<1>3. CASE AnswerSilently
  <2>1. CASE job.kind = "resume"
    <3>1. pc = "ok" /\ userOf' = [userOf EXCEPT ![job.session] = work.owner[job.token]]
      BY <1>3, <2>1 DEF AnswerSilently, SessionOfJob
    <3>2. /\ job.token \in Token /\ job.token \in disk.valid
          /\ work = disk /\ disk \in Stores
      BY <2>1, <3>1 DEF Inv, StepInv, StoreInv, Named, Transactional
    <3>3. disk.owner[job.token] \in User \cup {NoUser}
      BY <3>2 DEF Stores
    <3>4. QED
      BY <3>1, <3>2, <3>3 DEF UserInv
  <2>2. CASE job.kind # "resume"
    BY <1>3, <2>2 DEF AnswerSilently, UserInv
  <2>3. QED
    BY <2>1, <2>2
<1>4. AnswerLogin \/ Crash \/ AnswerSilently \/ UNCHANGED userOf
  BY DEF Next, Packet, C2S_Register, C2S_Login, C2S_Resume, Ask, Disconnect, Expire,
         RunDb, TakeRequest, HashPassword, FindUser, Transaction, CheckToken, TouchToken,
         Answer, BeginTransaction, InsertUser, RevokeTokens, InsertToken, StatementFails,
         CommitTransaction, RollbackTransaction, AnswerFail, Go, Write, vars
<1>5. QED
  BY <1>1, <1>2, <1>3, <1>4

\* A session takes on a user only for that user's valid token.
THEOREM ActsForTokenOwnerHolds == SafeSpec => ActsForTokenOwner
<1> DEFINE Acts == \A s \in Session : userOf'[s] # userOf[s] =>
                     \/ userOf'[s] = NoUser
                     \/ job.token \in disk.valid /\ disk.owner[job.token] = userOf'[s]
<1>1. Init => UserInv
  BY DEF Init, UserInv
<1>2. Inv /\ UserInv /\ [Next]_vars => UserInv' /\ [Acts]_vars
  BY UserStep
<1>3. QED
  BY <1>1, <1>2, TransactionInv, PTL DEF SafeSpec, ActsForTokenOwner
=============================================================================
