------------------------- MODULE UserAccountProofs -------------------------
(***************************************************************************)
(* Theorems about UserAccount for any users, slots, mails and faults.      *)
(***************************************************************************)
EXTENDS UserAccount, TLAPS

USE DEF accountVars, mailVars, requestVars, workerFrame

-----------------------------------------------------------------------------
(* Types.  A mail is handed over with its token, and a request carries what *)
(* its place needs.                                                        *)

MailInv ==
  /\ Len(mails) <= MaxMails
  /\ \A t \in Index : mail[t] # "none" <=> t <= Len(mails)

RequestInv ==
  \A q \in Request :
    /\ place[q] = "free" <=> about[q] = None
    /\ place[q] = "register" => about[q].purpose = "verify"
    /\ place[q] = "remember" => \E t \in Issued : mails[t] = about[q]
    /\ place[q] \in {"list", "create", "save"} => about[q].purpose = "customer"
    /\ place[q] = "save" => holds[q] \in 1..customers[about[q].user]

UserInv == TypeOK /\ MailInv /\ RequestInv

\* A message on the queue has a token.
LEMMA HandedIsIssued ==
  ASSUME UserInv
  PROVE  Handed = Issued
  BY UserAssumption DEF UserInv, TypeOK, MailInv, Handed, Issued, Index, UserAssumption

\* None is no job.
LEMMA NoneIsNoJob == None \notin Job
  BY UserAssumption DEF UserAssumption, Job

\* A step that leaves the tables, the mails and the keys alone keeps the
\* invariant when it keeps what the requests carry.
LEMMA RequestTyping ==
  ASSUME UserInv, NEW q \in Request, NEW p \in {"register", "cooldown", "issue", "list", "create"},
         NEW j \in Job,
         place' = [place EXCEPT ![q] = p],
         about' = [about EXCEPT ![q] = j],
         p = "register" => j.purpose = "verify",
         p \in {"list", "create"} => j.purpose = "customer",
         holds' \in [Request -> Nat],
         \A r \in Request \ {q} : holds'[r] = holds[r],
         raced' \subseteq Job,
         UNCHANGED <<accountVars, customers, mailVars, cooldown, connected, faults>>
  PROVE  UserInv'
  <1>1. j # None
    BY NoneIsNoJob
  <1>2. TypeOK'
    BY DEF UserInv, TypeOK, Handed, Issued
  <1>3. MailInv'
    BY DEF UserInv, MailInv
  <1>4. RequestInv'
    <2>1. /\ about'[q] = j /\ place'[q] = p
          /\ \A r \in Request \ {q} :
               about'[r] = about[r] /\ place'[r] = place[r] /\ holds'[r] = holds[r]
          /\ mails' = mails /\ customers' = customers /\ Issued' = Issued
      BY DEF UserInv, TypeOK, Issued
    <2>2. ASSUME NEW r \in Request \ {q}
          PROVE  /\ place'[r] = "free" <=> about'[r] = None
                 /\ place'[r] = "register" => about'[r].purpose = "verify"
                 /\ place'[r] = "remember" => \E t \in Issued' : mails'[t] = about'[r]
                 /\ place'[r] \in {"list", "create", "save"} => about'[r].purpose = "customer"
                 /\ place'[r] = "save" => holds'[r] \in 1..customers'[about'[r].user]
      BY <2>1 DEF UserInv, RequestInv
    <2> QED
      BY <1>1, <2>1, <2>2 DEF RequestInv
  <1> QED
    BY <1>2, <1>3, <1>4 DEF UserInv

\* A request that ends carries nothing.
LEMMA FinishTyping ==
  ASSUME UserInv, NEW q \in Request, Finish(q),
         UNCHANGED <<customerId, mailVars, cooldown, connected, raced>>,
         faults' \in 0..MaxFaults,
         customers' \in [User -> Nat],
         \A u \in User : customers[u] <= customers'[u],
         account' \in [User -> {"none", "unverified", "verified"}],
         \A u \in User : account'[u] = "verified" => account[u] = "verified"
  PROVE  UserInv'
  <1>1. TypeOK'
    BY DEF UserInv, TypeOK, Handed, Issued, Finish, GoTo
  <1>2. MailInv'
    BY DEF UserInv, MailInv
  <1>3. RequestInv'
    <2> SUFFICES ASSUME NEW r \in Request
                 PROVE  /\ place'[r] = "free" <=> about'[r] = None
                        /\ place'[r] = "register" => about'[r].purpose = "verify"
                        /\ place'[r] = "remember" => \E t \in Issued : mails[t] = about'[r]
                        /\ place'[r] \in {"list", "create", "save"} =>
                             about'[r].purpose = "customer"
                        /\ place'[r] = "save" => holds'[r] \in 1..customers'[about'[r].user]
      BY DEF RequestInv, Issued
    <2>1. CASE r = q
      BY <2>1 DEF UserInv, TypeOK, Finish, GoTo
    <2>2. CASE r # q
      <3>1. /\ place'[r] = place[r] /\ about'[r] = about[r] /\ holds'[r] = holds[r]
        BY <2>2 DEF UserInv, TypeOK, Finish, GoTo
      <3>2. place[r] = "save" => customers[about[r].user] \in Nat
                                 /\ customers'[about[r].user] \in Nat
                                 /\ customers[about[r].user] <= customers'[about[r].user]
        <4> SUFFICES ASSUME place[r] = "save" PROVE about[r].user \in User
          BY DEF UserInv, TypeOK
        <4>1. about[r] \in Job
          BY DEF UserInv, TypeOK, RequestInv
        <4> QED
          BY <4>1 DEF Job
      <3> QED
        BY <3>1, <3>2 DEF UserInv, TypeOK, RequestInv
    <2> QED
      BY <2>1, <2>2
  <1> QED
    BY <1>1, <1>2, <1>3 DEF UserInv

\* What a request that goes on to its next await carries.
LEMMA GoOnTyping ==
  ASSUME UserInv, NEW q \in Request, NEW p \in {"issue", "create", "save", "remember"},
         place[q] # "free",
         GoTo(q, p),
         about' = about,
         p = "remember" => \E t \in 1..Len(mails)' : mails'[t] = about[q],
         p \in {"create", "save"} => about[q].purpose = "customer",
         p = "save" => holds'[q] \in 1..customers'[about[q].user],
         holds' \in [Request -> Nat],
         \A r \in Request \ {q} : holds'[r] = holds[r],
         customers' \in [User -> Nat],
         \A u \in User : customers[u] <= customers'[u],
         mails' \in Seq(Job),
         Len(mails) <= Len(mails)',
         \A t \in Issued : mails'[t] = mails[t]
  PROVE  RequestInv'
  <1> SUFFICES ASSUME NEW r \in Request
               PROVE  /\ place'[r] = "free" <=> about'[r] = None
                      /\ place'[r] = "register" => about'[r].purpose = "verify"
                      /\ place'[r] = "remember" => \E t \in Issued' : mails'[t] = about'[r]
                      /\ place'[r] \in {"list", "create", "save"} =>
                           about'[r].purpose = "customer"
                      /\ place'[r] = "save" => holds'[r] \in 1..customers'[about'[r].user]
    BY DEF RequestInv, Issued
  <1>1. CASE r = q
    BY <1>1 DEF UserInv, TypeOK, RequestInv, GoTo, Issued
  <1>2. CASE r # q
    <2>1. place'[r] = place[r] /\ about'[r] = about[r] /\ holds'[r] = holds[r]
      BY <1>2 DEF UserInv, TypeOK, GoTo
    <2>2. place[r] = "save" => /\ customers[about[r].user] \in Nat
                               /\ customers'[about[r].user] \in Nat
                               /\ customers[about[r].user] <= customers'[about[r].user]
      <3> SUFFICES ASSUME place[r] = "save" PROVE about[r].user \in User
        BY DEF UserInv, TypeOK
      <3>1. about[r] \in Job
        BY DEF UserInv, TypeOK, RequestInv
      <3> QED
        BY <3>1 DEF Job
    <2>3. place[r] = "remember" => \E t \in Issued' : mails'[t] = about[r]
      <3> SUFFICES ASSUME place[r] = "remember" PROVE \E t \in Issued' : mails'[t] = about[r]
        OBVIOUS
      <3>1. PICK t \in Issued : mails[t] = about[r]
        BY DEF UserInv, RequestInv
      <3>2. Len(mails) \in Nat /\ Len(mails)' \in Nat
        BY DEF UserInv, TypeOK
      <3>3. t \in Issued' /\ mails'[t] = about[r]
        BY <3>1, <3>2 DEF Issued
      <3> QED
        BY <3>3
    <2> QED
      BY <2>1, <2>2, <2>3 DEF UserInv, TypeOK, RequestInv
  <1> QED
    BY <1>1, <1>2

\* A token is issued with its mail.
LEMMA IssueTyping ==
  ASSUME UserInv, NEW q \in Request, place[q] = "issue",
         NEW where \in {"queued", "lost"}, Issue(q, where),
         UNCHANGED <<accountVars, customers, cooldown, connected, raced>>,
         faults' \in 0..MaxFaults
  PROVE  UserInv'
  <1> DEFINE n == Len(mails) + 1
  <1>1. about[q] \in Job
    BY DEF UserInv, TypeOK, RequestInv
  <1>2. Len(mails) \in Nat /\ n \in Index
    BY UserAssumption DEF UserInv, TypeOK, Issue, Index, UserAssumption
  <1>3. /\ mails' \in Seq(Job) /\ Len(mails') = n
        /\ \A t \in Issued : mails'[t] = mails[t]
        /\ mails'[n] = about[q]
    BY <1>1, <1>2 DEF UserInv, TypeOK, Issue, Issued
  <1>4. MailInv'
    BY <1>2, <1>3 DEF UserInv, TypeOK, MailInv, Issue, Index
  <1>5. \A t \in Handed : t \in Handed' /\ mails'[t] = mails[t]
    BY <1>2, <1>3 DEF UserInv, TypeOK, Handed, Issued, Issue, Index
  <1>6. TypeOK'
    <2>1. /\ token' \in [Index -> {"none", "live", "expired", "used"}]
          /\ mail' \in [Index -> {"none", "queued", "sending", "sent", "lost"}]
          /\ place' \in [Request -> {"free", "register", "cooldown", "issue", "remember",
                                     "list", "create", "save"}]
      BY <1>2 DEF UserInv, TypeOK, Issue, GoTo
    <2>2. inbox' \subseteq Handed'
      BY <1>5 DEF UserInv, TypeOK, Issue
    <2>3. \A j \in Job : cooldown'[j] # 0 =>
            \E t \in Handed' : mails'[t] = j /\ t <= cooldown'[j]
      BY <1>5 DEF UserInv, TypeOK
    <2>4. \A u \in User : account'[u] = "verified" =>
            \E t \in inbox' : mails'[t] = [user |-> u, purpose |-> "verify"]
      <3> SUFFICES ASSUME NEW u \in User, account'[u] = "verified"
                   PROVE  \E t \in inbox' : mails'[t] = [user |-> u, purpose |-> "verify"]
        OBVIOUS
      <3>1. PICK t \in inbox : mails[t] = [user |-> u, purpose |-> "verify"]
        BY DEF UserInv, TypeOK
      <3>2. t \in Handed /\ inbox' = inbox
        BY DEF UserInv, TypeOK, Issue
      <3>3. mails'[t] = [user |-> u, purpose |-> "verify"]
        BY <1>5, <3>1, <3>2
      <3> QED
        BY <3>2, <3>3
    <2> QED
      BY <1>3, <2>1, <2>2, <2>3, <2>4 DEF UserInv, TypeOK, Issue
  <1>7. RequestInv'
    <2>1. /\ GoTo(q, "remember") /\ about' = about /\ holds' = holds
          /\ holds \in [Request -> Nat] /\ customers' \in [User -> Nat]
          /\ \A u \in User : customers[u] <= customers'[u]
      BY DEF Issue, UserInv, TypeOK
    <2>2. n \in 1..Len(mails)' /\ Len(mails) <= Len(mails)'
      BY <1>2, <1>3
    <2>3. \E t \in 1..Len(mails)' : mails'[t] = about[q]
      BY <1>3, <2>2
    <2> QED
      BY <1>3, <2>1, <2>2, <2>3, GoOnTyping
  <1> QED
    BY <1>4, <1>6, <1>7 DEF UserInv

\* A request that goes on and leaves the rows alone.
LEMMA OnlyGoOnTyping ==
  ASSUME UserInv, NEW q \in Request, place[q] # "free", GoTo(q, "issue"),
         UNCHANGED <<about, holds, customerId, customers, mailVars, cooldown, connected,
                     raced, faults>>,
         account' \in [User -> {"none", "unverified", "verified"}],
         \A u \in User : account'[u] = "verified" => account[u] = "verified"
  PROVE  UserInv'
  <1>1. TypeOK'
    BY DEF UserInv, TypeOK, GoTo, Handed, Issued
  <1>2. mails \in Seq(Job) /\ customers \in [User -> Nat] /\ holds \in [Request -> Nat]
        /\ Len(mails) \in Nat
    BY DEF UserInv, TypeOK
  <1>3. RequestInv'
    BY <1>2, GoOnTyping
  <1> QED
    BY <1>1, <1>3 DEF UserInv, MailInv

\* Every await of a request keeps the invariant.
LEMMA RequestStepTyping ==
  ASSUME UserInv, NEW q \in Request, RequestStep(q)
  PROVE  UserInv'
  <1>1. ASSUME NEW u \in User, SignUp(q, u) \/ ResendVerifyEmail(q, u)
                 \/ RequestPasswordReset(q, u) \/ GetStripeCustomerId(q, u)
        PROVE  UserInv'
    <2>1. PICK purpose \in {"verify", "reset", "customer"},
               next \in {"register", "cooldown", "list"} :
            /\ Start(q, u, purpose, next)
            /\ next = "register" => purpose = "verify"
            /\ next = "list" => purpose = "customer"
      BY <1>1 DEF SignUp, ResendVerifyEmail, RequestPasswordReset, GetStripeCustomerId
    <2> DEFINE j == [user |-> u, purpose |-> purpose]
    <2>2. j \in Job /\ j.purpose = purpose
      BY DEF Job
    <2> QED
      BY <2>1, <2>2, RequestTyping DEF Start, GoTo, UserInv, TypeOK
  <1>2. CASE Register(q)
    <2>1. place[q] # "free" /\ WhoseOf(q) \in User
      BY <1>2 DEF Register, UserInv, TypeOK, RequestInv, WhoseOf, Job
    <2>2. account \in [User -> {"none", "unverified", "verified"}]
          /\ customers \in [User -> Nat] /\ faults \in 0..MaxFaults
      BY DEF UserInv, TypeOK
    <2>3. CASE account[WhoseOf(q)] = "none"
      <3>1. /\ GoTo(q, "issue")
            /\ account' = [account EXCEPT ![WhoseOf(q)] = "unverified"]
            /\ UNCHANGED <<about, holds, customerId, customers, mailVars, cooldown,
                           connected, raced, faults>>
        BY <1>2, <2>3 DEF Register
      <3>2. /\ account' \in [User -> {"none", "unverified", "verified"}]
            /\ \A u \in User : account'[u] = "verified" => account[u] = "verified"
        BY <3>1, <2>2
      <3> QED
        BY <3>1, <3>2, <2>1, OnlyGoOnTyping
    <2>4. CASE account[WhoseOf(q)] # "none"
      <3>1. /\ Finish(q)
            /\ UNCHANGED <<account, customerId, customers, mailVars, cooldown, connected,
                           raced, faults>>
        BY <1>2, <2>4 DEF Register
      <3>2. \A u \in User : customers[u] <= customers'[u]
        BY <3>1, <2>2
      <3> QED
        BY <3>1, <3>2, <2>2, FinishTyping
    <2> QED
      BY <2>3, <2>4
  <1>3. CASE CheckCooldown(q)
    <2>1. account \in [User -> {"none", "unverified", "verified"}]
          /\ customers \in [User -> Nat] /\ faults \in 0..MaxFaults
      BY DEF UserInv, TypeOK
    <2>2. CASE cooldown[about[q]] = 0
      <3>1. /\ GoTo(q, "issue") /\ place[q] # "free"
            /\ UNCHANGED <<accountVars, about, holds, customers, mailVars, cooldown,
                           connected, raced, faults>>
        BY <1>3, <2>2 DEF CheckCooldown
      <3> QED
        BY <3>1, <2>1, OnlyGoOnTyping
    <2>3. CASE cooldown[about[q]] # 0
      <3>1. /\ Finish(q)
            /\ UNCHANGED <<accountVars, customers, mailVars, cooldown, connected, raced, faults>>
        BY <1>3, <2>3 DEF CheckCooldown
      <3>2. \A u \in User : customers[u] <= customers'[u]
        BY <3>1, <2>1
      <3> QED
        BY <3>1, <3>2, <2>1, FinishTyping
    <2> QED
      BY <2>2, <2>3
  <1>4. CASE SendEmail(q)
    <2>1. CASE connected
      <3>1. Issue(q, "queued") /\ UNCHANGED <<accountVars, customers, cooldown, connected, raced, faults>>
        BY <1>4, <2>1 DEF SendEmail
      <3> QED
        BY <1>4, <3>1, IssueTyping DEF SendEmail, UserInv, TypeOK
    <2>2. CASE ~connected
      <3>1. /\ Finish(q)
            /\ UNCHANGED <<accountVars, customers, mailVars, cooldown, connected, raced, faults>>
        BY <1>4, <2>2 DEF SendEmail, NoChannel
      <3>2. /\ customers \in [User -> Nat] /\ faults \in 0..MaxFaults
            /\ account \in [User -> {"none", "unverified", "verified"}]
        BY DEF UserInv, TypeOK
      <3>3. \A u \in User : customers[u] <= customers'[u]
        BY <3>1, <3>2
      <3> QED
        BY <3>1, <3>2, <3>3, FinishTyping
    <2> QED
      BY <2>1, <2>2
  <1>5. CASE SetCooldown(q)
    <2>1. Finish(q) /\ cooldown' = [cooldown EXCEPT ![about[q]] = Len(mails)]
      BY <1>5 DEF SetCooldown
    <2>2. PICK t \in Issued : mails[t] = about[q]
      BY <1>5 DEF SetCooldown, UserInv, RequestInv
    <2>3. /\ Len(mails) \in Nat /\ t <= Len(mails) /\ t \in Handed
      BY <2>2, HandedIsIssued DEF UserInv, TypeOK, Issued
    <2>4. /\ UNCHANGED <<accountVars, customers, mailVars, connected, raced, faults>>
          /\ about[q] \in Job
      BY <1>5 DEF SetCooldown, UserInv, TypeOK, RequestInv
    <2>5. cooldown \in [Job -> Nat] /\ cooldown' \in [Job -> Nat]
      BY <2>1, <2>3 DEF UserInv, TypeOK
    <2>6. Handed' = Handed
      BY <2>4 DEF Handed, Issued
    <2>7. \A j \in Job : cooldown'[j] # 0 =>
            \E s \in Handed' : mails'[s] = j /\ s <= cooldown'[j]
      <3> SUFFICES ASSUME NEW j \in Job, cooldown'[j] # 0
                   PROVE  \E s \in Handed : mails[s] = j /\ s <= cooldown'[j]
        BY <2>4, <2>6
      <3>1. CASE j = about[q]
        BY <2>1, <2>2, <2>3, <2>5, <3>1
      <3>2. CASE j # about[q]
        <4>1. cooldown'[j] = cooldown[j]
          BY <2>1, <2>5, <3>2
        <4> QED
          BY <4>1 DEF UserInv, TypeOK
      <3> QED
        BY <3>1, <3>2
    <2>8. TypeOK'
      BY <2>1, <2>4, <2>5, <2>6, <2>7 DEF Finish, GoTo, UserInv, TypeOK
    <2>9. RequestInv' /\ MailInv'
      BY <1>5, <2>1 DEF SetCooldown, Finish, GoTo, UserInv, TypeOK, RequestInv, MailInv, Issued
    <2> QED
      BY <2>8, <2>9 DEF UserInv
  <1>6. CASE ListCustomers(q)
    <2>1. about[q] \in Job /\ WhoseOf(q) \in User
      BY <1>6 DEF ListCustomers, UserInv, TypeOK, RequestInv, WhoseOf, Job
    <2>2. TypeOK' /\ MailInv'
      BY <1>6, <2>1 DEF ListCustomers, GoTo, UserInv, TypeOK, MailInv, Handed, Issued
    <2>3. RequestInv'
      <3>1. /\ place[q] = "list" /\ about[q].purpose = "customer"
            /\ customers \in [User -> Nat] /\ holds \in [Request -> Nat]
            /\ mails \in Seq(Job) /\ Len(mails) \in Nat
        BY <1>6 DEF ListCustomers, UserInv, TypeOK, RequestInv
      <3>2. /\ UNCHANGED <<about, customers, mails>>
            /\ holds' = [holds EXCEPT ![q] = customers[WhoseOf(q)]]
            /\ GoTo(q, IF customers[WhoseOf(q)] = 0 THEN "create" ELSE "save")
        BY <1>6 DEF ListCustomers
      <3>3. /\ holds' \in [Request -> Nat]
            /\ \A r \in Request \ {q} : holds'[r] = holds[r]
            /\ \A u \in User : customers[u] <= customers'[u]
        BY <2>1, <3>1, <3>2
      <3>4. CASE customers[WhoseOf(q)] = 0
        <4>1. GoTo(q, "create")
          BY <3>2, <3>4
        <4> QED
          BY <3>1, <3>2, <3>3, <4>1, GoOnTyping
      <3>5. CASE customers[WhoseOf(q)] # 0
        <4>1. GoTo(q, "save")
          BY <3>2, <3>5
        <4>2. holds'[q] \in 1..customers'[about[q].user]
          BY <2>1, <3>1, <3>2, <3>5 DEF WhoseOf
        <4> QED
          BY <3>1, <3>2, <3>3, <4>1, <4>2, GoOnTyping
      <3> QED
        BY <3>4, <3>5
    <2> QED
      BY <2>2, <2>3 DEF UserInv
  <1>7. CASE CreateCustomer(q)
    <2>1. about[q] \in Job /\ WhoseOf(q) \in User
      BY <1>7 DEF CreateCustomer, UserInv, TypeOK, RequestInv, WhoseOf, Job
    <2>2. TypeOK' /\ MailInv'
      BY <1>7, <2>1 DEF CreateCustomer, Created, GoTo, UserInv, TypeOK, MailInv, Handed, Issued
    <2>3. holds'[q] \in 1..customers'[about[q].user]
      BY <1>7, <2>1 DEF CreateCustomer, Created, UserInv, TypeOK, WhoseOf
    <2>4. RequestInv'
      <3>1. /\ place[q] = "create" /\ about[q].purpose = "customer"
            /\ mails \in Seq(Job) /\ Len(mails) \in Nat
            /\ UNCHANGED <<about, mails>> /\ GoTo(q, "save")
        BY <1>7 DEF CreateCustomer, UserInv, TypeOK, RequestInv
      <3>2. /\ holds' \in [Request -> Nat]
            /\ \A r \in Request \ {q} : holds'[r] = holds[r]
            /\ customers' \in [User -> Nat]
            /\ \A u \in User : customers[u] <= customers'[u]
        BY <1>7, <2>1 DEF CreateCustomer, Created, UserInv, TypeOK
      <3> QED
        BY <2>3, <3>1, <3>2, GoOnTyping
    <2> QED
      BY <2>2, <2>4 DEF UserInv
  <1>8. CASE SaveCustomer(q)
    <2>1. about[q] \in Job /\ WhoseOf(q) \in User /\ holds[q] \in 1..customers[WhoseOf(q)]
      BY <1>8 DEF SaveCustomer, UserInv, TypeOK, RequestInv, WhoseOf, Job
    <2>2. TypeOK'
      BY <1>8, <2>1 DEF SaveCustomer, Finish, GoTo, UserInv, TypeOK, Handed, Issued
    <2>3. RequestInv' /\ MailInv'
      BY <1>8, <2>1 DEF SaveCustomer, Finish, GoTo, UserInv, TypeOK, RequestInv, MailInv, Issued
    <2> QED
      BY <2>2, <2>3 DEF UserInv
  <1>9. CASE RequestFails(q)
    <2>1. about[q] \in Job /\ WhoseOf(q) \in User
      BY <1>9 DEF RequestFails, UserInv, TypeOK, RequestInv, WhoseOf, Job
    <2>2. faults' \in 0..MaxFaults
      BY <1>9, UserAssumption DEF RequestFails, Fault, UserInv, TypeOK, UserAssumption
    <2>3. /\ customers' \in [User -> Nat]
          /\ \A u \in User : customers[u] <= customers'[u]
      <3>1. customers \in [User -> Nat]
        BY DEF UserInv, TypeOK
      <3>2. \/ customers' = customers
            \/ customers' = [customers EXCEPT ![WhoseOf(q)] = @ + 1]
        BY <1>9 DEF RequestFails, Created
      <3> QED
        BY <2>1, <3>1, <3>2
    <2>4. /\ account' \in [User -> {"none", "unverified", "verified"}]
          /\ \A u \in User : account'[u] = "verified" => account[u] = "verified"
      <3>1. account \in [User -> {"none", "unverified", "verified"}]
        BY DEF UserInv, TypeOK
      <3>2. \/ account' = account
            \/ account[WhoseOf(q)] = "none" /\ account' = [account EXCEPT ![WhoseOf(q)] = "unverified"]
        BY <1>9 DEF RequestFails
      <3> QED
        BY <2>1, <3>1, <3>2
    <2>5. Finish(q) /\ UNCHANGED <<customerId, mailVars, cooldown, connected, raced>>
      BY <1>9 DEF RequestFails
    <2> QED
      BY <2>2, <2>3, <2>4, <2>5, FinishTyping
  <1> QED
    BY <1>1, <1>2, <1>3, <1>4, <1>5, <1>6, <1>7, <1>8, <1>9 DEF RequestStep

\* The connection and the worker.
LEMMA WorkerTyping ==
  ASSUME UserInv,
         UNCHANGED <<customerId, customers, mails, cooldown, raced>>,
         token' \in [Index -> {"none", "live", "expired", "used"}],
         mail' \in [Index -> {"none", "queued", "sending", "sent", "lost"}],
         \A t \in Index : mail'[t] = "none" <=> mail[t] = "none",
         inbox \subseteq inbox', inbox' \subseteq Handed,
         account' \in [User -> {"none", "unverified", "verified"}],
         \A u \in User : account'[u] = "verified" => 
           account[u] = "verified" \/
           \E t \in inbox : mails[t] = [user |-> u, purpose |-> "verify"],
         connected' \in BOOLEAN, faults' \in 0..MaxFaults,
         \/ UNCHANGED requestVars
         \/ /\ place' = [q \in Request |-> "free"]
            /\ about' = [q \in Request |-> None]
            /\ holds' = [q \in Request |-> 0]
  PROVE  UserInv'
  <1>1. Handed' = Handed
    <2>1. Issued' = Issued
      BY DEF Issued
    <2>2. Len(mails) \in Nat /\ Len(mails) <= MaxMails /\ MaxMails \in Nat
      BY UserAssumption DEF UserInv, TypeOK, MailInv, UserAssumption
    <2>3. Issued \subseteq Index
      BY <2>2 DEF Issued, Index
    <2> QED
      BY <2>1, <2>3 DEF Handed
  <1>2. \A u \in User : account'[u] = "verified" =>
          \E t \in inbox' : mails'[t] = [user |-> u, purpose |-> "verify"]
    BY DEF UserInv, TypeOK
  <1>3. /\ place' \in [Request -> {"free", "register", "cooldown", "issue", "remember",
                                   "list", "create", "save"}]
        /\ about' \in [Request -> Job \cup {None}]
        /\ holds' \in [Request -> Nat]
    BY DEF UserInv, TypeOK
  <1>4. TypeOK'
    BY <1>1, <1>2, <1>3 DEF UserInv, TypeOK
  <1>5. MailInv'
    BY DEF UserInv, MailInv
  <1>6. RequestInv'
    <2>1. CASE UNCHANGED requestVars
      BY <2>1 DEF UserInv, RequestInv, Issued
    <2>2. CASE place' = [q \in Request |-> "free"] /\ about' = [q \in Request |-> None]
      BY <2>2 DEF RequestInv
    <2> QED
      BY <2>1, <2>2
  <1> QED
    BY <1>4, <1>5, <1>6 DEF UserInv

\* What a mail's place says of its number.
LEMMA MailPlace ==
  ASSUME UserInv, NEW t \in Index, mail[t] # "none"
  PROVE  t \in Handed
  BY DEF UserInv, TypeOK, MailInv, Handed, Issued, Index

\* Every step keeps the invariant.
LEMMA UserNext ==
  ASSUME UserInv, [Next]_vars
  PROVE  UserInv'
  <1>0. /\ account \in [User -> {"none", "unverified", "verified"}]
        /\ token \in [Index -> {"none", "live", "expired", "used"}]
        /\ mail \in [Index -> {"none", "queued", "sending", "sent", "lost"}]
        /\ inbox \subseteq Handed /\ connected \in BOOLEAN /\ faults \in 0..MaxFaults
        /\ mails \in Seq(Job)
    BY DEF UserInv, TypeOK
  <1>1. Fault => faults' \in 0..MaxFaults
    BY <1>0, UserAssumption DEF Fault, UserAssumption
  <1>2. ASSUME NEW q \in Request, RequestStep(q) PROVE UserInv'
    BY <1>2, RequestStepTyping
  <1>3. ASSUME NEW q \in Request, LoseEmail(q) PROVE UserInv'
    BY <1>1, <1>3, IssueTyping DEF LoseEmail
  <1>4. ASSUME NEW t \in Index, Expire(t) PROVE UserInv'
    <2>1. token' \in [Index -> {"none", "live", "expired", "used"}]
      BY <1>0, <1>4 DEF Expire
    <2> QED
      BY <1>0, <1>4, <2>1, WorkerTyping DEF Expire
  <1>5. ASSUME NEW t \in Index, ResetPassword(t) PROVE UserInv'
    <2>1. token' \in [Index -> {"none", "live", "expired", "used"}]
      BY <1>0, <1>5 DEF ResetPassword
    <2> QED
      BY <1>0, <1>5, <2>1, WorkerTyping DEF ResetPassword
  <1>6. ASSUME NEW t \in Index, VerifyEmail(t) PROVE UserInv'
    <2> DEFINE u == mails[t].user
    <2>1. /\ t \in inbox /\ mails[t].purpose = "verify"
          /\ account' = [account EXCEPT ![u] = "verified"]
          /\ UNCHANGED <<customerId, customers, mailVars, cooldown, requestVars, connected,
                         raced, faults>>
      BY <1>6 DEF VerifyEmail
    <2>2. mails[t] \in Job
      BY <1>0, <2>1 DEF Handed, Issued
    <2>3. mails[t] = [user |-> u, purpose |-> "verify"]
      BY <2>1, <2>2 DEF Job
    <2>4. /\ account' \in [User -> {"none", "unverified", "verified"}]
          /\ \A v \in User : account'[v] = "verified" => account[v] = "verified" \/ v = u
      BY <1>0, <2>1
    <2> HIDE DEF u
    <2>5. \A v \in User : account'[v] = "verified" =>
            account[v] = "verified" \/
            \E s \in inbox : mails[s] = [user |-> v, purpose |-> "verify"]
      BY <2>1, <2>3, <2>4
    <2> QED
      BY <1>0, <2>1, <2>4, <2>5, WorkerTyping
  <1>7. ASSUME NEW t \in Index, ConsumeEmail(t) PROVE UserInv'
    <2>1. /\ mail' \in [Index -> {"none", "queued", "sending", "sent", "lost"}]
          /\ \A s \in Index : mail'[s] = "none" <=> mail[s] = "none"
      BY <1>0, <1>7 DEF ConsumeEmail
    <2> QED
      BY <1>0, <1>7, <2>1, WorkerTyping DEF ConsumeEmail
  <1>8. ASSUME NEW t \in Index, MailSent(t) PROVE UserInv'
    <2>1. /\ mail' \in [Index -> {"none", "queued", "sending", "sent", "lost"}]
          /\ \A s \in Index : mail'[s] = "none" <=> mail[s] = "none"
      BY <1>0, <1>8 DEF MailSent
    <2>2. inbox \subseteq inbox' /\ inbox' \subseteq Handed
      BY <1>0, <1>8, MailPlace DEF MailSent
    <2> QED
      BY <1>0, <1>8, <2>1, <2>2, WorkerTyping DEF MailSent
  <1>9. ASSUME NEW t \in Index, MailFailed(t) PROVE UserInv'
    <2>1. /\ mail' \in [Index -> {"none", "queued", "sending", "sent", "lost"}]
          /\ \A s \in Index : mail'[s] = "none" <=> mail[s] = "none"
      BY <1>0, <1>9 DEF MailFailed, AfterError
    <2>2. inbox \subseteq inbox' /\ inbox' \subseteq Handed
      BY <1>0, <1>9, MailPlace DEF MailFailed
    <2> QED
      BY <1>0, <1>1, <1>9, <2>1, <2>2, WorkerTyping DEF MailFailed
  <1>10. ASSUME NEW j \in Job, ExpireKey(j) PROVE UserInv'
    <2>1. /\ cooldown \in [Job -> Nat]
          /\ cooldown' = [cooldown EXCEPT ![j] = 0]
          /\ UNCHANGED <<accountVars, customers, mailVars, requestVars, connected, raced, faults>>
      BY <1>10 DEF ExpireKey, UserInv, TypeOK
    <2>2. cooldown' \in [Job -> Nat] /\ \A i \in Job : cooldown'[i] # 0 => cooldown'[i] = cooldown[i]
      BY <2>1
    <2>3. Handed' = Handed
      BY <2>1 DEF Handed, Issued
    <2>4. TypeOK'
      BY <2>1, <2>2, <2>3 DEF UserInv, TypeOK
    <2> QED
      BY <2>1, <2>4 DEF UserInv, MailInv, RequestInv, Issued
  <1>11. ChannelCloses =>
           /\ mail' \in [Index -> {"none", "queued", "sending", "sent", "lost"}]
           /\ \A s \in Index : mail'[s] = "none" <=> mail[s] = "none"
           /\ inbox \subseteq inbox' /\ inbox' \subseteq Handed
           /\ connected' = FALSE
    <2> SUFFICES ASSUME ChannelCloses
                 PROVE  /\ mail' \in [Index -> {"none", "queued", "sending", "sent", "lost"}]
                        /\ \A s \in Index : mail'[s] = "none" <=> mail[s] = "none"
                        /\ inbox \subseteq inbox' /\ inbox' \subseteq Handed
                        /\ connected' = FALSE
      OBVIOUS
    <2> DEFINE sending == {s \in Issued : mail[s] = "sending"}
    <2>1. sending \subseteq Handed
      BY DEF Handed
    <2>2. /\ mail' = [s \in Index |-> IF s \in sending THEN "queued" ELSE mail[s]]
          /\ connected' = FALSE
      BY DEF ChannelCloses
    <2>3. PICK arrived \in SUBSET sending : inbox' = inbox \cup arrived
      BY DEF ChannelCloses
    <2>4. \A s \in sending : mail[s] = "sending"
      OBVIOUS
    <2> HIDE DEF sending
    <2> QED
      BY <1>0, <2>1, <2>2, <2>3, <2>4
  <1>12. CASE ConnectionLost
    BY <1>0, <1>1, <1>11, <1>12, WorkerTyping DEF ConnectionLost
  <1>13. CASE Crash
    BY <1>0, <1>1, <1>11, <1>13, WorkerTyping DEF Crash
  <1>14. CASE Connect
    BY <1>0, <1>14, WorkerTyping DEF Connect
  <1>15. CASE UNCHANGED vars
    BY <1>0, <1>15, WorkerTyping DEF vars
  <1> QED
    BY <1>2, <1>3, <1>4, <1>5, <1>6, <1>7, <1>8, <1>9, <1>10, <1>12, <1>13, <1>14, <1>15 DEF Next

\* The initial states.
LEMMA UserInit ==
  ASSUME Init
  PROVE  UserInv
  <1>1. Len(mails) = 0 /\ mails \in Seq(Job) /\ Issued = {}
    BY DEF Init, Issued
  <1>2. TypeOK
    <2>1. /\ \A j \in Job : cooldown[j] = 0
          /\ \A u \in User : customerId[u] = 0 /\ customers[u] = 0 /\ account[u] = "none"
      BY DEF Init
    <2>2. /\ customers \in [User -> Nat] /\ customerId \in [User -> Nat]
          /\ account \in [User -> {"none", "unverified", "verified"}]
          /\ token \in [Index -> {"none", "live", "expired", "used"}]
          /\ mail \in [Index -> {"none", "queued", "sending", "sent", "lost"}]
          /\ cooldown \in [Job -> Nat]
      BY DEF Init
    <2>3. /\ place \in [Request -> {"free", "register", "cooldown", "issue", "remember",
                                    "list", "create", "save"}]
          /\ about \in [Request -> Job \cup {None}]
          /\ holds \in [Request -> Nat]
          /\ connected \in BOOLEAN
      BY DEF Init
    <2>6. raced \subseteq Job /\ inbox \subseteq Handed
      BY DEF Init
    <2>7. faults \in 0..MaxFaults
      BY UserAssumption DEF Init, UserAssumption
    <2>4. \A u \in User : customerId[u] <= customers[u]
      BY <2>1
    <2>5. /\ \A j \in Job : cooldown[j] # 0 =>
               \E t \in Handed : mails[t] = j /\ t <= cooldown[j]
          /\ \A u \in User : account[u] = "verified" =>
               \E t \in inbox : mails[t] = [user |-> u, purpose |-> "verify"]
      BY <2>1
    <2> QED
      BY <1>1, <2>2, <2>3, <2>4, <2>5, <2>6, <2>7 DEF TypeOK
  <1>3. MailInv
    BY <1>1, UserAssumption DEF Init, MailInv, Index, UserAssumption
  <1>4. RequestInv
    BY DEF Init, RequestInv
  <1> QED
    BY <1>2, <1>3, <1>4 DEF UserInv

\* Every variable keeps its type; a key of a cooldown stands for a mail that was
\* handed to the queue, a verified address for one that arrived, and a customer
\* on record for one that was created.
THEOREM UserTypes == Spec => []TypeOK
  <1>1. Init => UserInv
    BY UserInit
  <1>2. UserInv /\ [Next]_vars => UserInv'
    BY UserNext
  <1> QED
    BY <1>1, <1>2, PTL DEF Spec, UserInv

-----------------------------------------------------------------------------
(* Nothing twice, unless requests overlap.                                 *)

CustomerJob(u) == [user |-> u, purpose |-> "customer"]

\* Requests of one job at a time are on record.
Alone ==
  \A q, r \in Request : about[q] # None /\ about[q] = about[r] /\ q # r => about[q] \in raced

\* An address has mails, and requests but the first, only with its account.
Registered ==
  /\ \A t \in Issued : account[mails[t].user] # "none"
  /\ \A q \in Request : place[q] \notin {"free", "register"} => account[about[q].user] # "none"
  /\ \A q \in Request :
       place[q] = "register" /\ about[q] \notin raced => account[about[q].user] = "none"

\* A live token has the key in front of it, or the request that will set it; and
\* no request is past the key.
Guarded ==
  faults = 0 =>
    \A t \in Issued : token[t] = "live" /\ mails[t] \notin raced =>
      /\ \A s \in Issued : mails[s] = mails[t] /\ token[s] = "live" => s = t
      /\ \/ t <= cooldown[mails[t]]
         \/ \E q \in Request : place[q] = "remember" /\ about[q] = mails[t]
      /\ \A q \in Request : about[q] = mails[t] => place[q] # "issue"

\* A request creates a customer only for a user who has none.
OneCustomer ==
  \A u \in User : CustomerJob(u) \notin raced =>
    /\ customers[u] <= 1
    /\ \A q \in Request : place[q] = "create" /\ about[q] = CustomerJob(u) => customers[u] = 0

OneInv == Alone /\ Registered /\ Guarded /\ OneCustomer

\* The types a request's job and a mail's job have.
LEMMA Jobs ==
  ASSUME UserInv
  PROVE  /\ \A q \in Request : place[q] # "free" => about[q] \in Job /\ about[q].user \in User
         /\ \A t \in Issued : mails[t] \in Job /\ mails[t].user \in User
         /\ faults \in Nat
  <1>1. \A q \in Request : place[q] # "free" => about[q] \in Job
    BY DEF UserInv, TypeOK, RequestInv
  <1>2. \A t \in Issued : mails[t] \in Job
    BY DEF UserInv, TypeOK, Issued
  <1>3. faults \in Nat
    BY UserAssumption DEF UserInv, TypeOK, UserAssumption
  <1> QED
    BY <1>1, <1>2, <1>3 DEF Job

\* Steps that leave requests, keys and tokens as they are, or end tokens.
LEMMA OneFrame ==
  ASSUME UserInv, OneInv,
         UNCHANGED <<mails, cooldown, raced, customers, requestVars>>,
         faults' = faults \/ faults' > 0,
         \A t \in Issued : token'[t] = "live" => token[t] = "live",
         \A u \in User : account[u] = account'[u] \/ (account[u] # "none" /\ account'[u] # "none")
  PROVE  OneInv'
  <1>1. Alone'
    BY DEF OneInv, Alone
  <1>2. Registered'
    BY Jobs DEF OneInv, Registered, Issued
  <1>3. Guarded'
    BY Jobs DEF OneInv, Guarded, Issued
  <1>4. OneCustomer'
    BY DEF OneInv, OneCustomer
  <1> QED
    BY <1>1, <1>2, <1>3, <1>4 DEF OneInv

\* A request that ends, with its key set if it has sent a mail.
LEMMA OneFinish ==
  ASSUME UserInv, OneInv, NEW q \in Request, Finish(q), place[q] # "free",
         UNCHANGED <<mails, token, cooldown, raced>>,
         faults' = faults \/ faults' > 0,
         place[q] = "remember" => faults' > 0,
         \A u \in User : account'[u] = account[u] \/
            (place[q] = "register" /\ about[q].user = u /\ account'[u] # "none"),
         \A u \in User : customers'[u] = customers[u] \/
            (place[q] = "create" /\ about[q].user = u /\ customers'[u] = customers[u] + 1)
  PROVE  OneInv'
  <1>1. /\ place'[q] = "free" /\ about'[q] = None
        /\ \A r \in Request : r # q => place'[r] = place[r] /\ about'[r] = about[r]
    BY DEF Finish, GoTo, UserInv, TypeOK
  <1>2. Alone'
    BY <1>1 DEF OneInv, Alone
  <1>3. Registered'
    <2>1. \A r \in Request : r # q /\ place[r] = "register" /\ about[r] \notin raced =>
            ~(place[q] = "register" /\ about[q].user = about[r].user)
      <3> SUFFICES ASSUME NEW r \in Request, r # q, place[r] = "register", place[q] = "register",
                          about[q].user = about[r].user
                   PROVE  about[r] \in raced
        OBVIOUS
      <3>1. about[q] \in Job /\ about[r] \in Job /\ about[q].purpose = about[r].purpose
        BY Jobs DEF UserInv, RequestInv
      <3>2. about[q] = about[r] /\ about[q] # None
        BY <3>1, NoneIsNoJob DEF Job
      <3> QED
        BY <3>2 DEF OneInv, Alone
    <2>2. \A u \in User : account[u] # "none" => account'[u] # "none"
      OBVIOUS
    <2> QED
      BY <1>1, <2>1, <2>2, Jobs DEF OneInv, Registered, Issued
  <1>4. Guarded'
    BY <1>1, Jobs DEF OneInv, Guarded, Issued
  <1>5. OneCustomer'
    <2> SUFFICES ASSUME NEW u \in User, CustomerJob(u) \notin raced
                 PROVE  /\ customers'[u] <= 1
                        /\ \A r \in Request :
                             place'[r] = "create" /\ about'[r] = CustomerJob(u) => customers'[u] = 0
      BY DEF OneCustomer
    <2>1. CASE customers'[u] = customers[u]
      BY <1>1, <2>1 DEF OneInv, OneCustomer
    <2>2. CASE /\ place[q] = "create" /\ about[q].user = u
               /\ customers'[u] = customers[u] + 1
      <3>1. about[q] \in Job /\ about[q].purpose = "customer"
        BY <2>2, Jobs DEF UserInv, RequestInv
      <3>2. about[q] = CustomerJob(u) /\ about[q] # None
        BY <2>2, <3>1, NoneIsNoJob DEF Job, CustomerJob
      <3>3. customers[u] = 0
        BY <2>2, <3>2 DEF OneInv, OneCustomer
      <3>4. \A r \in Request : r # q => about[r] # CustomerJob(u)
        BY <3>2 DEF OneInv, Alone
      <3> QED
        BY <1>1, <2>2, <3>3, <3>4
    <2> QED
      BY <2>1, <2>2
  <1> QED
    BY <1>2, <1>3, <1>4, <1>5 DEF OneInv

\* A request that starts beside another of its job is on record.
LEMMA OneStart ==
  ASSUME UserInv, OneInv, NEW q \in Request, NEW j \in Job,
         NEW p \in {"register", "cooldown", "list"},
         place[q] = "free",
         place' = [place EXCEPT ![q] = p],
         about' = [about EXCEPT ![q] = j],
         raced' = IF \E r \in Request : about[r] = j THEN raced \cup {j} ELSE raced,
         p = "register" => account[j.user] = "none",
         p # "register" => account[j.user] # "none",
         UNCHANGED <<accountVars, customers, mailVars, cooldown, faults>>
  PROVE  OneInv'
  <1>1. /\ place'[q] = p /\ about'[q] = j /\ about[q] = None /\ j # None
        /\ \A r \in Request : r # q => place'[r] = place[r] /\ about'[r] = about[r]
    BY NoneIsNoJob DEF UserInv, TypeOK, RequestInv
  <1>2. raced \subseteq raced' /\ ((\E r \in Request : about[r] = j) => j \in raced')
    OBVIOUS
  <1>3. Alone'
    BY <1>1, <1>2 DEF OneInv, Alone
  <1>4. Registered'
    BY <1>1, <1>2 DEF OneInv, Registered, Issued
  <1>5. Guarded'
    BY <1>1, <1>2 DEF OneInv, Guarded, Issued
  <1>6. OneCustomer'
    BY <1>1, <1>2 DEF OneInv, OneCustomer
  <1> QED
    BY <1>3, <1>4, <1>5, <1>6 DEF OneInv

\* A request goes on to a token only past the key, or for a new account.
LEMMA OneGoOn ==
  ASSUME UserInv, OneInv, NEW q \in Request, Register(q) \/ CheckCooldown(q)
  PROVE  OneInv'
  <1>0. /\ place[q] # "free" /\ about[q] \in Job /\ about[q].user \in User
        /\ account \in [User -> {"none", "unverified", "verified"}]
    BY Jobs DEF Register, CheckCooldown, UserInv, TypeOK
  <1>1. CASE Finish(q) /\ UNCHANGED <<account, customers, mails, token, cooldown, raced, faults>>
                       /\ place[q] # "remember"
    BY <1>0, <1>1, OneFinish
  <1>2. CASE /\ GoTo(q, "issue") /\ UNCHANGED <<about, customers, mails, token, cooldown, raced, faults>>
             /\ \/ place[q] = "register" /\ account[about[q].user] = "none"
                   /\ account' = [account EXCEPT ![about[q].user] = "unverified"]
                \/ place[q] = "cooldown" /\ cooldown[about[q]] = 0 /\ account' = account
    <2>1. /\ place'[q] = "issue" /\ about' = about
          /\ \A r \in Request : r # q => place'[r] = place[r]
      BY <1>2 DEF GoTo, UserInv, TypeOK
    <2>2. Alone'
      BY <1>2 DEF OneInv, Alone
    <2>3. /\ \A u \in User : account[u] # "none" => account'[u] # "none"
          /\ account'[about[q].user] # "none"
      BY <1>0, <1>2, Jobs DEF OneInv, Registered
    <2>4. \A r \in Request : r # q /\ place[r] = "register" /\ about[r] \notin raced =>
            account'[about[r].user] = "none"
      <3> SUFFICES ASSUME NEW r \in Request, r # q, place[r] = "register", about[r] \notin raced
                   PROVE  account'[about[r].user] = "none"
        OBVIOUS
      <3>1. account[about[r].user] = "none" /\ about[r] \in Job /\ about[r].user \in User
        BY Jobs DEF OneInv, Registered
      <3>2. CASE place[q] = "register"
        <4>1. about[r].user # about[q].user
          <5> SUFFICES ASSUME about[r].user = about[q].user PROVE FALSE
            OBVIOUS
          <5>1. about[q].purpose = about[r].purpose
            BY <3>2 DEF UserInv, RequestInv
          <5>2. about[q] = about[r] /\ about[q] # None
            BY <1>0, <3>1, <5>1, NoneIsNoJob DEF Job
          <5> QED
            BY <5>2 DEF OneInv, Alone
        <4> QED
          BY <1>0, <1>2, <3>1, <3>2, <4>1
      <3>3. CASE place[q] # "register"
        BY <1>2, <3>1, <3>3
      <3> QED
        BY <3>2, <3>3
    <2>5. Registered'
      BY <1>2, <2>1, <2>3, <2>4, Jobs DEF OneInv, Registered, Issued
    <2>6. Guarded'
      <3> SUFFICES ASSUME faults = 0, NEW t \in Issued, token[t] = "live", mails[t] \notin raced
                   PROVE  /\ \A s \in Issued : mails[s] = mails[t] /\ token[s] = "live" => s = t
                          /\ \/ t <= cooldown[mails[t]]
                             \/ \E r \in Request : place'[r] = "remember" /\ about[r] = mails[t]
                          /\ \A r \in Request : about[r] = mails[t] => place'[r] # "issue"
        BY <1>2 DEF Guarded, Issued
      <3>1. /\ \A s \in Issued : mails[s] = mails[t] /\ token[s] = "live" => s = t
            /\ \/ t <= cooldown[mails[t]]
               \/ \E r \in Request : place[r] = "remember" /\ about[r] = mails[t]
            /\ \A r \in Request : about[r] = mails[t] => place[r] # "issue"
        BY DEF OneInv, Guarded
      <3>2. \A r \in Request : place[r] = "remember" => r # q
        BY <1>2
      <3>3. about[q] # mails[t]
        <4> SUFFICES ASSUME about[q] = mails[t] PROVE FALSE
          OBVIOUS
        <4>1. account[about[q].user] # "none"
          BY DEF OneInv, Registered
        <4>2. place[q] = "cooldown" /\ cooldown[mails[t]] = 0
          BY <1>2, <4>1
        <4>3. ~(t <= cooldown[mails[t]])
          <5>1. t \in Nat /\ t > 0
            BY DEF Issued, UserInv, TypeOK
          <5> QED
            BY <4>2, <5>1
        <4>4. PICK r \in Request : place[r] = "remember" /\ about[r] = about[q]
          BY <3>1, <4>3
        <4>5. about[q] # None /\ r # q
          BY <1>0, <3>2, <4>4, NoneIsNoJob
        <4> QED
          BY <4>4, <4>5 DEF OneInv, Alone
      <3> QED
        BY <2>1, <3>1, <3>2, <3>3
    <2>7. OneCustomer'
      BY <1>2, <2>1 DEF OneInv, OneCustomer
    <2> QED
      BY <2>2, <2>5, <2>6, <2>7 DEF OneInv
  <1> QED
    BY <1>1, <1>2 DEF Register, CheckCooldown, WhoseOf

\* A token is issued where no other is live.
LEMMA OneIssue ==
  ASSUME UserInv, OneInv, NEW q \in Request, place[q] = "issue", NEW where, Issue(q, where),
         UNCHANGED <<accountVars, customers, cooldown, raced>>,
         faults' = faults \/ faults' > 0
  PROVE  OneInv'
  <1> DEFINE n == Len(mails) + 1
  <1>1. /\ Len(mails) \in Nat /\ n \in Index /\ about[q] \in Job
        /\ account[about[q].user] # "none"
    BY UserAssumption, Jobs DEF UserInv, TypeOK, Issue, Index, UserAssumption, OneInv, Registered
  <1>2. /\ Issued' = Issued \cup {n} /\ n \notin Issued
        /\ \A t \in Issued : mails'[t] = mails[t] /\ token'[t] = token[t]
        /\ mails'[n] = about[q] /\ token'[n] = "live"
    <2>1. mails' = Append(mails, about[q]) /\ token' = [token EXCEPT ![n] = "live"]
      BY DEF Issue
    <2>2. mails \in Seq(Job) /\ DOMAIN token = Index
      BY DEF UserInv, TypeOK
    <2>3. Len(mails') = n
      BY <1>1, <2>1, <2>2
    <2>4. Issued' = Issued \cup {n} /\ n \notin Issued
      BY <1>1, <2>3 DEF Issued
    <2> QED
      BY <1>1, <2>1, <2>2, <2>4 DEF Issued
  <1>3. /\ place'[q] = "remember" /\ about' = about
        /\ \A r \in Request : r # q => place'[r] = place[r]
    BY DEF Issue, GoTo, UserInv, TypeOK
  <1> HIDE DEF n
  <1>4. Alone'
    BY <1>3 DEF OneInv, Alone
  <1>5. Registered'
    BY <1>1, <1>2, <1>3 DEF OneInv, Registered
  <1>6. Guarded'
    <2> SUFFICES ASSUME faults = 0, NEW t \in Issued', token'[t] = "live", mails'[t] \notin raced
                 PROVE  /\ \A s \in Issued' : mails'[s] = mails'[t] /\ token'[s] = "live" => s = t
                        /\ \/ t <= cooldown[mails'[t]]
                           \/ \E r \in Request : place'[r] = "remember" /\ about[r] = mails'[t]
                        /\ \A r \in Request : about[r] = mails'[t] => place'[r] # "issue"
      BY <1>3, Jobs DEF Guarded
    <2>1. CASE t = n
      <3>1. \A s \in Issued : mails[s] = about[q] => token[s] # "live"
        BY <1>2, <2>1 DEF OneInv, Guarded
      <3>2. \A r \in Request : about[r] = about[q] => r = q
        BY <1>1, <1>2, <2>1, NoneIsNoJob DEF OneInv, Alone
      <3> QED
        BY <1>2, <1>3, <2>1, <3>1, <3>2
    <2>2. CASE t \in Issued
      <3>1. /\ \A s \in Issued : mails[s] = mails[t] /\ token[s] = "live" => s = t
            /\ \/ t <= cooldown[mails[t]]
               \/ \E r \in Request : place[r] = "remember" /\ about[r] = mails[t]
            /\ \A r \in Request : about[r] = mails[t] => place[r] # "issue"
        BY <1>2, <2>2 DEF OneInv, Guarded
      <3>2. about[q] # mails[t]
        BY <3>1
      <3> QED
        BY <1>2, <1>3, <2>2, <3>1, <3>2
    <2> QED
      BY <1>2, <2>1, <2>2
  <1>7. OneCustomer'
    BY <1>3 DEF OneInv, OneCustomer
  <1> QED
    BY <1>4, <1>5, <1>6, <1>7 DEF OneInv

\* The key a request sets stands before every token issued so far.
LEMMA OneSetCooldown ==
  ASSUME UserInv, OneInv, NEW q \in Request, SetCooldown(q)
  PROVE  OneInv'
  <1>1. /\ place[q] = "remember" /\ about[q] \in Job /\ cooldown \in [Job -> Nat]
        /\ cooldown' = [cooldown EXCEPT ![about[q]] = Len(mails)]
        /\ UNCHANGED <<account, customers, mails, token, raced, faults>>
    BY Jobs DEF SetCooldown, UserInv, TypeOK
  <1>2. /\ place'[q] = "free" /\ about'[q] = None
        /\ \A r \in Request : r # q => place'[r] = place[r] /\ about'[r] = about[r]
    BY DEF SetCooldown, Finish, GoTo, UserInv, TypeOK
  <1>3. Alone'
    BY <1>1, <1>2 DEF OneInv, Alone
  <1>4. Registered'
    BY <1>1, <1>2 DEF OneInv, Registered, Issued
  <1>5. Guarded'
    <2> SUFFICES ASSUME faults = 0, NEW t \in Issued, token[t] = "live", mails[t] \notin raced
                 PROVE  /\ \A s \in Issued : mails[s] = mails[t] /\ token[s] = "live" => s = t
                        /\ \/ t <= cooldown'[mails[t]]
                           \/ \E r \in Request : place'[r] = "remember" /\ about'[r] = mails[t]
                        /\ \A r \in Request : about'[r] = mails[t] => place'[r] # "issue"
      BY <1>1 DEF Guarded, Issued
    <2>1. /\ \A s \in Issued : mails[s] = mails[t] /\ token[s] = "live" => s = t
          /\ \/ t <= cooldown[mails[t]]
             \/ \E r \in Request : place[r] = "remember" /\ about[r] = mails[t]
          /\ \A r \in Request : about[r] = mails[t] => place[r] # "issue"
      BY DEF OneInv, Guarded
    <2>2. \A r \in Request : about'[r] = mails[t] => place'[r] # "issue"
      BY <1>2, <2>1
    <2>3. CASE mails[t] = about[q]
      <3>1. t <= cooldown'[mails[t]]
        BY <1>1, <2>3 DEF Issued
      <3> QED
        BY <2>1, <2>2, <3>1
    <2>4. CASE mails[t] # about[q]
      <3>1. cooldown'[mails[t]] = cooldown[mails[t]]
        BY <1>1, <2>4
      <3> QED
        BY <1>2, <2>1, <2>2, <2>4, <3>1
    <2> QED
      BY <2>3, <2>4
  <1>6. OneCustomer'
    BY <1>1, <1>2 DEF OneInv, OneCustomer
  <1> QED
    BY <1>3, <1>4, <1>5, <1>6 DEF OneInv

\* A customer is looked for, then created.
LEMMA OneCreates ==
  ASSUME UserInv, OneInv, NEW q \in Request, ListCustomers(q) \/ CreateCustomer(q)
  PROVE  OneInv'
  <1>1. /\ place[q] \in {"list", "create"} /\ about[q] \in Job /\ about[q].user \in User
        /\ about[q].purpose = "customer" /\ customers \in [User -> Nat]
        /\ UNCHANGED <<account, about, mails, token, cooldown, raced, faults>>
    BY Jobs DEF ListCustomers, CreateCustomer, UserInv, TypeOK, RequestInv
  <1>2. /\ \A r \in Request : r # q => place'[r] = place[r]
        /\ place'[q] \in {"create", "save"}
        /\ place'[q] = "create" => customers[about[q].user] = 0 /\ customers' = customers
        /\ \/ customers' = customers
           \/ place[q] = "create" /\ customers' = [customers EXCEPT ![about[q].user] = @ + 1]
    BY DEF ListCustomers, CreateCustomer, Created, WhoseOf, GoTo, UserInv, TypeOK
  <1>3. Alone'
    BY <1>1 DEF OneInv, Alone
  <1>4. Registered'
    BY <1>1, <1>2 DEF OneInv, Registered, Issued
  <1>5. Guarded'
    BY <1>1, <1>2 DEF OneInv, Guarded, Issued
  <1>6. OneCustomer'
    <2> SUFFICES ASSUME NEW u \in User, CustomerJob(u) \notin raced
                 PROVE  /\ customers'[u] <= 1
                        /\ \A r \in Request :
                             place'[r] = "create" /\ about[r] = CustomerJob(u) => customers'[u] = 0
      BY <1>1 DEF OneCustomer
    <2>1. CASE customers' = customers
      <3>1. about[q] = CustomerJob(u) => about[q].user = u
        BY DEF CustomerJob
      <3> QED
        BY <1>2, <2>1, <3>1 DEF OneInv, OneCustomer
    <2>2. CASE place[q] = "create" /\ customers' = [customers EXCEPT ![about[q].user] = @ + 1]
      <3>1. CASE about[q].user = u
        <4>1. about[q] = CustomerJob(u) /\ about[q] # None
          BY <1>1, <3>1, NoneIsNoJob DEF Job, CustomerJob
        <4>2. customers[u] = 0
          BY <2>2, <4>1 DEF OneInv, OneCustomer
        <4>3. \A r \in Request : r # q => about[r] # CustomerJob(u)
          BY <4>1 DEF OneInv, Alone
        <4>4. place'[q] # "create"
          BY <1>1, <1>2, <2>2, <4>2
        <4> QED
          BY <1>1, <1>2, <2>2, <3>1, <4>2, <4>3, <4>4
      <3>2. CASE about[q].user # u
        <4>1. customers'[u] = customers[u] /\ about[q] # CustomerJob(u)
          BY <1>1, <2>2, <3>2 DEF CustomerJob
        <4> QED
          BY <1>2, <4>1 DEF OneInv, OneCustomer
      <3> QED
        BY <3>1, <3>2
    <2> QED
      BY <1>2, <2>1, <2>2
  <1> QED
    BY <1>3, <1>4, <1>5, <1>6 DEF OneInv

\* A key expires after the tokens it stands before.
LEMMA OneExpireKey ==
  ASSUME UserInv, OneInv, NEW j \in Job, ExpireKey(j)
  PROVE  OneInv'
  <1>1. /\ cooldown \in [Job -> Nat] /\ cooldown' = [cooldown EXCEPT ![j] = 0] /\ KeyOutlives(j)
        /\ UNCHANGED <<account, customers, mails, token, raced, faults, place, about>>
    BY DEF ExpireKey, UserInv, TypeOK
  <1>2. Guarded'
    <2> SUFFICES ASSUME faults = 0, NEW t \in Issued, token[t] = "live", mails[t] \notin raced
                 PROVE  /\ \A s \in Issued : mails[s] = mails[t] /\ token[s] = "live" => s = t
                        /\ \/ t <= cooldown'[mails[t]]
                           \/ \E r \in Request : place[r] = "remember" /\ about[r] = mails[t]
                        /\ \A r \in Request : about[r] = mails[t] => place[r] # "issue"
      BY <1>1 DEF Guarded, Issued
    <2>1. t <= cooldown[mails[t]] => t <= cooldown'[mails[t]]
      <3>1. mails[t] = j => ~(t <= cooldown[j])
        BY <1>1 DEF KeyOutlives
      <3>2. mails[t] # j => cooldown'[mails[t]] = cooldown[mails[t]]
        BY <1>1, Jobs
      <3> QED
        BY <3>1, <3>2
    <2> QED
      BY <2>1 DEF OneInv, Guarded
  <1> QED
    BY <1>1, <1>2 DEF OneInv, Alone, Registered, OneCustomer, Issued

\* Every step keeps the invariant.
LEMMA OneNext ==
  ASSUME UserInv, OneInv, [Next]_vars
  PROVE  OneInv'
  <1>0. /\ faults \in Nat /\ account \in [User -> {"none", "unverified", "verified"}]
        /\ token \in [Index -> {"none", "live", "expired", "used"}]
    BY Jobs DEF UserInv, TypeOK
  <1>1. Fault => faults' > 0
    BY <1>0 DEF Fault
  <1>2. ASSUME NEW q \in Request, RequestStep(q) PROVE OneInv'
    <2>1. ASSUME NEW u \in User, SignUp(q, u) \/ ResendVerifyEmail(q, u)
                   \/ RequestPasswordReset(q, u) \/ GetStripeCustomerId(q, u)
          PROVE  OneInv'
      <3>1. PICK purpose \in {"verify", "reset", "customer"},
                 next \in {"register", "cooldown", "list"} :
              /\ Start(q, u, purpose, next)
              /\ next = "register" => account[u] = "none"
              /\ next # "register" => account[u] # "none"
        BY <2>1 DEF SignUp, ResendVerifyEmail, RequestPasswordReset, GetStripeCustomerId
      <3> DEFINE j == [user |-> u, purpose |-> purpose]
      <3>2. j \in Job /\ j.user = u
        BY DEF Job
      <3>3. /\ place[q] = "free"
            /\ place' = [place EXCEPT ![q] = next]
            /\ about' = [about EXCEPT ![q] = j]
            /\ raced' = IF \E r \in Request : about[r] = j THEN raced \cup {j} ELSE raced
            /\ UNCHANGED <<accountVars, customers, mailVars, cooldown, faults>>
        BY <3>1 DEF Start, GoTo
      <3> HIDE DEF j
      <3> QED
        BY <3>1, <3>2, <3>3, OneStart
    <2>2. CASE Register(q) \/ CheckCooldown(q)
      BY <2>2, OneGoOn
    <2>3. CASE SendEmail(q)
      <3>1. CASE connected
        BY <2>3, <3>1, OneIssue DEF SendEmail
      <3>2. CASE ~connected
        BY <2>3, <3>2, OneFinish DEF SendEmail, NoChannel
      <3> QED
        BY <3>1, <3>2
    <2>4. CASE SetCooldown(q)
      BY <2>4, OneSetCooldown
    <2>5. CASE ListCustomers(q) \/ CreateCustomer(q)
      BY <2>5, OneCreates
    <2>6. CASE SaveCustomer(q)
      BY <2>6, OneFinish DEF SaveCustomer
    <2>7. CASE RequestFails(q)
      <3>1. about[q].user \in User /\ customers \in [User -> Nat]
        BY <2>7, Jobs DEF RequestFails, UserInv, TypeOK
      <3>2. \A u \in User : customers'[u] = customers[u] \/
              (place[q] = "create" /\ about[q].user = u /\ customers'[u] = customers[u] + 1)
        BY <2>7, <3>1 DEF RequestFails, Created, WhoseOf
      <3>3. \A u \in User : account'[u] = account[u] \/
              (place[q] = "register" /\ about[q].user = u /\ account'[u] # "none")
        BY <1>0, <2>7, <3>1 DEF RequestFails, WhoseOf
      <3>4. /\ Finish(q) /\ place[q] # "free" /\ faults' > 0
            /\ UNCHANGED <<mails, token, cooldown, raced>>
        BY <1>1, <2>7 DEF RequestFails
      <3> QED
        BY <3>2, <3>3, <3>4, OneFinish
    <2> QED
      BY <1>2, <2>1, <2>2, <2>3, <2>4, <2>5, <2>6, <2>7 DEF RequestStep
  <1>3. ASSUME NEW q \in Request, LoseEmail(q) PROVE OneInv'
    BY <1>1, <1>3, OneIssue DEF LoseEmail
  <1>4. ASSUME NEW t \in Index, Expire(t) \/ ResetPassword(t) PROVE OneInv'
    <2>1. \A s \in Issued : token'[s] = "live" => token[s] = "live"
      <3>1. token' = [token EXCEPT ![t] = "expired"] \/ token' = [token EXCEPT ![t] = "used"]
        BY <1>4 DEF Expire, ResetPassword
      <3>2. Issued \subseteq Index
        BY UserAssumption DEF UserInv, TypeOK, MailInv, Issued, Index, UserAssumption
      <3> QED
        BY <1>0, <3>1, <3>2
    <2> QED
      BY <1>4, <2>1, OneFrame DEF Expire, ResetPassword
  <1>5. ASSUME NEW t \in Index, VerifyEmail(t) PROVE OneInv'
    <2>1. mails[t].user \in User /\ account[mails[t].user] # "none"
      BY <1>5, Jobs DEF VerifyEmail, UserInv, TypeOK, Handed, OneInv, Registered
    <2>2. \A u \in User : account[u] = account'[u] \/ (account[u] # "none" /\ account'[u] # "none")
      BY <1>0, <1>5, <2>1 DEF VerifyEmail
    <2> QED
      BY <1>5, <2>2, OneFrame DEF VerifyEmail
  <1>6. ASSUME NEW t \in Index, ConsumeEmail(t) \/ MailSent(t) \/ MailFailed(t) PROVE OneInv'
    BY <1>1, <1>6, OneFrame DEF ConsumeEmail, MailSent, MailFailed
  <1>7. ASSUME NEW j \in Job, ExpireKey(j) PROVE OneInv'
    BY <1>7, OneExpireKey
  <1>8. CASE ConnectionLost
    BY <1>1, <1>8, OneFrame DEF ConnectionLost
  <1>9. CASE Connect
    BY <1>9, OneFrame DEF Connect
  <1>10. CASE UNCHANGED vars
    BY <1>10, OneFrame DEF vars
  <1>11. CASE Crash
    <2>1. /\ faults' # 0
          /\ \A q \in Request : place'[q] = "free" /\ about'[q] = None
          /\ UNCHANGED <<account, customers, mails, raced>>
      BY <1>0, <1>1, <1>11 DEF Crash
    <2> QED
      BY <2>1 DEF OneInv, Alone, Registered, Guarded, OneCustomer, Issued
  <1> QED
    BY <1>2, <1>3, <1>4, <1>5, <1>6, <1>7, <1>8, <1>9, <1>10, <1>11 DEF Next

\* Two mails with a live token for one purpose take requests that overlap, or an
\* error between the mail and the key; two customers of one user take requests
\* that overlap.
THEOREM NothingTwice == Spec => []OneUnlessRaced
  <1>1. Init => UserInv /\ OneInv
    <2> SUFFICES ASSUME Init PROVE UserInv /\ OneInv
      OBVIOUS
    <2>1. Issued = {}
      BY DEF Init, Issued
    <2>2. \A u \in User : customers[u] = 0
      BY DEF Init
    <2>3. \A q \in Request : place[q] = "free" /\ about[q] = None
      BY DEF Init
    <2>4. OneInv
      BY <2>1, <2>2, <2>3 DEF OneInv, Alone, Registered, Guarded, OneCustomer
    <2> QED
      BY <2>4, UserInit
  <1>2. (UserInv /\ OneInv) /\ [Next]_vars => (UserInv /\ OneInv)'
    BY UserNext, OneNext
  <1>3. UserInv /\ OneInv => OneUnlessRaced
    <2> SUFFICES ASSUME UserInv, OneInv PROVE OneUnlessRaced
      OBVIOUS
    <2>1. Handed = Issued /\ faults \in Nat
      BY HandedIsIssued, Jobs
    <2>2. \A u \in User : customers[u] \in Nat
      BY DEF UserInv, TypeOK
    <2>3. \A s, t \in Handed :
            s # t /\ mails[s] = mails[t] /\ token[s] = "live" /\ token[t] = "live" =>
              mails[s] \in raced \/ faults > 0
      <3> SUFFICES ASSUME NEW v \in Issued, NEW t \in Issued, v # t, mails[v] = mails[t],
                          token[v] = "live", token[t] = "live", mails[v] \notin raced
                   PROVE  faults > 0
        BY <2>1
      <3>1. faults # 0
        BY DEF OneInv, Guarded
      <3> QED
        BY <2>1, <3>1
    <2>4. \A u \in User :
            customers[u] > 1 => [user |-> u, purpose |-> "customer"] \in raced
      <3>1. \A u \in User : customers[u] <= 1 \/ CustomerJob(u) \in raced
        BY DEF OneInv, OneCustomer
      <3>2. \A u \in User : customers[u] > 1 => CustomerJob(u) \in raced
        BY <2>2, <3>1
      <3> QED
        BY <3>2 DEF CustomerJob
    <2> QED
      BY <2>3, <2>4 DEF OneUnlessRaced
  <1> QED
    BY <1>1, <1>2, <1>3, PTL DEF Spec

=============================================================================
