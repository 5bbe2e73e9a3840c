---------------------------- MODULE UserAccount ----------------------------
(***************************************************************************)
(* What ShobApp24 adds to the accounts the better-auth library keeps: the  *)
(* cooldown between two mails of the same purpose, the queue the mails go  *)
(* through, and the Stripe customer of a user.  All three look before they *)
(* act, with awaits in between, and several requests run at a time.        *)
(*                                                                         *)
(* A mail is known by its token: the number of tokens issued before it,    *)
(* plus one.                                                               *)
(***************************************************************************)
EXTENDS Naturals, Sequences, FiniteSets

CONSTANTS
  User,         \* email addresses, one account each
  Request,      \* slots for requests that are handled at a time
  MaxMails,     \* how many tokens are issued
  MaxFaults,    \* database, Redis, Stripe and Resend errors, lost connections, crashes
  None

ASSUME UserAssumption ==
  /\ MaxMails \in Nat
  /\ MaxFaults \in Nat
  /\ None \notin [user : User, purpose : {"verify", "reset", "customer"}]

VARIABLES
  account,    \* "none", "unverified" or "verified"
  customerId, \* the user row's stripeCustomerId: the n-th customer, 0 for null
  customers,  \* Stripe: how many customers were created for each user
  mails,      \* the tokens issued so far: for whom and what
  token,      \* "live", "expired" or, after a password reset, "used"
  mail,       \* where the mail of each token is
  inbox,      \* the mails that have arrived
  cooldown,   \* Redis: the tokens issued before the key was set, 0 without a key
  place,      \* where each request stands
  about,      \* the user it is about, and the purpose
  holds,      \* the token or customer it got, 0 if none
  connected,  \* the process has an open channel, with the consumer on it
  raced,      \* history: user and purpose of requests that overlapped
  faults

accountVars  == <<account, customerId>>
mailVars     == <<mails, token, mail, inbox>>
requestVars  == <<place, about, holds>>
vars == <<accountVars, customers, mailVars, cooldown, requestVars, connected,
          raced, faults>>

Index == 1..MaxMails
Job   == [user : User, purpose : {"verify", "reset", "customer"}]

Init ==
  /\ account = [u \in User |-> "none"]
  /\ customerId = [u \in User |-> 0]
  /\ customers = [u \in User |-> 0]
  /\ mails = <<>>
  /\ token = [t \in Index |-> "none"]
  /\ mail = [t \in Index |-> "none"]
  /\ inbox = {}
  /\ cooldown = [j \in Job |-> 0]
  /\ place = [q \in Request |-> "free"]
  /\ about = [q \in Request |-> None]
  /\ holds = [q \in Request |-> 0]
  /\ connected = FALSE
  /\ raced = {}
  /\ faults = 0

Fault == faults < MaxFaults /\ faults' = faults + 1

-----------------------------------------------------------------------------
(* Requests                                                                *)

GoTo(q, p) == place' = [place EXCEPT ![q] = p]

Finish(q) ==
  /\ GoTo(q, "free")
  /\ about' = [about EXCEPT ![q] = None]
  /\ holds' = [holds EXCEPT ![q] = 0]

\* The first query of a service, and what it asks for next.
Start(q, u, purpose, next) ==
  LET job == [user |-> u, purpose |-> purpose]
  IN  /\ place[q] = "free"
      /\ GoTo(q, next)
      /\ about' = [about EXCEPT ![q] = job]
      /\ raced' = IF \E r \in Request : about[r] = job
                  THEN raced \cup {job} ELSE raced
      /\ UNCHANGED <<accountVars, customers, mailVars, cooldown, holds, connected, faults>>

\* A verified address is refused.
SignUp(q, u) ==
  \/ account[u] = "none" /\ Start(q, u, "verify", "register")
  \/ account[u] = "unverified" /\ Start(q, u, "verify", "cooldown")

ResendVerifyEmail(q, u) ==
  account[u] = "unverified" /\ Start(q, u, "verify", "cooldown")

RequestPasswordReset(q, u) ==
  account[u] # "none" /\ Start(q, u, "reset", "cooldown")

\* getStripeCustomerId, for a user who is logged in and so verified.
GetStripeCustomerId(q, u) ==
  /\ account[u] = "verified"
  /\ customerId[u] = 0
  /\ Start(q, u, "customer", "list")

WhoseOf(q) == about[q].user

\* signUpEmail of better-auth creates the user, unless one came first.
Register(q) ==
  /\ place[q] = "register"
  /\ IF account[WhoseOf(q)] = "none"
     THEN /\ account' = [account EXCEPT ![WhoseOf(q)] = "unverified"]
          /\ GoTo(q, "issue")
          /\ UNCHANGED <<about, holds>>
     ELSE Finish(q) /\ UNCHANGED account
  /\ UNCHANGED <<customerId, customers, mailVars, cooldown, connected, raced, faults>>

CheckCooldown(q) ==
  /\ place[q] = "cooldown"
  /\ IF cooldown[about[q]] = 0
     THEN GoTo(q, "issue") /\ UNCHANGED <<about, holds>>
     ELSE Finish(q)
  /\ UNCHANGED <<accountVars, customers, mailVars, cooldown, connected, raced, faults>>

\* better-auth makes a token and calls back with the link.
Issue(q, where) ==
  /\ Len(mails) < MaxMails
  /\ mails' = Append(mails, about[q])
  /\ token' = [token EXCEPT ![Len(mails) + 1] = "live"]
  /\ mail' = [mail EXCEPT ![Len(mails) + 1] = where]
  /\ GoTo(q, "remember")
  /\ UNCHANGED <<inbox, about, holds>>

NoChannel_Swallowed(q) == GoTo(q, "remember") /\ UNCHANGED <<about, holds>>

\* Without a channel, or on a closed one, sendEmail throws: a token in no mail
\* is nobody's.
NoChannel(q) == Finish(q)

SendEmail(q) ==
  /\ place[q] = "issue"
  /\ \/ connected /\ Issue(q, "queued")
     \/ ~connected /\ NoChannel(q) /\ UNCHANGED mailVars
  /\ UNCHANGED <<accountVars, customers, cooldown, connected, raced, faults>>

\* The key of the cooldown is set after the mail is on its way.
SetCooldown(q) ==
  /\ place[q] = "remember"
  /\ cooldown' = [cooldown EXCEPT ![about[q]] = Len(mails)]
  /\ Finish(q)
  /\ UNCHANGED <<accountVars, customers, mailVars, connected, raced, faults>>

\* The customers with the user's address, newest first.
ListCustomers(q) ==
  /\ place[q] = "list"
  /\ holds' = [holds EXCEPT ![q] = customers[WhoseOf(q)]]
  /\ GoTo(q, IF customers[WhoseOf(q)] = 0 THEN "create" ELSE "save")
  /\ UNCHANGED <<about, accountVars, customers, mailVars, cooldown, connected, raced, faults>>

Created(q) ==
  customers' = [customers EXCEPT ![WhoseOf(q)] = @ + 1]

CreateCustomer(q) ==
  /\ place[q] = "create"
  /\ Created(q)
  /\ holds' = [holds EXCEPT ![q] = customers[WhoseOf(q)] + 1]
  /\ GoTo(q, "save")
  /\ UNCHANGED <<about, accountVars, mailVars, cooldown, connected, raced, faults>>

SaveCustomer(q) ==
  /\ place[q] = "save"
  /\ customerId' = [customerId EXCEPT ![WhoseOf(q)] = holds[q]]
  /\ Finish(q)
  /\ UNCHANGED <<account, customers, mailVars, cooldown, connected, raced, faults>>

\* An await of a request throws: what it asked for may be done all the same.
RequestFails(q) ==
  /\ Fault
  /\ place[q] # "free"
  /\ Finish(q)
  /\ \/ UNCHANGED <<account, customers>>
     \/ place[q] = "create" /\ Created(q) /\ UNCHANGED account
     \/ /\ place[q] = "register"
        /\ account[WhoseOf(q)] = "none"
        /\ account' = [account EXCEPT ![WhoseOf(q)] = "unverified"]
        /\ UNCHANGED customers
  /\ UNCHANGED <<customerId, mailVars, cooldown, connected, raced>>

RequestStep(q) ==
  \/ \E u \in User :
       \/ SignUp(q, u) \/ ResendVerifyEmail(q, u)
       \/ RequestPasswordReset(q, u) \/ GetStripeCustomerId(q, u)
  \/ Register(q) \/ CheckCooldown(q) \/ SendEmail(q) \/ SetCooldown(q)
  \/ ListCustomers(q) \/ CreateCustomer(q) \/ SaveCustomer(q)
  \/ RequestFails(q)

-----------------------------------------------------------------------------
(* Tokens and keys                                                         *)

Issued == 1..Len(mails)

Expire(t) ==
  /\ token[t] = "live"
  /\ token' = [token EXCEPT ![t] = "expired"]
  /\ UNCHANGED <<accountVars, customers, mails, mail, inbox, cooldown, requestVars,
                 connected, raced, faults>>

KeyOutlives_Nothing(j) == TRUE

\* Tokens and keys both last 300 seconds, and the key is set after the token
\* was made.
KeyOutlives(j) ==
  \A t \in Issued : mails[t] = j /\ t <= cooldown[j] => token[t] # "live"

ExpireKey(j) ==
  /\ cooldown[j] # 0
  /\ KeyOutlives(j)
  /\ cooldown' = [cooldown EXCEPT ![j] = 0]
  /\ UNCHANGED <<accountVars, customers, mailVars, requestVars, connected, raced, faults>>

\* The user opens the link of a mail that has arrived.
VerifyEmail(t) ==
  /\ t \in inbox
  /\ token[t] = "live"
  /\ mails[t].purpose = "verify"
  /\ account' = [account EXCEPT ![mails[t].user] = "verified"]
  /\ UNCHANGED <<customerId, customers, mailVars, cooldown, requestVars, connected,
                 raced, faults>>

\* A reset token is good for one password.
ResetPassword(t) ==
  /\ t \in inbox
  /\ token[t] = "live"
  /\ mails[t].purpose = "reset"
  /\ token' = [token EXCEPT ![t] = "used"]
  /\ UNCHANGED <<accountVars, customers, mails, mail, inbox, cooldown, requestVars,
                 connected, raced, faults>>

-----------------------------------------------------------------------------
(* The email worker and its connection                                     *)

workerFrame == <<accountVars, customers, mails, token, cooldown, raced>>

ConsumeEmail(t) ==
  /\ connected
  /\ mail[t] = "queued"
  /\ mail' = [mail EXCEPT ![t] = "sending"]
  /\ UNCHANGED <<workerFrame, inbox, requestVars, connected, faults>>

MailSent(t) ==
  /\ mail[t] = "sending"
  /\ mail' = [mail EXCEPT ![t] = "sent"]
  /\ inbox' = inbox \cup {t}
  /\ UNCHANGED <<workerFrame, requestVars, connected, faults>>

AfterError_Dropped == "dead"

\* nack, with requeue.
AfterError == "queued"

\* Resend answers with an error, or the call throws; the mail may have gone out
\* all the same.
MailFailed(t) ==
  /\ mail[t] = "sending"
  /\ Fault
  /\ inbox' \in {inbox, inbox \cup {t}}
  /\ mail' = [mail EXCEPT ![t] = AfterError]
  /\ UNCHANGED <<workerFrame, requestVars, connected>>

\* The broker puts back what was not acknowledged; calls to Resend that are
\* under way come to their end.
ChannelCloses ==
  LET sending == {t \in Issued : mail[t] = "sending"}
  IN  /\ connected' = FALSE
      /\ mail' = [t \in Index |-> IF t \in sending THEN "queued" ELSE mail[t]]
      /\ \E arrived \in SUBSET sending : inbox' = inbox \cup arrived

ConnectionLost ==
  /\ connected
  /\ Fault
  /\ ChannelCloses
  /\ UNCHANGED <<workerFrame, requestVars>>

\* What is written to a connection that breaks is lost, and nobody is told.
LoseEmail(q) ==
  /\ place[q] = "issue"
  /\ connected
  /\ Fault
  /\ Issue(q, "lost")
  /\ UNCHANGED <<accountVars, customers, cooldown, connected, raced>>

\* The process ends, on an answer to a closed channel for one, and its
\* requests with it.
Crash ==
  /\ Fault
  /\ ChannelCloses
  /\ place' = [q \in Request |-> "free"]
  /\ about' = [q \in Request |-> None]
  /\ holds' = [q \in Request |-> 0]
  /\ UNCHANGED workerFrame

Connect ==
  /\ ~connected
  /\ connected' = TRUE
  /\ UNCHANGED <<workerFrame, mail, inbox, requestVars, faults>>

-----------------------------------------------------------------------------

Next ==
  \/ \E q \in Request : RequestStep(q) \/ LoseEmail(q)
  \/ \E t \in Index :
       \/ Expire(t) \/ VerifyEmail(t) \/ ResetPassword(t)
       \/ ConsumeEmail(t) \/ MailSent(t) \/ MailFailed(t)
  \/ \E j \in Job : ExpireKey(j)
  \/ ConnectionLost \/ Crash \/ Connect

Spec == Init /\ [][Next]_vars

\* rabbitmq() tries again five seconds after a connection closed, and Resend
\* answers what the consumer asks.
FairSpec ==
  /\ Spec
  /\ WF_vars(Connect)
  /\ \A t \in Index :
       WF_vars(ConsumeEmail(t)) /\ WF_vars(MailSent(t) \/ MailFailed(t))

-----------------------------------------------------------------------------
(* Properties                                                              *)

Handed == {t \in Issued : mail[t] # "none"}

\* The types, and what refers to what: a user is put off only by a mail that
\* was handed to the queue, a verified user got one, and a customer on record
\* was created.
TypeOK ==
  /\ account \in [User -> {"none", "unverified", "verified"}]
  /\ customerId \in [User -> Nat]
  /\ customers \in [User -> Nat]
  /\ mails \in Seq(Job)
  /\ token \in [Index -> {"none", "live", "expired", "used"}]
  /\ mail \in [Index -> {"none", "queued", "sending", "sent", "lost"}]
  /\ inbox \subseteq Handed
  /\ cooldown \in [Job -> Nat]
  /\ place \in [Request -> {"free", "register", "cooldown", "issue", "remember",
                            "list", "create", "save"}]
  /\ about \in [Request -> Job \cup {None}]
  /\ holds \in [Request -> Nat]
  /\ connected \in BOOLEAN
  /\ raced \subseteq Job
  /\ faults \in 0..MaxFaults
  /\ \A j \in Job : cooldown[j] # 0 =>
       \E t \in Handed : mails[t] = j /\ t <= cooldown[j]
  /\ \A u \in User : customerId[u] <= customers[u]
  /\ \A u \in User : account[u] = "verified" =>
       \E t \in inbox : mails[t] = [user |-> u, purpose |-> "verify"]

\* Two mails with a live token for one purpose, and two customers of one user,
\* take requests of the app's own endpoints that overlap: a user cannot get them
\* by asking there again.  For the mails, an error or a crash between the mail
\* and the key will do as well.  The endpoints better-auth has mounted beside
\* them (app.module.ts:29) read no cooldown key and are not modelled: a second
\* token is one direct request to them away.
OneUnlessRaced ==
  /\ \A s, t \in Handed :
       s # t /\ mails[s] = mails[t] /\ token[s] = "live" /\ token[t] = "live" =>
         mails[s] \in raced \/ faults > 0
  /\ \A u \in User :
       customers[u] > 1 => [user |-> u, purpose |-> "customer"] \in raced

\* Every mail on the queue is sent, whatever connections, processes and calls
\* fail in between.
MailsSettle ==
  \A t \in Index : mail[t] = "queued" ~> mail[t] = "sent"

=============================================================================
