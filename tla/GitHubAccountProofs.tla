------------------------ MODULE GitHubAccountProofs ------------------------
(***************************************************************************)
(* Theorems about GitHubAccount for any accounts, repositories, users,     *)
(* webhooks and faults.                                                    *)
(***************************************************************************)
EXTENDS GitHubAccount, TLAPS

USE DEF githubVars, handlerVars, tableVars, linkVars, githubFrame, otherVars, userFrame

-----------------------------------------------------------------------------
(* Types and foreign keys.                                                 *)

\* A message that was not sent is not handled, and each handler has a message
\* of its own event.
MessageInv ==
  /\ Len(messages) <= MaxMessages
  /\ \A m \in Index : pc[m] # "unsent" => m \in Sent
  /\ \A m \in Sent : messages[m].event = "repository" => \E r \in Repo : messages[m].repos = {r}
  /\ \A m \in Index : pc[m] = "transaction" => messages[m].event = "installation"
  /\ \A m \in Index : pc[m] \in Handling \ {"transaction"} => messages[m].event = "repository"

\* A callback that is under way has its installation.
CallbackInv == \A u \in User : callback[u] \in Pending => asked[u] \in Installation

AccountInv == TypeOK /\ MessageInv /\ CallbackInv

\* The rows alone.
TableTypes ==
  /\ connections \subseteq Installation
  /\ linked \in [Installation -> User \cup {None}]
  /\ born \in [Installation -> Nat]
  /\ repoRow \in [Repo -> connections \cup {None}]
  /\ workflows \subseteq {w \in Workflow : repoRow[w.repo] # None}
  /\ \A i \in Installation : linked[i] # None => i \in connections

\* What an action needs to know of the message it is about.
LEMMA Messages ==
  ASSUME AccountInv, NEW m \in Index, pc[m] # "unsent"
  PROVE  /\ m \in Sent /\ Of(m) \in Installation /\ messages[m] \in MessageType
         /\ pc[m] \in Handling \ {"transaction"} => RepoOf(m) \in Repo
         /\ messages[m].repos \subseteq Repo
  <1>1. m \in Sent /\ messages[m] \in MessageType
    BY DEF AccountInv, TypeOK, MessageInv, Sent
  <1>2. pc[m] \in Handling \ {"transaction"} => RepoOf(m) \in Repo
    <2> SUFFICES ASSUME pc[m] \in Handling \ {"transaction"} PROVE RepoOf(m) \in Repo
      OBVIOUS
    <2>1. PICK r \in Repo : messages[m].repos = {r}
      BY <1>1 DEF AccountInv, MessageInv
    <2>2. RepoOf(m) \in messages[m].repos
      BY <2>1 DEF RepoOf
    <2> QED
      BY <2>1, <2>2
  <1> QED
    BY <1>1, <1>2 DEF MessageType, Of

\* The insertion and the deletion of a connection with what hangs on it.
LEMMA ConnectionRows ==
  ASSUME AccountInv, NEW m \in Index, Of(m) \in Installation,
         \/ CreateConnection(m) /\ ~Connected(Of(m))
         \/ DeleteConnection(m) /\ Connected(Of(m))
  PROVE  TableTypes'
  <1>0. TableTypes /\ None \notin Installation
    BY AccountAssumption DEF AccountInv, TypeOK, TableTypes, AccountAssumption
  <1>1. CASE CreateConnection(m) /\ ~Connected(Of(m))
    BY <1>0, <1>1 DEF TableTypes, CreateConnection, Connected, Workflow
  <1>2. CASE DeleteConnection(m) /\ Connected(Of(m))
    <2>1. /\ connections' = connections \ {Of(m)}
          /\ linked' = [linked EXCEPT ![Of(m)] = None]
          /\ repoRow' = [r \in Repo |-> IF repoRow[r] = Of(m) THEN None ELSE repoRow[r]]
          /\ workflows' = {w \in workflows : w.repo \notin {r \in Repo : repoRow[r] = Of(m)}}
          /\ born' = born
      BY <1>0, <1>2 DEF DeleteConnection, WithoutRepos
    <2>2. repoRow' \in [Repo -> connections' \cup {None}]
      BY <1>0, <2>1 DEF TableTypes
    <2>3. workflows' \subseteq {w \in Workflow : repoRow'[w.repo] # None}
      <3> SUFFICES ASSUME NEW w \in workflows' PROVE w \in Workflow /\ repoRow'[w.repo] # None
        OBVIOUS
      <3>1. w \in Workflow /\ w.repo \in Repo /\ repoRow[w.repo] # None /\ repoRow[w.repo] # Of(m)
        BY <1>0, <2>1 DEF TableTypes, Workflow
      <3> QED
        BY <2>1, <3>1
    <2> QED
      BY <1>0, <2>1, <2>2, <2>3 DEF TableTypes
  <1> QED
    BY <1>1, <1>2

\* The upsert and the deletion of a repository's row.
LEMMA RepositoryRows ==
  ASSUME AccountInv, NEW m \in Index, Of(m) \in Installation, RepoOf(m) \in Repo,
         DeleteRepoRow(m) \/ (StillThere(m) /\ UpsertRepo(m)),
         UNCHANGED <<connections, linked, born>>
  PROVE  TableTypes'
  <1>0. TableTypes /\ None \notin Installation
    BY AccountAssumption DEF AccountInv, TypeOK, TableTypes, AccountAssumption
  <1>1. CASE StillThere(m) /\ UpsertRepo(m)
    <2>1. /\ Of(m) \in connections /\ workflows' = workflows
          /\ \/ repoRow' = [repoRow EXCEPT ![RepoOf(m)] = Of(m)]
             \/ repoRow' = repoRow
      BY <1>1 DEF StillThere, UpsertRepo, Connected
    <2> QED
      BY <1>0, <2>1 DEF TableTypes, Workflow
  <1>2. CASE DeleteRepoRow(m)
    <2>1. /\ repoRow' = [repoRow EXCEPT ![RepoOf(m)] = None]
          /\ workflows' = {w \in workflows : w.repo # RepoOf(m)}
      BY <1>2 DEF DeleteRepoRow, WithoutRepos
    <2>2. workflows' \subseteq {w \in Workflow : repoRow'[w.repo] # None}
      <3> SUFFICES ASSUME NEW w \in workflows' PROVE w \in Workflow /\ repoRow'[w.repo] # None
        OBVIOUS
      <3>1. w \in Workflow /\ w.repo \in Repo /\ repoRow[w.repo] # None /\ w.repo # RepoOf(m)
        BY <1>0, <2>1 DEF TableTypes, Workflow
      <3> QED
        BY <1>0, <2>1, <3>1 DEF TableTypes
    <2> QED
      BY <1>0, <2>1, <2>2 DEF TableTypes
  <1> QED
    BY <1>1, <1>2

\* A webhook that GitHub sends.
LEMMA Reported ==
  ASSUME AccountInv, NEW event \in {"installation", "repository"},
         NEW action \in RepositoryAction \cup {"suspend"}, NEW i \in Installation,
         NEW repos \in SUBSET Repo, event = "repository" => \E r \in Repo : repos = {r},
         Report(event, action, i, repos)
  PROVE  /\ messages' \in Seq(MessageType)
         /\ pc' \in [Index -> {"unsent", "ready"} \cup Handling \cup Answered]
         /\ MessageInv'
  <1> DEFINE n == Len(messages) + 1
             new == [event |-> event, action |-> action, installation |-> i, repos |-> repos]
  <1>1. /\ messages' = Append(messages, new) /\ pc' = [pc EXCEPT ![n] = "ready"]
        /\ Len(messages) < MaxMessages /\ MaxMessages \in Nat
    BY AccountAssumption DEF Report, AccountAssumption
  <1>2. /\ new \in MessageType /\ messages \in Seq(MessageType)
        /\ new.event = event /\ new.repos = repos
        /\ pc \in [Index -> {"unsent", "ready"} \cup Handling \cup Answered]
    BY DEF AccountInv, TypeOK, MessageType
  <1> HIDE DEF new
  <1>3. /\ messages' \in Seq(MessageType) /\ Len(messages') = n /\ n \in Index
        /\ Len(messages) \in Nat
        /\ messages'[n] = new
        /\ \A m \in Sent : messages'[m] = messages[m]
    BY <1>1, <1>2 DEF Index, Sent
  <1>4. Sent' = Sent \cup {n} /\ Sent \subseteq Sent'
    BY <1>3 DEF Sent
  <1>5. /\ pc' \in [Index -> {"unsent", "ready"} \cup Handling \cup Answered]
        /\ pc'[n] = "ready"
        /\ \A m \in Index : m # n => pc'[m] = pc[m]
    BY <1>1, <1>2, <1>3
  <1> HIDE DEF n
  <1>6. \A m \in Index : pc'[m] # "unsent" => m \in Sent'
    BY <1>4, <1>5 DEF AccountInv, MessageInv
  <1>7. \A m \in Sent' : messages'[m].event = "repository" =>
          \E r \in Repo : messages'[m].repos = {r}
    BY <1>2, <1>3, <1>4 DEF AccountInv, MessageInv
  <1>8. \A m \in Index : pc'[m] = "transaction" => messages'[m].event = "installation"
    BY <1>3, <1>5 DEF AccountInv, MessageInv, Handling
  <1>9. \A m \in Index : pc'[m] \in Handling \ {"transaction"} => messages'[m].event = "repository"
    BY <1>3, <1>5 DEF AccountInv, MessageInv, Handling
  <1>10. Len(messages)' <= MaxMessages
    BY <1>1, <1>3 DEF n
  <1> QED
    BY <1>3, <1>5, <1>6, <1>7, <1>8, <1>9, <1>10 DEF MessageInv

\* A handler that goes on.
LEMMA Moved ==
  ASSUME AccountInv, NEW m \in Sent, m \in Index, messages' = messages,
         NEW p \in {"ready"} \cup Handling \cup Answered,
         pc' = [pc EXCEPT ![m] = p],
         p = "transaction" => messages[m].event = "installation",
         p \in Handling \ {"transaction"} => messages[m].event = "repository"
  PROVE  /\ pc' \in [Index -> {"unsent", "ready"} \cup Handling \cup Answered]
         /\ MessageInv'
  <1>1. /\ pc' \in [Index -> {"unsent", "ready"} \cup Handling \cup Answered]
        /\ pc'[m] = p /\ \A n \in Index : n # m => pc'[n] = pc[n]
    BY DEF AccountInv, TypeOK
  <1> QED
    BY <1>1 DEF AccountInv, MessageInv, Sent

\* Steps of GitHub keep the invariant.
LEMMA GitHubTyping ==
  ASSUME AccountInv, GitHub
  PROVE  AccountInv'
  <1>1. \A i \in Installation : ReposOf(i) \in SUBSET Repo
    BY DEF ReposOf
  <1>2. ASSUME UNCHANGED githubFrame, moved' \subseteq Repo,
               installed' \in [Installation -> {"no", "yes", "removed"}],
               home' \in [Repo -> Account \cup {None}],
               messages' \in Seq(MessageType),
               pc' \in [Index -> {"unsent", "ready"} \cup Handling \cup Answered],
               MessageInv'
        PROVE  AccountInv'
    BY <1>2 DEF AccountInv, TypeOK, CallbackInv, Workflow
  <1>3. ASSUME NEW i \in Installation, Install(i) PROVE AccountInv'
    <2>1. Report("installation", "created", i, ReposOf(i))
      BY <1>3 DEF Install
    <2>2. /\ messages' \in Seq(MessageType) /\ MessageInv'
          /\ pc' \in [Index -> {"unsent", "ready"} \cup Handling \cup Answered]
      BY <1>1, <2>1, Reported DEF RepositoryAction
    <2> QED
      BY <1>2, <1>3, <2>2 DEF Install, AccountInv, TypeOK
  <1>4. ASSUME NEW i \in Installation, Uninstall(i) PROVE AccountInv'
    <2>1. Report("installation", "deleted", i, {})
      BY <1>4 DEF Uninstall
    <2>2. /\ messages' \in Seq(MessageType) /\ MessageInv'
          /\ pc' \in [Index -> {"unsent", "ready"} \cup Handling \cup Answered]
      BY <2>1, Reported DEF RepositoryAction
    <2> QED
      BY <1>2, <1>4, <2>2 DEF Uninstall, AccountInv, TypeOK
  <1>5. ASSUME NEW i \in Installation, OtherInstallationEvent(i) PROVE AccountInv'
    <2>1. Report("installation", "suspend", i, {})
      BY <1>5 DEF OtherInstallationEvent
    <2>2. /\ messages' \in Seq(MessageType) /\ MessageInv'
          /\ pc' \in [Index -> {"unsent", "ready"} \cup Handling \cup Answered]
      BY <2>1, Reported
    <2> QED
      BY <1>2, <1>5, <2>2 DEF OtherInstallationEvent, AccountInv, TypeOK
  <1>6. ASSUME NEW i \in Installation, NEW r \in Repo,
               CreateRepo(i, r) \/ DeleteRepo(i, r) \/ EditRepo(i, r)
        PROVE  AccountInv'
    <2>1. PICK action \in RepositoryAction : Report("repository", action, i, {r})
      BY <1>6 DEF CreateRepo, DeleteRepo, EditRepo, RepositoryAction
    <2>2. /\ messages' \in Seq(MessageType) /\ MessageInv'
          /\ pc' \in [Index -> {"unsent", "ready"} \cup Handling \cup Answered]
      BY <2>1, Reported
    <2> QED
      BY <1>2, <1>6, <2>2 DEF CreateRepo, DeleteRepo, EditRepo, AccountInv, TypeOK, Account
  <1>7. ASSUME NEW i \in Installation, NEW j \in Installation, NEW r \in Repo, TransferRepo(i, j, r)
        PROVE  AccountInv'
    <2>1. /\ home' \in [Repo -> Account \cup {None}] /\ UNCHANGED <<installed, githubFrame>>
      BY <1>7 DEF TransferRepo, AccountInv, TypeOK, Account
    <2>2. CASE installed[j] = "yes"
      <3>1. Report("repository", "transferred", j, {r}) /\ moved' = moved
        BY <1>7, <2>2 DEF TransferRepo
      <3>2. /\ messages' \in Seq(MessageType) /\ MessageInv'
            /\ pc' \in [Index -> {"unsent", "ready"} \cup Handling \cup Answered]
        BY <3>1, Reported DEF RepositoryAction
      <3> QED
        BY <1>2, <2>1, <3>1, <3>2 DEF AccountInv, TypeOK
    <2>3. CASE installed[j] # "yes"
      <3>1. UNCHANGED <<messages, pc>> /\ moved' \subseteq Repo
        BY <1>7, <2>3 DEF TransferRepo, AccountInv, TypeOK
      <3>2. MessageInv'
        BY <3>1 DEF AccountInv, MessageInv, Sent
      <3> QED
        BY <1>2, <2>1, <3>1, <3>2 DEF AccountInv, TypeOK
    <2> QED
      BY <2>2, <2>3
  <1> QED
    BY <1>3, <1>4, <1>5, <1>6, <1>7 DEF GitHub

\* A message that is answered, or is left for another delivery.
LEMMA Answers ==
  ASSUME AccountInv, NEW m \in Index, pc[m] # "unsent", messages' = messages,
         NEW p \in {"ready"} \cup Answered, Answer(m, p)
  PROVE  /\ pc' \in [Index -> {"unsent", "ready"} \cup Handling \cup Answered]
         /\ MessageInv'
         /\ known' \in [Index -> Nat]
         /\ owner' \in [Index -> User \cup {None}]
  <1>1. m \in Sent
    BY Messages
  <1>2. p \notin Handling
    BY DEF Handling, Answered
  <1>3. pc' = [pc EXCEPT ![m] = p]
    BY DEF Answer
  <1>4. /\ pc' \in [Index -> {"unsent", "ready"} \cup Handling \cup Answered]
        /\ MessageInv'
    BY <1>1, <1>2, <1>3, Moved DEF Handling
  <1> QED
    BY <1>4 DEF Answer, AccountInv, TypeOK

\* Steps of the worker keep the invariant.
LEMMA WorkerTyping ==
  ASSUME AccountInv, NEW m \in Index, Worker(m) \/ LoseAnswer(m)
  PROVE  AccountInv'
  <1>1. ASSUME UNCHANGED otherVars, TableTypes',
               pc' \in [Index -> {"unsent", "ready"} \cup Handling \cup Answered],
               MessageInv', known' \in [Index -> Nat],
               owner' \in [Index -> User \cup {None}],
               disturbed' \in BOOLEAN, faults' \in 0..MaxFaults
        PROVE  AccountInv'
    BY <1>1 DEF AccountInv, TypeOK, CallbackInv, TableTypes
  <1>2. ASSUME UNCHANGED <<tableVars, workflows>> PROVE TableTypes'
    BY <1>2 DEF AccountInv, TypeOK, TableTypes
  <1>3. /\ known \in [Index -> Nat] /\ owner \in [Index -> User \cup {None}]
        /\ disturbed \in BOOLEAN /\ faults \in 0..MaxFaults
        /\ linked \in [Installation -> User \cup {None}]
        /\ born \in [Installation -> Nat]
    BY DEF AccountInv, TypeOK
  <1>4. CASE Begin(m)
    <2> DEFINE p == IF messages[m].event = "installation" THEN "transaction" ELSE "connection"
    <2>1. /\ m \in Sent /\ pc' = [pc EXCEPT ![m] = p] /\ UNCHANGED <<otherVars, handlerVars, faults>>
          /\ UNCHANGED <<tableVars, workflows>>
          /\ disturbed' = (disturbed \/ \E n \in Sent : n < m /\ pc[n] \notin Answered)
      BY <1>4 DEF Begin, GoTo
    <2>0. disturbed' \in BOOLEAN
      BY <2>1
    <2>2. messages[m].event \in {"installation", "repository"}
      <3>1. pc[m] # "unsent"
        BY <1>4 DEF Begin
      <3>2. messages[m] \in MessageType
        BY <3>1, Messages
      <3> QED
        BY <3>2 DEF MessageType
    <2>3. /\ p \in {"ready"} \cup Handling \cup Answered
          /\ p = "transaction" => messages[m].event = "installation"
          /\ p \in Handling \ {"transaction"} => messages[m].event = "repository"
      BY <2>2 DEF Handling
    <2> HIDE DEF p
    <2>4. /\ pc' \in [Index -> {"unsent", "ready"} \cup Handling \cup Answered]
          /\ MessageInv'
      BY <2>1, <2>3, Moved
    <2> QED
      BY <1>1, <1>2, <1>3, <2>0, <2>1, <2>4
  <1>5. CASE Installation_event(m)
    <2>1. pc[m] # "unsent" /\ UNCHANGED <<otherVars, disturbed, faults>>
      BY <1>5 DEF Installation_event
    <2>2. Of(m) \in Installation
      BY <2>1, Messages
    <2>3. TableTypes' /\ \E p \in {"ready"} \cup Answered : Answer(m, p)
      <3>1. CASE InstallationCreated(m)
        BY <1>2, <2>2, <3>1, ConnectionRows DEF InstallationCreated, KeepRows, Answered
      <3>2. CASE InstallationDeleted(m)
        BY <1>2, <2>2, <3>2, ConnectionRows DEF InstallationDeleted, KeepRows, Answered, MissingConnection
      <3>3. CASE InstallationOther(m)
        BY <1>2, <3>3 DEF InstallationOther, KeepRows, Answered
      <3> QED
        BY <1>5, <3>1, <3>2, <3>3 DEF Installation_event
    <2>4. /\ pc' \in [Index -> {"unsent", "ready"} \cup Handling \cup Answered]
          /\ MessageInv' /\ known' \in [Index -> Nat]
          /\ owner' \in [Index -> User \cup {None}]
      BY <2>1, <2>3, Answers
    <2> QED
      BY <1>1, <1>3, <2>1, <2>3, <2>4
  <1>6. CASE FindConnection(m)
    <2>1. /\ pc[m] = "connection" /\ UNCHANGED <<otherVars, disturbed, faults>>
          /\ UNCHANGED <<tableVars, workflows>>
      BY <1>6 DEF FindConnection
    <2>2. Of(m) \in Installation /\ m \in Sent
      BY <2>1, Messages
    <2>3. CASE Connected(Of(m))
      <3>1. /\ known' = [known EXCEPT ![m] = born[Of(m)]] /\ pc' = [pc EXCEPT ![m] = "table"]
            /\ owner' = owner
        BY <1>6, <2>3 DEF FindConnection, GoTo
      <3>2. messages[m].event = "repository"
        BY <2>1 DEF AccountInv, MessageInv, Handling
      <3>3. /\ pc' \in [Index -> {"unsent", "ready"} \cup Handling \cup Answered]
            /\ MessageInv'
        BY <2>1, <2>2, <3>1, <3>2, Moved DEF Handling
      <3> QED
        BY <1>1, <1>2, <1>3, <2>1, <2>2, <3>1, <3>3
    <2>4. CASE ~Connected(Of(m))
      <3>1. Answer(m, "acked") /\ "acked" \in {"ready"} \cup Answered
        BY <1>6, <2>4 DEF FindConnection, NoConnection, Answered
      <3>2. /\ pc' \in [Index -> {"unsent", "ready"} \cup Handling \cup Answered]
            /\ MessageInv' /\ known' \in [Index -> Nat]
            /\ owner' \in [Index -> User \cup {None}]
        BY <2>1, <3>1, Answers
      <3> QED
        BY <1>1, <1>2, <1>3, <2>1, <3>2
    <2> QED
      BY <2>3, <2>4
  <1>7. CASE KeepTable(m)
    <2>1. /\ pc[m] = "table"
          /\ UNCHANGED <<otherVars, connections, linked, born, disturbed, faults>>
      BY <1>7 DEF KeepTable
    <2>2. /\ Of(m) \in Installation /\ m \in Sent /\ RepoOf(m) \in Repo
          /\ messages[m].event = "repository"
      BY <2>1, Messages DEF AccountInv, MessageInv, Handling
    <2>3. CASE /\ (StillThere(m) /\ UpsertRepo(m)) \/ DeleteRepoRow(m)
               /\ GoTo(m, "owner")
               /\ UNCHANGED handlerVars
      <3>1. TableTypes'
        BY <2>1, <2>2, <2>3, RepositoryRows
      <3>2. pc' = [pc EXCEPT ![m] = "owner"]
        BY <2>3 DEF GoTo
      <3>3. /\ pc' \in [Index -> {"unsent", "ready"} \cup Handling \cup Answered]
            /\ MessageInv'
        BY <2>1, <2>2, <3>2, Moved DEF Handling
      <3> QED
        BY <1>1, <1>3, <2>1, <2>3, <3>1, <3>3
    <2>4. CASE Answer(m, "ready") /\ UNCHANGED <<repoRow, workflows>>
      <3>1. /\ pc' \in [Index -> {"unsent", "ready"} \cup Handling \cup Answered]
            /\ MessageInv' /\ known' \in [Index -> Nat]
            /\ owner' \in [Index -> User \cup {None}]
        BY <2>1, <2>4, Answers
      <3> QED
        BY <1>1, <1>2, <1>3, <2>1, <2>4, <3>1
    <2> QED
      BY <1>7, <2>3, <2>4 DEF KeepTable
  <1>8. CASE FindOwner(m)
    <2>1. /\ pc[m] = "owner" /\ UNCHANGED <<otherVars, disturbed, faults>>
          /\ UNCHANGED <<tableVars, workflows>>
      BY <1>8 DEF FindOwner
    <2>2. Of(m) \in Installation /\ m \in Sent
      BY <2>1, Messages
    <2>3. CASE Connected(Of(m)) /\ linked[Of(m)] # None
      <3>1. /\ owner' = [owner EXCEPT ![m] = linked[Of(m)]]
            /\ known' = [known EXCEPT ![m] = born[Of(m)]] /\ pc' = [pc EXCEPT ![m] = "workflow"]
        BY <1>8, <2>3 DEF FindOwner, GoTo
      <3>2. messages[m].event = "repository"
        BY <2>1 DEF AccountInv, MessageInv, Handling
      <3>3. /\ pc' \in [Index -> {"unsent", "ready"} \cup Handling \cup Answered]
            /\ MessageInv'
        BY <2>1, <2>2, <3>1, <3>2, Moved DEF Handling
      <3>4. owner' \in [Index -> User \cup {None}] /\ known' \in [Index -> Nat]
        BY <1>3, <2>2, <3>1
      <3> QED
        BY <1>1, <1>2, <1>3, <2>1, <3>3, <3>4
    <2>4. CASE ~(Connected(Of(m)) /\ linked[Of(m)] # None)
      <3>1. Answer(m, "acked") /\ "acked" \in {"ready"} \cup Answered
        BY <1>8, <2>4 DEF FindOwner, Answered
      <3>2. /\ pc' \in [Index -> {"unsent", "ready"} \cup Handling \cup Answered]
            /\ MessageInv' /\ known' \in [Index -> Nat]
            /\ owner' \in [Index -> User \cup {None}]
        BY <2>1, <3>1, Answers
      <3> QED
        BY <1>1, <1>2, <1>3, <2>1, <3>2
    <2> QED
      BY <2>3, <2>4
  <1>9. CASE FindWorkflow(m)
    <2>1. /\ pc[m] = "workflow" /\ UNCHANGED <<otherVars, disturbed, faults>>
          /\ UNCHANGED <<tableVars, workflows>>
      BY <1>9 DEF FindWorkflow
    <2>2. \E p \in {"ready"} \cup Answered : Answer(m, p)
      BY <1>9 DEF FindWorkflow, Answered
    <2>3. /\ pc' \in [Index -> {"unsent", "ready"} \cup Handling \cup Answered]
          /\ MessageInv' /\ known' \in [Index -> Nat]
          /\ owner' \in [Index -> User \cup {None}]
      BY <2>1, <2>2, Answers
    <2> QED
      BY <1>1, <1>2, <1>3, <2>1, <2>3
  <1>10. CASE LoseAnswer(m)
    <2>1. /\ pc[m] \in Handling /\ Answer(m, "ready") /\ UNCHANGED otherVars
          /\ disturbed' \in BOOLEAN /\ faults' \in 0..MaxFaults
      BY <1>3, <1>10, AccountAssumption DEF LoseAnswer, AccountAssumption
    <2>2. pc[m] # "unsent"
      BY <2>1 DEF Handling
    <2>3. Of(m) \in Installation
      BY <2>2, Messages
    <2>4. TableTypes'
      <3>1. CASE KeepRows
        BY <1>2, <3>1 DEF KeepRows
      <3>2. CASE \/ ~Connected(Of(m)) /\ CreateConnection(m)
                 \/ Connected(Of(m)) /\ DeleteConnection(m)
        BY <2>3, <3>2, ConnectionRows
      <3>3. CASE /\ pc[m] = "table"
                 /\ DeleteRepoRow(m) \/ (StillThere(m) /\ UpsertRepo(m))
                 /\ UNCHANGED <<connections, linked, born>>
        <4>1. RepoOf(m) \in Repo
          BY <2>2, <3>3, Messages DEF Handling
        <4> QED
          BY <2>3, <3>3, <4>1, RepositoryRows
      <3> QED
        BY <1>10, <3>1, <3>2, <3>3 DEF LoseAnswer
    <2>5. /\ pc' \in [Index -> {"unsent", "ready"} \cup Handling \cup Answered]
          /\ MessageInv' /\ known' \in [Index -> Nat]
          /\ owner' \in [Index -> User \cup {None}]
      BY <2>1, <2>2, Answers
    <2> QED
      BY <1>1, <2>1, <2>4, <2>5
  <1> QED
    BY <1>4, <1>5, <1>6, <1>7, <1>8, <1>9, <1>10 DEF Worker

\* Steps of users keep the invariant.
LEMMA UserTyping ==
  ASSUME AccountInv, NEW u \in User, UserAction(u)
  PROVE  AccountInv'
  <1>1. ASSUME UNCHANGED userFrame,
               linked' \in [Installation -> User \cup {None}],
               \A i \in Installation : linked'[i] # None => i \in connections,
               workflows' \subseteq {w \in Workflow : repoRow[w.repo] # None},
               state' \subseteq User,
               callback' \in [User -> Pending \cup {"none", "notFound", "linked", "lost"}],
               asked' \in [User -> Installation \cup {None}],
               CallbackInv'
        PROVE  AccountInv'
    BY <1>1 DEF AccountInv, TypeOK, MessageInv, Sent
  <1>2. /\ linked \in [Installation -> User \cup {None}]
        /\ \A i \in Installation : linked[i] # None => i \in connections
        /\ workflows \subseteq {w \in Workflow : repoRow[w.repo] # None}
        /\ state \subseteq User
        /\ callback \in [User -> Pending \cup {"none", "notFound", "linked", "lost"}]
        /\ asked \in [User -> Installation \cup {None}]
        /\ CallbackInv
    BY DEF AccountInv, TypeOK
  <1>3. CASE Connect(u)
    <2>1. /\ callback' = [callback EXCEPT ![u] = "none"] /\ asked' = [asked EXCEPT ![u] = None]
          /\ UNCHANGED <<userFrame, linked, workflows>> /\ state' = state \cup {u}
      BY <1>3 DEF Connect
    <2>2. CallbackInv'
      BY <1>2, <2>1 DEF CallbackInv, Pending
    <2> QED
      BY <1>1, <1>2, <2>1, <2>2
  <1>4. CASE Expire(u)
    <2>1. UNCHANGED <<userFrame, linked, workflows, callback, asked>> /\ state' \subseteq User
      BY <1>2, <1>4 DEF Expire
    <2>2. CallbackInv'
      BY <1>2, <2>1 DEF CallbackInv
    <2> QED
      BY <1>1, <1>2, <2>1, <2>2
  <1>5. ASSUME NEW i \in Installation, CheckState(u, i) PROVE AccountInv'
    <2>1. /\ callback' = [callback EXCEPT ![u] = "count"] /\ asked' = [asked EXCEPT ![u] = i]
          /\ UNCHANGED <<userFrame, linked, workflows, state>>
      BY <1>5 DEF CheckState, GoOn
    <2>2. CallbackInv'
      BY <1>2, <2>1 DEF CallbackInv
    <2> QED
      BY <1>1, <1>2, <2>1, <2>2 DEF Pending
  <1>6. CASE CountConnections(u)
    <2>1. PICK p \in {"spend", "notFound"} : callback' = [callback EXCEPT ![u] = p]
      BY <1>6 DEF CountConnections, GoOn
    <2>2. callback[u] = "count" /\ UNCHANGED <<userFrame, linked, workflows, state, asked>>
      BY <1>6 DEF CountConnections
    <2>3. CallbackInv'
      BY <1>2, <2>1, <2>2 DEF CallbackInv, Pending
    <2> QED
      BY <1>1, <1>2, <2>1, <2>2, <2>3 DEF Pending
  <1>7. CASE SpendState(u)
    <2>1. /\ callback' = [callback EXCEPT ![u] = "link"] /\ callback[u] = "spend"
          /\ UNCHANGED <<userFrame, linked, workflows, asked>> /\ state' \subseteq User
      BY <1>2, <1>7 DEF SpendState, GoOn
    <2>2. CallbackInv'
      BY <1>2, <2>1 DEF CallbackInv, Pending
    <2> QED
      BY <1>1, <1>2, <2>1, <2>2 DEF Pending
  <1>8. CASE LinkUser(u)
    <2>1. PICK p \in {"linked", "lost"} : callback' = [callback EXCEPT ![u] = p]
      BY <1>8 DEF LinkUser, GoOn
    <2>2. callback[u] = "link" /\ UNCHANGED <<userFrame, workflows, state, asked>>
      BY <1>8 DEF LinkUser
    <2>3. \/ asked[u] \in connections /\ linked' = [linked EXCEPT ![asked[u]] = u]
          \/ linked' = linked
      BY <1>8 DEF LinkUser, Connected
    <2>4. /\ linked' \in [Installation -> User \cup {None}]
          /\ \A i \in Installation : linked'[i] # None => i \in connections
      BY <1>2, <2>3
    <2>5. CallbackInv'
      BY <1>2, <2>1, <2>2 DEF CallbackInv, Pending
    <2> QED
      BY <1>1, <1>2, <2>1, <2>2, <2>4, <2>5 DEF Pending
  <1>9. ASSUME NEW r \in Repo, NEW action \in Watched, CreateWorkflow(u, r, action)
        PROVE  AccountInv'
    <2>1. /\ UNCHANGED <<userFrame, linked, linkVars>> /\ repoRow[r] # None
          /\ workflows' = workflows \cup {[user |-> u, repo |-> r, action |-> action]}
      BY <1>9 DEF CreateWorkflow
    <2>2. workflows' \subseteq {w \in Workflow : repoRow[w.repo] # None}
      BY <1>2, <2>1 DEF Workflow
    <2>3. CallbackInv'
      BY <1>2, <2>1 DEF CallbackInv
    <2> QED
      BY <1>1, <1>2, <2>1, <2>2, <2>3
  <1> QED
    BY <1>3, <1>4, <1>5, <1>6, <1>7, <1>8, <1>9 DEF UserAction, Callback

\* It holds of empty tables.
LEMMA AccountInit ==
  ASSUME Init PROVE AccountInv
  <1>1. <<>> \in Seq(MessageType) /\ Len(<<>>) = 0
    OBVIOUS
  <1>0. /\ messages \in Seq(MessageType)
        /\ pc \in [Index -> {"unsent", "ready"} \cup Handling \cup Answered]
        /\ home \in [Repo -> Account \cup {None}]
        /\ faults \in 0..MaxFaults
    BY <1>1, AccountAssumption DEF Init, AccountAssumption
  <1>2. TypeOK
    <2>1. /\ connections = {} /\ linked = [i \in Installation |-> None]
          /\ repoRow = [r \in Repo |-> None] /\ workflows = {} /\ state = {} /\ moved = {}
          /\ disturbed = FALSE
      BY DEF Init
    <2>2. /\ installed \in [Installation -> {"no", "yes", "removed"}]
          /\ known \in [Index -> Nat] /\ owner \in [Index -> User \cup {None}]
          /\ born \in [Installation -> Nat]
      BY DEF Init
    <2>3. /\ callback \in [User -> Pending \cup {"none", "notFound", "linked", "lost"}]
          /\ asked \in [User -> Installation \cup {None}]
      BY DEF Init
    <2> QED
      BY <1>0, <2>1, <2>2, <2>3 DEF TypeOK
  <1>3. MessageInv /\ CallbackInv
    BY <1>1, AccountAssumption
    DEF Init, MessageInv, CallbackInv, Pending, Sent, Handling, AccountAssumption
  <1> QED
    BY <1>2, <1>3 DEF AccountInv

\* Every step keeps it.
LEMMA AccountNext ==
  ASSUME AccountInv, [Next]_vars PROVE AccountInv'
  <1>1. CASE UNCHANGED vars
    BY <1>1 DEF vars, AccountInv, TypeOK, MessageInv, CallbackInv, Sent, Workflow
  <1> QED
    BY <1>1, GitHubTyping, WorkerTyping, UserTyping DEF Next

\* Types and foreign keys hold whatever webhooks arrive in whatever order, and
\* whoever links or makes workflows meanwhile.
THEOREM AccountTypes == Spec => []TypeOK
  <1>1. Spec => []AccountInv
    BY AccountInit, AccountNext, PTL DEF Spec
  <1>2. AccountInv => TypeOK
    BY DEF AccountInv
  <1> QED
    BY <1>1, <1>2, PTL

-----------------------------------------------------------------------------
(* The life of a connection.                                               *)

Announces(m, action) == messages[m].event = "installation" /\ messages[m].action = action

\* What GitHub has said of an account: it is created once, removed for good,
\* and has no row before it is created.
HistoryInv ==
  /\ \A m \in Sent : Announces(m, "created") => installed[Of(m)] # "no"
  /\ \A m \in Sent : Announces(m, "deleted") => installed[Of(m)] = "removed"
  /\ \A m, n \in Sent :
       Announces(m, "created") /\ Announces(n, "created") /\ Of(m) = Of(n) => m = n
  /\ \A i \in connections : installed[i] # "no"

\* Without faults a row is there only after its creation was answered, and not
\* after its removal was acknowledged.
GhostInv ==
  faults = 0 =>
    /\ \A m \in Sent :
         Announces(m, "created") /\ pc[m] \notin Answered => Of(m) \notin connections
    /\ \A m \in Sent : Announces(m, "deleted") /\ pc[m] \in {"acked", "triggered"} =>
         /\ Of(m) \notin connections
         /\ \A n \in Sent : Announces(n, "created") /\ Of(n) = Of(m) => pc[n] \in Answered

\* A callback past the count has its connection, or the installation is gone.
LinkInv ==
  \A u \in User :
    /\ callback[u] \in {"spend", "link", "linked", "lost"} => asked[u] \in Installation
    /\ callback[u] \in {"spend", "link"} =>
         asked[u] \in connections \/ installed[asked[u]] = "removed"
    /\ callback[u] = "linked" => linked[asked[u]] # None \/ installed[asked[u]] = "removed"
    /\ callback[u] = "lost" => installed[asked[u]] = "removed"

LifeInv == AccountInv /\ HistoryInv /\ GhostInv /\ LinkInv

\* The messages after GitHub has sent another.
LEMMA Appended ==
  ASSUME AccountInv, NEW event, NEW action, NEW i, NEW repos, Report(event, action, i, repos)
  PROVE  \E n \in Index :
           /\ n \notin Sent /\ Sent' = Sent \cup {n}
           /\ messages'[n] = [event |-> event, action |-> action,
                              installation |-> i, repos |-> repos]
           /\ \A m \in Sent : messages'[m] = messages[m] /\ pc'[m] = pc[m]
           /\ pc'[n] = "ready"
  <1> DEFINE n == Len(messages) + 1
             new == [event |-> event, action |-> action, installation |-> i, repos |-> repos]
  <1>1. /\ messages' = Append(messages, new) /\ pc' = [pc EXCEPT ![n] = "ready"]
        /\ Len(messages) < MaxMessages /\ MaxMessages \in Nat
    BY AccountAssumption DEF Report, AccountAssumption
  <1>2. messages \in Seq(MessageType) /\ DOMAIN pc = Index
    BY DEF AccountInv, TypeOK
  <1> HIDE DEF new
  <1>3. /\ Len(messages) \in Nat /\ n \in Index /\ Len(messages') = n /\ messages'[n] = new
        /\ \A m \in Sent : messages'[m] = messages[m] /\ m \in Index /\ m # n
    BY <1>1, <1>2 DEF Index, Sent
  <1>4. n \notin Sent /\ Sent' = Sent \cup {n}
    BY <1>3 DEF Sent
  <1>5. pc'[n] = "ready" /\ \A m \in Sent : pc'[m] = pc[m]
    BY <1>1, <1>2, <1>3
  <1> QED
    BY <1>3, <1>4, <1>5 DEF new

\* What GitHub does to an account, and what it says of it.
LEMMA GitHubSteps ==
  ASSUME GitHub
  PROVE  /\ UNCHANGED githubFrame
         /\ \/ UNCHANGED <<messages, pc, installed>>
            \/ \E i \in Installation, repos \in SUBSET Repo :
                 \/ /\ \/ Report("installation", "suspend", i, repos)
                       \/ \E action \in RepositoryAction : Report("repository", action, i, repos)
                    /\ UNCHANGED installed
                 \/ /\ Report("installation", "created", i, repos)
                    /\ installed[i] = "no"
                    /\ installed' = [installed EXCEPT ![i] = "yes"]
                 \/ /\ Report("installation", "deleted", i, repos)
                    /\ installed[i] = "yes"
                    /\ installed' = [installed EXCEPT ![i] = "removed"]
  <1>1. ASSUME NEW i \in Installation, Install(i) \/ Uninstall(i) \/ OtherInstallationEvent(i)
        PROVE  UNCHANGED githubFrame /\ \E repos \in SUBSET Repo :
                 \/ Report("installation", "suspend", i, repos) /\ UNCHANGED installed
                 \/ /\ Report("installation", "created", i, repos)
                    /\ installed[i] = "no"
                    /\ installed' = [installed EXCEPT ![i] = "yes"]
                 \/ /\ Report("installation", "deleted", i, repos)
                    /\ installed[i] = "yes"
                    /\ installed' = [installed EXCEPT ![i] = "removed"]
    <2>1. ReposOf(i) \in SUBSET Repo /\ {} \in SUBSET Repo
      BY DEF ReposOf
    <2> QED
      BY <1>1, <2>1 DEF Install, Uninstall, OtherInstallationEvent
  <1>2. ASSUME NEW i \in Installation, NEW r \in Repo,
               CreateRepo(i, r) \/ DeleteRepo(i, r) \/ EditRepo(i, r)
        PROVE  /\ UNCHANGED <<githubFrame, installed>>
               /\ {r} \in SUBSET Repo
               /\ \E action \in RepositoryAction : Report("repository", action, i, {r})
    BY <1>2 DEF CreateRepo, DeleteRepo, EditRepo, RepositoryAction
  <1>3. ASSUME NEW i \in Installation, NEW j \in Installation, NEW r \in Repo, TransferRepo(i, j, r)
        PROVE  /\ UNCHANGED <<githubFrame, installed>>
               /\ \/ UNCHANGED <<messages, pc>>
                  \/ /\ {r} \in SUBSET Repo
                     /\ \E action \in RepositoryAction : Report("repository", action, j, {r})
    BY <1>3 DEF TransferRepo, RepositoryAction
  <1>4. CASE \E i \in Installation : Install(i) \/ Uninstall(i) \/ OtherInstallationEvent(i)
    <2>1. PICK i \in Installation : Install(i) \/ Uninstall(i) \/ OtherInstallationEvent(i)
      BY <1>4
    <2> QED
      BY <1>1, <2>1
  <1>5. CASE \E i \in Installation, r \in Repo :
               CreateRepo(i, r) \/ DeleteRepo(i, r) \/ EditRepo(i, r)
    BY <1>2, <1>5
  <1>6. CASE \E i, j \in Installation, r \in Repo : TransferRepo(i, j, r)
    BY <1>3, <1>6
  <1> QED
    BY <1>4, <1>5, <1>6 DEF GitHub

\* A webhook that was sent has its number, and is about an installation.
LEMMA SentTypes ==
  ASSUME AccountInv, NEW m \in Sent
  PROVE  m \in Index /\ Of(m) \in Installation
  <1>1. /\ messages \in Seq(MessageType) /\ Len(messages) <= MaxMessages
        /\ MaxMessages \in Nat
    BY AccountAssumption DEF AccountInv, TypeOK, MessageInv, AccountAssumption
  <1>2. messages[m] \in MessageType /\ m \in Index
    BY <1>1 DEF Sent, Index
  <1> QED
    BY <1>2 DEF MessageType, Of

\* What happens at GitHub adds to the history and takes nothing from it.
LEMMA LifeGitHub ==
  ASSUME LifeInv, GitHub
  PROVE  HistoryInv' /\ GhostInv' /\ LinkInv'
  <1>1. AccountInv /\ UNCHANGED githubFrame
    BY GitHubSteps DEF LifeInv
  <1>2. /\ installed \in [Installation -> {"no", "yes", "removed"}]
        /\ connections \subseteq Installation
    BY <1>1 DEF AccountInv, TypeOK
  <1>3. \A m \in Sent : m \in Index /\ Of(m) \in Installation
    BY <1>1, SentTypes
  <1>4. CASE UNCHANGED <<messages, pc, installed>>
    BY <1>1, <1>4 DEF LifeInv, HistoryInv, GhostInv, LinkInv, Announces, Of, Sent
  <1>5. ASSUME NEW event, NEW action, NEW i \in Installation, NEW repos,
               Report(event, action, i, repos),
               \/ ~(event = "installation" /\ action \in {"created", "deleted"})
                    /\ installed' = installed
               \/ /\ event = "installation" /\ action = "created" /\ installed[i] = "no"
                  /\ installed' = [installed EXCEPT ![i] = "yes"]
               \/ /\ event = "installation" /\ action = "deleted" /\ installed[i] = "yes"
                  /\ installed' = [installed EXCEPT ![i] = "removed"]
        PROVE  HistoryInv' /\ GhostInv' /\ LinkInv'
    <2>1. PICK n \in Index :
            /\ n \notin Sent /\ Sent' = Sent \cup {n}
            /\ messages'[n] = [event |-> event, action |-> action,
                               installation |-> i, repos |-> repos]
            /\ \A m \in Sent : messages'[m] = messages[m] /\ pc'[m] = pc[m]
            /\ pc'[n] = "ready"
      BY <1>1, <1>5, Appended
    <2>2. \A m \in Sent : /\ Announces(m, "created")' <=> Announces(m, "created")
                          /\ Announces(m, "deleted")' <=> Announces(m, "deleted")
                          /\ Of(m)' = Of(m)
      BY <2>1 DEF Announces, Of
    <2>3. /\ Of(n)' = i
          /\ Announces(n, "created")' <=> event = "installation" /\ action = "created"
          /\ Announces(n, "deleted")' <=> event = "installation" /\ action = "deleted"
      BY <2>1 DEF Announces, Of
    <2>4. \A j \in Installation :
            /\ installed[j] # "no" => installed'[j] # "no"
            /\ installed[j] = "removed" => installed'[j] = "removed"
      BY <1>2, <1>5
    <2>5. HistoryInv
      BY DEF LifeInv
    <2>6. /\ Announces(n, "created")' => installed'[i] # "no" /\ installed[i] = "no"
          /\ Announces(n, "deleted")' => installed'[i] = "removed"
      BY <1>2, <1>5, <2>3
    <2>7. HistoryInv'
      <3>1. \A m \in Sent' : Announces(m, "created")' => installed'[Of(m)'] # "no"
        BY <1>3, <2>1, <2>2, <2>3, <2>4, <2>5, <2>6 DEF HistoryInv
      <3>2. \A m \in Sent' : Announces(m, "deleted")' => installed'[Of(m)'] = "removed"
        BY <1>3, <2>1, <2>2, <2>3, <2>4, <2>5, <2>6 DEF HistoryInv
      <3>3. \A m, k \in Sent' :
              Announces(m, "created")' /\ Announces(k, "created")' /\ Of(m)' = Of(k)' => m = k
        BY <1>3, <2>1, <2>2, <2>3, <2>5, <2>6 DEF HistoryInv
      <3>4. \A j \in connections' : installed'[j] # "no"
        BY <1>1, <1>2, <2>4, <2>5 DEF HistoryInv
      <3> QED
        BY <3>1, <3>2, <3>3, <3>4 DEF HistoryInv
    <2>8. GhostInv'
      <3> SUFFICES ASSUME faults = 0 PROVE GhostInv'
        BY <1>1 DEF GhostInv
      <3>1. /\ \A m \in Sent :
                 Announces(m, "created") /\ pc[m] \notin Answered => Of(m) \notin connections
            /\ \A m \in Sent : Announces(m, "deleted") /\ pc[m] \in {"acked", "triggered"} =>
                 /\ Of(m) \notin connections
                 /\ \A k \in Sent :
                      Announces(k, "created") /\ Of(k) = Of(m) => pc[k] \in Answered
        BY DEF LifeInv, GhostInv
      <3>2. \A m \in Sent' :
              Announces(m, "created")' /\ pc'[m] \notin Answered => Of(m)' \notin connections'
        BY <1>1, <2>1, <2>2, <2>3, <2>5, <2>6, <3>1 DEF HistoryInv
      <3>3. ASSUME NEW m \in Sent', Announces(m, "deleted")', pc'[m] \in {"acked", "triggered"}
            PROVE  /\ Of(m)' \notin connections'
                   /\ \A k \in Sent' :
                        Announces(k, "created")' /\ Of(k)' = Of(m)' => pc'[k] \in Answered
        <4>1. m \in Sent
          BY <2>1, <3>3
        <4>2. Announces(m, "deleted") /\ pc[m] \in {"acked", "triggered"} /\ Of(m)' = Of(m)
          BY <2>1, <2>2, <3>3, <4>1
        <4>3. installed[Of(m)] = "removed"
          BY <2>5, <4>1, <4>2 DEF HistoryInv
        <4> QED
          BY <1>1, <2>1, <2>2, <2>3, <2>6, <3>1, <4>1, <4>2, <4>3
      <3> QED
        BY <3>2, <3>3 DEF GhostInv
    <2>9. LinkInv'
      BY <1>1, <2>4 DEF LifeInv, LinkInv
    <2> QED
      BY <2>7, <2>8, <2>9
  <1>6. CASE ~UNCHANGED <<messages, pc, installed>>
    <2>1. PICK i \in Installation, repos \in SUBSET Repo :
            \/ /\ \/ Report("installation", "suspend", i, repos)
                  \/ \E action \in RepositoryAction : Report("repository", action, i, repos)
               /\ UNCHANGED installed
            \/ /\ Report("installation", "created", i, repos)
               /\ installed[i] = "no"
               /\ installed' = [installed EXCEPT ![i] = "yes"]
            \/ /\ Report("installation", "deleted", i, repos)
               /\ installed[i] = "yes"
               /\ installed' = [installed EXCEPT ![i] = "removed"]
      BY <1>6, GitHubSteps
    <2>2. CASE Report("installation", "suspend", i, repos) /\ UNCHANGED installed
      BY <1>5, <2>2
    <2>3. CASE UNCHANGED installed /\
                 \E action \in RepositoryAction : Report("repository", action, i, repos)
      BY <1>5, <2>3
    <2> QED
      BY <1>5, <2>1, <2>2, <2>3
  <1> QED
    BY <1>4, <1>6

\* What a step of the worker does to the connection of its account, and how it
\* answers.
LEMMA WorkerSteps ==
  ASSUME AccountInv, NEW m \in Index, Worker(m) \/ LoseAnswer(m)
  PROVE  /\ m \in Sent /\ pc[m] \notin Answered /\ pc[m] # "unsent"
         /\ UNCHANGED <<installed, messages, linkVars>>
         /\ faults \in Nat /\ faults' \in Nat /\ faults' >= faults
         /\ \E p : /\ pc' = [pc EXCEPT ![m] = p]
                   /\ \/ /\ UNCHANGED <<connections, linked>>
                         /\ Announces(m, "deleted") => p \notin {"acked", "triggered"}
                      \/ /\ Announces(m, "created") /\ Of(m) \notin connections
                         /\ connections' = connections \cup {Of(m)}
                         /\ linked' = [linked EXCEPT ![Of(m)] = None]
                         /\ p = "acked" \/ faults' > 0
                      \/ /\ Announces(m, "deleted") /\ Of(m) \in connections
                         /\ connections' = connections \ {Of(m)}
                         /\ linked' = [linked EXCEPT ![Of(m)] = None]
                         /\ p = "acked" \/ faults' > 0
  <1>1. MaxFaults \in Nat /\ faults \in Nat
    BY AccountAssumption DEF AccountInv, TypeOK, AccountAssumption
  <1>2. /\ pc[m] \notin Answered /\ pc[m] # "unsent"
        /\ UNCHANGED otherVars
        /\ faults' = faults \/ faults' = faults + 1
    BY DEF Worker, Begin, Installation_event, FindConnection, KeepTable, FindOwner,
           FindWorkflow, LoseAnswer, Handling, Answered
  <1>3. m \in Sent
    BY <1>2, Messages
  <1>4. pc[m] \in Handling \ {"transaction"} => ~Announces(m, "deleted")
    BY DEF AccountInv, MessageInv, Announces
  <1>5. pc[m] = "transaction" => messages[m].event = "installation"
    BY DEF AccountInv, MessageInv
  <1> DEFINE Effect(p) ==
    \/ /\ UNCHANGED <<connections, linked>>
       /\ Announces(m, "deleted") => p \notin {"acked", "triggered"}
    \/ /\ Announces(m, "created") /\ Of(m) \notin connections
       /\ connections' = connections \cup {Of(m)}
       /\ linked' = [linked EXCEPT ![Of(m)] = None]
       /\ p = "acked" \/ faults' > 0
    \/ /\ Announces(m, "deleted") /\ Of(m) \in connections
       /\ connections' = connections \ {Of(m)}
       /\ linked' = [linked EXCEPT ![Of(m)] = None]
       /\ p = "acked" \/ faults' > 0
  <1>10. /\ UNCHANGED <<installed, messages, linkVars>>
         /\ faults' \in Nat /\ faults' >= faults
    BY <1>1, <1>2
  <1> SUFFICES \E p : pc' = [pc EXCEPT ![m] = p] /\ Effect(p)
    BY <1>1, <1>2, <1>3, <1>10, Zenon
  <1> HIDE DEF Effect
  <1>6. CASE Begin(m)
    <2>1. /\ pc' = [pc EXCEPT ![m] = IF messages[m].event = "installation"
                                     THEN "transaction" ELSE "connection"]
          /\ UNCHANGED <<connections, linked>>
      BY <1>6 DEF Begin, GoTo
    <2>2. Effect(IF messages[m].event = "installation" THEN "transaction" ELSE "connection")
      BY <2>1 DEF Effect
    <2> QED
      BY <2>1, <2>2
  <1>7. CASE Installation_event(m)
    <2>1. messages[m].event = "installation"
      BY <1>5, <1>7 DEF Installation_event
    <2>2. CASE InstallationCreated(m)
      <3>1. Announces(m, "created") /\ ~Announces(m, "deleted")
        BY <2>1, <2>2 DEF InstallationCreated, Announces
      <3>2. CASE Answer(m, "acked") /\ ~Connected(Of(m)) /\ CreateConnection(m)
        <4>1. Effect("acked") /\ pc' = [pc EXCEPT ![m] = "acked"]
          BY <3>1, <3>2 DEF Effect, CreateConnection, Connected, Answer
        <4> QED
          BY <4>1
      <3>3. CASE Answer(m, "ready") /\ KeepRows
        <4>1. Effect("ready") /\ pc' = [pc EXCEPT ![m] = "ready"]
          BY <3>1, <3>3 DEF Effect, KeepRows, Answer
        <4> QED
          BY <4>1
      <3> QED
        BY <2>2, <3>2, <3>3 DEF InstallationCreated
    <2>3. CASE InstallationDeleted(m)
      <3>1. Announces(m, "deleted")
        BY <2>1, <2>3 DEF InstallationDeleted, Announces
      <3>2. CASE Answer(m, "acked") /\ Connected(Of(m)) /\ DeleteConnection(m)
        <4>1. Effect("acked") /\ pc' = [pc EXCEPT ![m] = "acked"]
          BY <3>1, <3>2 DEF Effect, DeleteConnection, Connected, Answer
        <4> QED
          BY <4>1
      <3>3. CASE Answer(m, "dead") /\ KeepRows
        <4>1. Effect("dead") /\ pc' = [pc EXCEPT ![m] = "dead"]
          BY <3>3 DEF Effect, KeepRows, Answer
        <4> QED
          BY <4>1
      <3> QED
        BY <2>3, <3>2, <3>3 DEF InstallationDeleted, MissingConnection
    <2>4. CASE InstallationOther(m)
      <3>1. Effect("acked") /\ pc' = [pc EXCEPT ![m] = "acked"]
        BY <2>4 DEF Effect, InstallationOther, KeepRows, Answer, Announces
      <3> QED
        BY <3>1
    <2> QED
      BY <1>7, <2>2, <2>3, <2>4 DEF Installation_event
  <1>8. CASE FindConnection(m) \/ KeepTable(m) \/ FindOwner(m) \/ FindWorkflow(m)
    <2>1. ~Announces(m, "deleted")
      BY <1>4, <1>8 DEF FindConnection, KeepTable, FindOwner, FindWorkflow, Handling
    <2>2. UNCHANGED <<connections, linked>> /\ \E p : pc' = [pc EXCEPT ![m] = p]
      <3>1. CASE FindConnection(m)
        BY <3>1 DEF FindConnection, GoTo, Answer
      <3>2. CASE KeepTable(m)
        BY <3>2 DEF KeepTable, GoTo, Answer
      <3>3. CASE FindOwner(m)
        BY <3>3 DEF FindOwner, GoTo, Answer
      <3>4. CASE FindWorkflow(m)
        BY <3>4 DEF FindWorkflow, Answer
      <3> QED
        BY <1>8, <3>1, <3>2, <3>3, <3>4
    <2>3. PICK p : pc' = [pc EXCEPT ![m] = p]
      BY <2>2
    <2>4. Effect(p)
      BY <2>1, <2>2 DEF Effect
    <2> QED
      BY <2>3, <2>4
  <1>9. CASE LoseAnswer(m)
    <2>1. pc' = [pc EXCEPT ![m] = "ready"] /\ faults' > 0
      BY <1>1, <1>9 DEF LoseAnswer, Answer
    <2>2. \/ UNCHANGED <<connections, linked>>
          \/ /\ Announces(m, "created") /\ Of(m) \notin connections
             /\ connections' = connections \cup {Of(m)}
             /\ linked' = [linked EXCEPT ![Of(m)] = None]
          \/ /\ Announces(m, "deleted") /\ Of(m) \in connections
             /\ connections' = connections \ {Of(m)}
             /\ linked' = [linked EXCEPT ![Of(m)] = None]
      BY <1>5, <1>9
      DEF LoseAnswer, KeepRows, CreateConnection, DeleteConnection, Connected, Announces
    <2>3. Effect("ready")
      BY <2>1, <2>2 DEF Effect
    <2> QED
      BY <2>1, <2>3
  <1> QED
    BY <1>6, <1>7, <1>8, <1>9 DEF Worker

\* A handler, or the loss of its answer, leaves what it did on record.
LEMMA LifeWorker ==
  ASSUME LifeInv, NEW m \in Index, Worker(m) \/ LoseAnswer(m)
  PROVE  HistoryInv' /\ GhostInv' /\ LinkInv'
  <1>1. AccountInv /\ HistoryInv /\ GhostInv /\ LinkInv
    BY DEF LifeInv
  <1>2. /\ m \in Sent /\ pc[m] \notin Answered
        /\ UNCHANGED <<installed, messages, linkVars>>
        /\ faults \in Nat /\ faults' \in Nat /\ faults' >= faults
    BY <1>1, WorkerSteps
  <1>3. PICK p : /\ pc' = [pc EXCEPT ![m] = p]
                 /\ \/ /\ UNCHANGED <<connections, linked>>
                       /\ Announces(m, "deleted") => p \notin {"acked", "triggered"}
                    \/ /\ Announces(m, "created") /\ Of(m) \notin connections
                       /\ connections' = connections \cup {Of(m)}
                       /\ linked' = [linked EXCEPT ![Of(m)] = None]
                       /\ p = "acked" \/ faults' > 0
                    \/ /\ Announces(m, "deleted") /\ Of(m) \in connections
                       /\ connections' = connections \ {Of(m)}
                       /\ linked' = [linked EXCEPT ![Of(m)] = None]
                       /\ p = "acked" \/ faults' > 0
    BY <1>1, WorkerSteps
  <1>4. /\ DOMAIN pc = Index /\ linked \in [Installation -> User \cup {None}]
        /\ \A i \in Installation : linked[i] # None => i \in connections
        /\ \A n \in Sent : n \in Index /\ Of(n) \in Installation
    BY <1>1, SentTypes DEF AccountInv, TypeOK
  <1>5. /\ Sent' = Sent
        /\ \A n \in Sent : /\ Announces(n, "created")' <=> Announces(n, "created")
                           /\ Announces(n, "deleted")' <=> Announces(n, "deleted")
                           /\ Of(n)' = Of(n)
    BY <1>2 DEF Sent, Announces, Of
  <1>6. /\ pc'[m] = p
        /\ \A n \in Sent : n # m => pc'[n] = pc[n]
    BY <1>2, <1>3, <1>4
  <1>7. HistoryInv'
    <2>1. \A i \in connections' : i \in connections \/ (Announces(m, "created") /\ i = Of(m))
      BY <1>3
    <2>2. \A i \in connections' : installed'[i] # "no"
      BY <1>1, <1>2, <2>1 DEF HistoryInv
    <2> QED
      BY <1>1, <1>2, <1>5, <2>2 DEF HistoryInv
  <1>8. GhostInv'
    <2> SUFFICES ASSUME faults' = 0 PROVE GhostInv'
      BY DEF GhostInv
    <2>1. faults = 0
      BY <1>2
    <2>2. /\ \A n \in Sent :
               Announces(n, "created") /\ pc[n] \notin Answered => Of(n) \notin connections
          /\ \A n \in Sent : Announces(n, "deleted") /\ pc[n] \in {"acked", "triggered"} =>
               /\ Of(n) \notin connections
               /\ \A k \in Sent :
                    Announces(k, "created") /\ Of(k) = Of(n) => pc[k] \in Answered
      BY <1>1, <2>1 DEF GhostInv
    <2>3. \A n \in Sent : pc[n] \in Answered => pc'[n] \in Answered
      BY <1>2, <1>6
    <2>4. CASE UNCHANGED connections /\ (Announces(m, "deleted") => p \notin {"acked", "triggered"})
      <3>1. \A n \in Sent' :
              Announces(n, "created")' /\ pc'[n] \notin Answered => Of(n)' \notin connections'
        BY <1>5, <2>2, <2>3, <2>4
      <3>2. \A n \in Sent' : Announces(n, "deleted")' /\ pc'[n] \in {"acked", "triggered"} =>
              /\ Of(n)' \notin connections'
              /\ \A k \in Sent' :
                   Announces(k, "created")' /\ Of(k)' = Of(n)' => pc'[k] \in Answered
        BY <1>5, <1>6, <2>2, <2>3, <2>4
      <3> QED
        BY <3>1, <3>2 DEF GhostInv
    <2>5. CASE /\ Announces(m, "created") /\ p = "acked"
               /\ connections' = connections \cup {Of(m)}
      <3>1. \A n \in Sent : Announces(n, "created") /\ Of(n) = Of(m) => n = m
        BY <1>1, <1>2, <2>5 DEF HistoryInv
      <3>2. p \in Answered
        BY <2>5 DEF Answered
      <3>3. \A n \in Sent' :
              Announces(n, "created")' /\ pc'[n] \notin Answered => Of(n)' \notin connections'
        BY <1>5, <1>6, <2>2, <2>3, <2>5, <3>1, <3>2
      <3>4. messages[m].action # "deleted"
        BY <2>5 DEF Announces
      <3>5. ~Announces(m, "deleted")
        BY <3>4 DEF Announces
      <3>6. \A n \in Sent : Announces(n, "deleted") /\ pc'[n] \in {"acked", "triggered"} =>
              Announces(n, "deleted") /\ pc[n] \in {"acked", "triggered"} /\ Of(n) # Of(m)
        BY <1>2, <1>6, <2>2, <2>5, <3>5
      <3>7. \A n \in Sent' : Announces(n, "deleted")' /\ pc'[n] \in {"acked", "triggered"} =>
              /\ Of(n)' \notin connections'
              /\ \A k \in Sent' :
                   Announces(k, "created")' /\ Of(k)' = Of(n)' => pc'[k] \in Answered
        BY <1>5, <2>2, <2>3, <2>5, <3>6
      <3> QED
        BY <3>3, <3>7 DEF GhostInv
    <2>6. CASE /\ Announces(m, "deleted") /\ Of(m) \in connections
               /\ connections' = connections \ {Of(m)}
      <3>1. \A n \in Sent' :
              Announces(n, "created")' /\ pc'[n] \notin Answered => Of(n)' \notin connections'
        BY <1>5, <2>2, <2>3, <2>6
      <3>2. \A k \in Sent : Announces(k, "created") /\ Of(k) = Of(m) => pc[k] \in Answered
        BY <2>2, <2>6
      <3>3. \A n \in Sent' : Announces(n, "deleted")' /\ pc'[n] \in {"acked", "triggered"} =>
              /\ Of(n)' \notin connections'
              /\ \A k \in Sent' :
                   Announces(k, "created")' /\ Of(k)' = Of(n)' => pc'[k] \in Answered
        BY <1>5, <1>6, <2>2, <2>3, <2>6, <3>2
      <3> QED
        BY <3>1, <3>3 DEF GhostInv
    <2> QED
      BY <1>2, <1>3, <2>4, <2>5, <2>6
  <1>9. LinkInv'
    <2>1. \A i \in Installation : i \in connections => i \in connections' \/ installed'[i] = "removed"
      BY <1>1, <1>2, <1>3 DEF HistoryInv
    <2>2. \A i \in Installation : linked[i] # None => linked'[i] # None \/ installed'[i] = "removed"
      BY <1>1, <1>2, <1>3, <1>4 DEF HistoryInv
    <2> QED
      BY <1>1, <1>2, <2>1, <2>2 DEF LinkInv
  <1> QED
    BY <1>7, <1>8, <1>9

\* A user who connects deletes the state only on the way to a link.
LEMMA LifeUser ==
  ASSUME LifeInv, NEW u \in User, UserAction(u)
  PROVE  HistoryInv' /\ GhostInv' /\ LinkInv'
  <1>1. AccountInv /\ HistoryInv /\ GhostInv /\ LinkInv
    BY DEF LifeInv
  <1>2. UNCHANGED userFrame
    BY DEF UserAction, Callback, Connect, Expire, CheckState, CountConnections, SpendState,
           LinkUser, CreateWorkflow
  <1>3. HistoryInv' /\ GhostInv'
    BY <1>1, <1>2 DEF HistoryInv, GhostInv, Announces, Of, Sent
  <1>4. /\ DOMAIN callback = User /\ DOMAIN asked = User
        /\ linked \in [Installation -> User \cup {None}] /\ None \notin User
        /\ callback[u] \in Pending => asked[u] \in Installation
    BY <1>1, AccountAssumption DEF AccountInv, TypeOK, CallbackInv, AccountAssumption
  <1>5. CASE Connect(u) \/ \E i \in Installation : CheckState(u, i)
    <2>1. /\ callback' = [callback EXCEPT ![u] = "none"] \/ callback' = [callback EXCEPT ![u] = "count"]
          /\ \A v \in User : v # u => asked'[v] = asked[v]
          /\ linked' = linked
      BY <1>4, <1>5 DEF Connect, CheckState, GoOn
    <2> QED
      BY <1>1, <1>2, <1>3, <1>4, <2>1 DEF LinkInv
  <1>6. CASE Expire(u) \/ \E r \in Repo, action \in Watched : CreateWorkflow(u, r, action)
    <2>1. UNCHANGED <<callback, asked, linked>>
      BY <1>6 DEF Expire, CreateWorkflow
    <2> QED
      BY <1>1, <1>2, <1>3, <2>1 DEF LinkInv
  <1>7. CASE CountConnections(u)
    <2>1. /\ callback' = [callback EXCEPT ![u] = IF asked[u] \in connections THEN "spend" ELSE "notFound"]
          /\ asked[u] \in Installation /\ UNCHANGED <<asked, linked>>
      BY <1>4, <1>7 DEF CountConnections, GoOn, Connected, Pending
    <2> QED
      BY <1>1, <1>2, <1>3, <1>4, <2>1 DEF LinkInv
  <1>8. CASE SpendState(u)
    <2>1. /\ callback[u] = "spend" /\ callback' = [callback EXCEPT ![u] = "link"]
          /\ UNCHANGED <<asked, linked>>
      BY <1>8 DEF SpendState, GoOn
    <2> QED
      BY <1>1, <1>2, <1>3, <1>4, <2>1 DEF LinkInv
  <1>9. CASE LinkUser(u)
    <2>1. callback[u] = "link" /\ asked' = asked /\ asked[u] \in Installation
      BY <1>4, <1>9 DEF LinkUser, Pending
    <2>2. CASE asked[u] \in connections
      <3>1. /\ linked' = [linked EXCEPT ![asked[u]] = u]
            /\ callback' = [callback EXCEPT ![u] = "linked"]
        BY <1>9, <2>2 DEF LinkUser, Connected, GoOn
      <3>2. /\ linked'[asked[u]] # None
            /\ \A i \in Installation : linked[i] # None => linked'[i] # None
        BY <1>4, <2>1, <3>1
      <3> QED
        BY <1>1, <1>2, <1>3, <1>4, <2>1, <3>1, <3>2 DEF LinkInv
    <2>3. CASE asked[u] \notin connections
      <3>1. linked' = linked /\ callback' = [callback EXCEPT ![u] = "lost"]
        BY <1>9, <2>3 DEF LinkUser, Connected, GoOn
      <3> QED
        BY <1>1, <1>2, <1>3, <1>4, <2>1, <2>3, <3>1 DEF LinkInv
    <2> QED
      BY <2>2, <2>3
  <1> QED
    BY <1>5, <1>6, <1>7, <1>8, <1>9 DEF UserAction, Callback

\* The histories of installations, ghosts and links hold of every behaviour.
LEMMA Life == Spec => []LifeInv
  <1>1. Init => LifeInv
    <2> SUFFICES ASSUME Init PROVE LifeInv
      OBVIOUS
    <2>1. messages = <<>> /\ connections = {} /\ callback = [u \in User |-> "none"]
      BY DEF Init
    <2>2. Sent = {}
      BY <2>1 DEF Sent
    <2> QED
      BY <2>1, <2>2, AccountInit DEF LifeInv, HistoryInv, GhostInv, LinkInv
  <1>2. LifeInv /\ [Next]_vars => LifeInv'
    <2> SUFFICES ASSUME LifeInv, [Next]_vars PROVE LifeInv'
      OBVIOUS
    <2>1. AccountInv'
      BY AccountNext DEF LifeInv
    <2>2. HistoryInv' /\ GhostInv' /\ LinkInv'
      <3>1. CASE UNCHANGED vars
        BY <3>1 DEF vars, LifeInv, HistoryInv, GhostInv, LinkInv, Announces, Of, Sent
      <3>2. CASE GitHub
        BY <3>2, LifeGitHub
      <3>3. ASSUME NEW m \in Index, Worker(m) \/ LoseAnswer(m)
            PROVE  HistoryInv' /\ GhostInv' /\ LinkInv'
        BY <3>3, LifeWorker
      <3>4. ASSUME NEW u \in User, UserAction(u)
            PROVE  HistoryInv' /\ GhostInv' /\ LinkInv'
        BY <3>4, LifeUser
      <3> QED
        BY <3>1, <3>2, <3>3, <3>4 DEF Next
    <2> QED
      BY <2>1, <2>2 DEF LifeInv
  <1> QED
    BY <1>1, <1>2, PTL DEF Spec

\* Whatever order the worker handles webhooks in: the connection of a removed
\* installation is left behind only with its message on the dead-letter queue,
\* unless an answer of the database was lost.
THEOREM NoSilentGhost == Spec => []GhostIsOnRecord
  <1>1. LifeInv => GhostIsOnRecord
    <2> SUFFICES ASSUME LifeInv, NEW i \in connections, NEW m \in Index,
                        AnnouncedRemoval(m, i), pc[m] \in Answered, faults = 0
                 PROVE  pc[m] = "dead"
      BY AccountAssumption DEF GhostIsOnRecord, LifeInv, AccountInv, TypeOK, AccountAssumption
    <2>1. m \in Sent /\ Announces(m, "deleted") /\ Of(m) = i
      BY DEF AnnouncedRemoval, Announces
    <2>2. pc[m] \notin {"acked", "triggered"}
      BY <2>1 DEF LifeInv, GhostInv
    <2> QED
      BY <2>2 DEF Answered
  <1> QED
    BY <1>1, Life, PTL

\* Whatever happens between the callback's queries: the state is not deleted in
\* vain, but for an installation that is removed meanwhile.
THEOREM NoStateInVain == Spec => []SpentStateLinks
  <1>1. LifeInv => SpentStateLinks
    BY DEF LifeInv, LinkInv, SpentStateLinks
  <1> QED
    BY <1>1, Life, PTL

=============================================================================
