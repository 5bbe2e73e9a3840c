--------------------------- MODULE GitHubAccount ---------------------------
(***************************************************************************)
(* What ShobApp24 knows of GitHub accounts: a connection row for each      *)
(* installation of the app, a row for each repository, and the user a      *)
(* connection is linked to.  GitHub reports changes by webhooks, which the *)
(* worker handles in any order, several at a time; the user links an       *)
(* installation through the connect and callback endpoints.                *)
(*                                                                         *)
(* An account has the app installed once at most, so an account and its    *)
(* installation are one value.  An installation covers all repositories.   *)
(***************************************************************************)
EXTENDS Naturals, Sequences, FiniteSets

CONSTANTS
  Installation,  \* accounts, by the id of the app's installation on them
  Repo,          \* repositories
  User,          \* users of ShobApp24
  Watched,       \* the repository actions users have workflows for
  MaxMessages,   \* how many webhooks GitHub sends
  MaxFaults,     \* how many answers of the database are lost
  None

ASSUME AccountAssumption ==
  /\ MaxMessages \in Nat
  /\ MaxFaults \in Nat
  /\ None \notin Installation /\ None \notin User

VARIABLES
  installed,   \* GitHub: where the app is installed
  home,        \* GitHub: the account each repository is under, or None
  messages,    \* the webhooks sent so far
  pc,          \* where the handling of each stands
  known,       \* the connection a repository handler found
  owner,       \* the user findWorkflow found for it
  connections, \* the connection rows: installations that have one
  linked,      \* the userId column of the connection rows
  born,        \* how often each connection row was created, its id
  repoRow,     \* the repository rows: the connection each belongs to
  workflows,   \* workflow rows of repository events: user, repository, action
  state,       \* Redis: users with a connection state
  callback,    \* the callback request of each user
  asked,       \* the installation it is about
  disturbed,   \* history: handled out of order, or a fault
  moved,       \* history: repositories moved where GitHub does not report to us
  faults

githubVars  == <<installed, home>>
handlerVars == <<known, owner>>
tableVars   == <<connections, linked, born, repoRow>>
linkVars    == <<state, callback, asked>>
vars == <<githubVars, messages, pc, handlerVars, tableVars, workflows,
          linkVars, disturbed, moved, faults>>

Account == Installation
Index   == 1..MaxMessages

RepositoryAction ==
  {"created", "deleted", "edited", "renamed", "publicized", "privatized",
   "archived", "unarchived", "transferred"}

Workflow == [user : User, repo : Repo, action : Watched]

Init ==
  /\ installed = [i \in Installation |-> "no"]
  /\ home \in [Repo -> Account \cup {None}]
  /\ messages = <<>>
  /\ pc = [m \in Index |-> "unsent"]
  /\ known = [m \in Index |-> 0]
  /\ owner = [m \in Index |-> None]
  /\ connections = {}
  /\ linked = [i \in Installation |-> None]
  /\ born = [i \in Installation |-> 0]
  /\ repoRow = [r \in Repo |-> None]
  /\ workflows = {}
  /\ state = {}
  /\ callback = [u \in User |-> "none"]
  /\ asked = [u \in User |-> None]
  /\ disturbed = FALSE
  /\ moved = {}
  /\ faults = 0

-----------------------------------------------------------------------------
(* GitHub                                                                  *)

githubFrame == <<handlerVars, tableVars, workflows, linkVars, disturbed,
                 faults>>

ReposOf(i) == {r \in Repo : home[r] = i}

Report(event, action, i, repos) ==
  /\ Len(messages) < MaxMessages
  /\ messages' = Append(messages, [event |-> event, action |-> action,
                                   installation |-> i, repos |-> repos])
  /\ pc' = [pc EXCEPT ![Len(messages) + 1] = "ready"]

Install(i) ==
  /\ installed[i] = "no"
  /\ installed' = [installed EXCEPT ![i] = "yes"]
  /\ Report("installation", "created", i, ReposOf(i))
  /\ UNCHANGED <<home, moved, githubFrame>>

Uninstall(i) ==
  /\ installed[i] = "yes"
  /\ installed' = [installed EXCEPT ![i] = "removed"]
  /\ Report("installation", "deleted", i, {})
  /\ UNCHANGED <<home, moved, githubFrame>>

OtherInstallationEvent(i) ==
  /\ installed[i] = "yes"
  /\ Report("installation", "suspend", i, {})
  /\ UNCHANGED <<githubVars, moved, githubFrame>>

CreateRepo(i, r) ==
  /\ installed[i] = "yes"
  /\ home[r] = None
  /\ home' = [home EXCEPT ![r] = i]
  /\ Report("repository", "created", i, {r})
  /\ UNCHANGED <<installed, moved, githubFrame>>

DeleteRepo(i, r) ==
  /\ installed[i] = "yes"
  /\ home[r] = i
  /\ home' = [home EXCEPT ![r] = None]
  /\ Report("repository", "deleted", i, {r})
  /\ UNCHANGED <<installed, moved, githubFrame>>

\* Stands for renamed, publicized, privatized, archived and unarchived too.
EditRepo(i, r) ==
  /\ installed[i] = "yes"
  /\ home[r] = i
  /\ Report("repository", "edited", i, {r})
  /\ UNCHANGED <<githubVars, moved, githubFrame>>

\* "sent only to the new owner, who must have the GitHub App installed"; between
\* accounts without the app it concerns nobody.
TransferRepo(i, j, r) ==
  /\ home[r] = i
  /\ i # j
  /\ "yes" \in {installed[i], installed[j]}
  /\ home' = [home EXCEPT ![r] = j]
  /\ IF installed[j] = "yes"
     THEN /\ Report("repository", "transferred", j, {r})
          /\ UNCHANGED moved
     ELSE /\ moved' = moved \cup {r}
          /\ UNCHANGED <<messages, pc>>
  /\ UNCHANGED <<installed, githubFrame>>

GitHub ==
  \/ \E i \in Installation : Install(i) \/ Uninstall(i) \/ OtherInstallationEvent(i)
  \/ \E i \in Installation, r \in Repo : CreateRepo(i, r) \/ DeleteRepo(i, r) \/ EditRepo(i, r)
  \/ \E i, j \in Installation, r \in Repo : TransferRepo(i, j, r)

-----------------------------------------------------------------------------
(* The worker                                                              *)

Sent     == 1..Len(messages)
Answered == {"acked", "triggered", "dead"}
Handling == {"transaction", "connection", "table", "owner", "workflow"}
Pending  == {"count", "spend", "link"}

RepoOf(m) == CHOOSE r \in messages[m].repos : TRUE
Of(m)     == messages[m].installation

otherVars == <<githubVars, messages, linkVars, moved>>

GoTo(m, place) == pc' = [pc EXCEPT ![m] = place]

\* The consumer answers the broker, and the handler's variables are gone.
Answer(m, answer) ==
  /\ pc' = [pc EXCEPT ![m] = answer]
  /\ known' = [known EXCEPT ![m] = 0]
  /\ owner' = [owner EXCEPT ![m] = None]

\* The consumer has no prefetch: a message is begun whatever else is handled.
Begin(m) ==
  /\ m \in Sent
  /\ pc[m] = "ready"
  /\ GoTo(m, IF messages[m].event = "installation" THEN "transaction" ELSE "connection")
  /\ disturbed' = (disturbed \/ \E n \in Sent : n < m /\ pc[n] \notin Answered)
  /\ UNCHANGED <<otherVars, handlerVars, tableVars, workflows, faults>>

Connected(i) == i \in connections

WithoutRepos(gone) == {w \in workflows : w.repo \notin gone}

\* A new connection row has no user; skipDuplicates leaves rows of repositories
\* that are there as they are.
CreateConnection(m) ==
  /\ connections' = connections \cup {Of(m)}
  /\ linked' = [linked EXCEPT ![Of(m)] = None]
  /\ born' = [born EXCEPT ![Of(m)] = @ + 1]
  /\ repoRow' = [r \in Repo |->
       IF r \in messages[m].repos /\ repoRow[r] = None THEN Of(m) ELSE repoRow[r]]
  /\ UNCHANGED workflows

\* Deleting a connection deletes its repositories and their workflows.
DeleteConnection(m) ==
  LET gone == {r \in Repo : repoRow[r] = Of(m)}
  IN  /\ connections' = connections \ {Of(m)}
      /\ linked' = [linked EXCEPT ![Of(m)] = None]
      /\ repoRow' = [r \in Repo |-> IF r \in gone THEN None ELSE repoRow[r]]
      /\ workflows' = WithoutRepos(gone)
      /\ UNCHANGED born

KeepRows == UNCHANGED <<tableVars, workflows>>

\* installationId is unique, so a second creation throws and is requeued.
InstallationCreated(m) ==
  /\ messages[m].action = "created"
  /\ \/ /\ ~Connected(Of(m))
        /\ CreateConnection(m)
        /\ Answer(m, "acked")
     \/ /\ Connected(Of(m))
        /\ KeepRows
        /\ Answer(m, "ready")

MissingConnection_Acked == "acked"

\* A connection that is not there (P2025) kills the message.
MissingConnection == "dead"

InstallationDeleted(m) ==
  /\ messages[m].action = "deleted"
  /\ \/ /\ Connected(Of(m))
        /\ DeleteConnection(m)
        /\ Answer(m, "acked")
     \/ /\ ~Connected(Of(m))
        /\ KeepRows
        /\ Answer(m, MissingConnection)

InstallationOther(m) ==
  /\ messages[m].action \notin {"created", "deleted"}
  /\ Answer(m, "acked")
  /\ KeepRows

Installation_event(m) ==
  /\ pc[m] = "transaction"
  /\ InstallationCreated(m) \/ InstallationDeleted(m) \/ InstallationOther(m)
  /\ UNCHANGED <<otherVars, disturbed, faults>>

NoConnection_Requeued == "ready"

NoConnection == "acked"

\* The repository handler finds the connection; without one it is done.
FindConnection(m) ==
  /\ pc[m] = "connection"
  /\ IF Connected(Of(m))
     THEN /\ known' = [known EXCEPT ![m] = born[Of(m)]]
          /\ GoTo(m, "table")
          /\ UNCHANGED owner
     ELSE Answer(m, NoConnection)
  /\ UNCHANGED <<otherVars, tableVars, workflows, disturbed, faults>>

StillThere_Unchecked(m) == TRUE

\* The row the handler found is still the connection's.
StillThere(m) == Connected(Of(m)) /\ born[Of(m)] = known[m]

Upserted_OnlyNew == {"created", "edited"}

\* The actions whose case upserts the row.
Upserted == RepositoryAction \ {"deleted"}

UpsertRepo(m) ==
  /\ messages[m].action # "deleted"
  /\ repoRow' = IF messages[m].action \in Upserted
                THEN [repoRow EXCEPT ![RepoOf(m)] = Of(m)]
                ELSE repoRow
  /\ UNCHANGED workflows

DeleteRepoRow(m) ==
  /\ messages[m].action = "deleted"
  /\ repoRow' = [repoRow EXCEPT ![RepoOf(m)] = None]
  /\ workflows' = WithoutRepos({RepoOf(m)})

\* The upsert names the connection it found: when that row has gone since, the
\* foreign key refuses it and the message is requeued.
KeepTable(m) ==
  /\ pc[m] = "table"
  /\ \/ /\ \/ StillThere(m) /\ UpsertRepo(m)
           \/ DeleteRepoRow(m)
        /\ GoTo(m, "owner")
        /\ UNCHANGED handlerVars
     \/ /\ ~StillThere(m)
        /\ messages[m].action # "deleted"
        /\ Answer(m, "ready")
        /\ UNCHANGED <<repoRow, workflows>>
  /\ UNCHANGED <<otherVars, connections, linked, born, disturbed, faults>>

\* findWorkflow's two queries: the connection's user, and one of the user's
\* workflows on the repository under that connection.
FindOwner(m) ==
  /\ pc[m] = "owner"
  /\ IF Connected(Of(m)) /\ linked[Of(m)] # None
     THEN /\ owner' = [owner EXCEPT ![m] = linked[Of(m)]]
          /\ known' = [known EXCEPT ![m] = born[Of(m)]]
          /\ GoTo(m, "workflow")
     ELSE Answer(m, "acked")
  /\ UNCHANGED <<otherVars, tableVars, workflows, disturbed, faults>>

Matching(m) ==
  {w \in workflows : /\ w.user = owner[m]
                     /\ w.repo = RepoOf(m)
                     /\ w.action = messages[m].action
                     /\ repoRow[w.repo] = Of(m)
                     /\ born[Of(m)] = known[m]}

\* From here on the handler is that of every event (see EventActions).
FindWorkflow(m) ==
  /\ pc[m] = "workflow"
  /\ Answer(m, IF Matching(m) = {} THEN "acked" ELSE "triggered")
  /\ UNCHANGED <<otherVars, tableVars, workflows, disturbed, faults>>

\* The database's answer is lost, or the process dies waiting for it: the
\* message is delivered again, and what it asked for is done or is not.
LoseAnswer(m) ==
  /\ faults < MaxFaults
  /\ faults' = faults + 1
  /\ disturbed' = TRUE
  /\ pc[m] \in Handling
  /\ Answer(m, "ready")
  /\ \/ KeepRows
     \/ /\ pc[m] = "transaction"
        /\ \/ messages[m].action = "created" /\ ~Connected(Of(m)) /\ CreateConnection(m)
           \/ messages[m].action = "deleted" /\ Connected(Of(m)) /\ DeleteConnection(m)
     \/ /\ pc[m] = "table"
        /\ DeleteRepoRow(m) \/ (StillThere(m) /\ UpsertRepo(m))
        /\ UNCHANGED <<connections, linked, born>>
  /\ UNCHANGED otherVars

Worker(m) ==
  Begin(m) \/ Installation_event(m) \/ FindConnection(m) \/ KeepTable(m)
    \/ FindOwner(m) \/ FindWorkflow(m)

-----------------------------------------------------------------------------
(* The user                                                                *)

userFrame == <<githubVars, messages, pc, handlerVars, connections, born, repoRow,
               disturbed, moved, faults>>

\* A state that expires ten minutes later, and a redirect to GitHub.  A user
\* who is linked does not come again.
Connect(u) ==
  /\ callback[u] \in {"none", "notFound", "lost"}
  /\ u \notin state
  /\ state' = state \cup {u}
  /\ callback' = [callback EXCEPT ![u] = "none"]
  /\ asked' = [asked EXCEPT ![u] = None]
  /\ UNCHANGED <<userFrame, linked, workflows>>

Expire(u) ==
  /\ u \in state
  /\ state' = state \ {u}
  /\ UNCHANGED <<userFrame, linked, workflows, callback, asked>>

GoOn(u, place) == callback' = [callback EXCEPT ![u] = place]

\* GitHub sends the browser back once the app is installed, before or after it
\* sends the webhook.
CheckState(u, i) ==
  /\ callback[u] \in {"none", "notFound", "lost"}
  /\ installed[i] # "no"
  /\ u \in state
  /\ asked' = [asked EXCEPT ![u] = i]
  /\ GoOn(u, "count")
  /\ UNCHANGED <<userFrame, linked, workflows, state>>

CountConnections_SpendFirst(u) ==
  /\ callback[u] = "count"
  /\ GoOn(u, "spend")
  /\ UNCHANGED <<userFrame, linked, workflows, state, asked>>

\* Without a connection the state stays, so that the user may try again.
CountConnections(u) ==
  /\ callback[u] = "count"
  /\ GoOn(u, IF Connected(asked[u]) THEN "spend" ELSE "notFound")
  /\ UNCHANGED <<userFrame, linked, workflows, state, asked>>

SpendState(u) ==
  /\ callback[u] = "spend"
  /\ state' = state \ {u}
  /\ GoOn(u, "link")
  /\ UNCHANGED <<userFrame, linked, workflows, asked>>

\* The update of a row that has gone since throws.
LinkUser(u) ==
  /\ callback[u] = "link"
  /\ IF Connected(asked[u])
     THEN linked' = [linked EXCEPT ![asked[u]] = u] /\ GoOn(u, "linked")
     ELSE UNCHANGED linked /\ GoOn(u, "lost")
  /\ UNCHANGED <<userFrame, workflows, state, asked>>

\* The service checks no more than that there is a row to refer to.
CreateWorkflow(u, r, action) ==
  /\ repoRow[r] # None
  /\ workflows' = workflows \cup {[user |-> u, repo |-> r, action |-> action]}
  /\ UNCHANGED <<userFrame, linked, linkVars>>

Callback(u) == CountConnections(u) \/ SpendState(u) \/ LinkUser(u)

UserAction(u) ==
  \/ Connect(u) \/ Expire(u) \/ Callback(u)
  \/ \E i \in Installation : CheckState(u, i)
  \/ \E r \in Repo, action \in Watched : CreateWorkflow(u, r, action)

-----------------------------------------------------------------------------

Next ==
  \/ GitHub
  \/ \E m \in Index : Worker(m) \/ LoseAnswer(m)
  \/ \E u \in User : UserAction(u)

Spec == Init /\ [][Next]_vars

\* The broker delivers what is ready and every query is answered.
FairSpec == Spec /\ \A m \in Index : WF_vars(Worker(m))

-----------------------------------------------------------------------------
(* Properties                                                              *)

MessageType ==
  [event : {"installation", "repository"},
   action : RepositoryAction \cup {"suspend"},
   installation : Installation, repos : SUBSET Repo]

\* The types, and the foreign keys: a repository row has its connection's row,
\* a workflow its repository's, and a user is linked to rows only, whatever is
\* deleted under the handlers and the callbacks.
TypeOK ==
  /\ installed \in [Installation -> {"no", "yes", "removed"}]
  /\ home \in [Repo -> Account \cup {None}]
  /\ messages \in Seq(MessageType)
  /\ pc \in [Index -> {"unsent", "ready"} \cup Handling \cup Answered]
  /\ known \in [Index -> Nat]
  /\ owner \in [Index -> User \cup {None}]
  /\ connections \subseteq Installation
  /\ linked \in [Installation -> User \cup {None}]
  /\ born \in [Installation -> Nat]
  /\ repoRow \in [Repo -> connections \cup {None}]
  /\ workflows \subseteq {w \in Workflow : repoRow[w.repo] # None}
  /\ \A i \in Installation : linked[i] # None => i \in connections
  /\ state \subseteq User
  /\ callback \in [User -> Pending \cup {"none", "notFound", "linked", "lost"}]
  /\ asked \in [User -> Installation \cup {None}]
  /\ disturbed \in BOOLEAN
  /\ moved \subseteq Repo
  /\ faults \in 0..MaxFaults

Quiet == \A m \in Sent : pc[m] \in Answered

\* When messages were handled in the order GitHub sent them and nothing was
\* lost, the tables mirror GitHub once all are answered: a connection for each
\* installation, and for each repository the connection of the account it is
\* under.  Repositories that went to an account without the app are left out:
\* nobody tells the worker.
MirrorUnlessDisturbed ==
  Quiet /\ ~disturbed =>
    /\ connections = {i \in Installation : installed[i] = "yes"}
    /\ \A r \in Repo \ moved : \A i \in connections : repoRow[r] = i <=> home[r] = i

AnnouncedRemoval(m, i) ==
  /\ m \in Sent
  /\ messages[m].event = "installation"
  /\ messages[m].action = "deleted"
  /\ Of(m) = i

\* The connection of an installation that was removed outlives the handling of
\* the removal only when the removal overtook the creation, and then the
\* message is on the dead-letter queue; or when a query's answer was lost.
GhostIsOnRecord ==
  \A i \in connections, m \in Index :
    AnnouncedRemoval(m, i) /\ pc[m] \in Answered => pc[m] = "dead" \/ faults > 0

\* A callback that has deleted the state has linked the installation to a
\* user, unless the installation was removed under it: a webhook that comes
\* late costs no state.
SpentStateLinks ==
  \A u \in User : callback[u] \in {"linked", "lost"} =>
    linked[asked[u]] # None \/ installed[asked[u]] = "removed"

\* Every message is answered, but for the creation of an installation that has
\* its row already because an answer was lost: it is requeued for as long as the
\* row is there.
WebhooksSettle ==
  \A m \in Index :
    \/ pc[m] = "ready" ~> pc[m] \in Answered
    \/ <>[](/\ m \in Sent
            /\ messages[m].event = "installation" /\ messages[m].action = "created"
            /\ Connected(Of(m)) /\ faults > 0)

=============================================================================
