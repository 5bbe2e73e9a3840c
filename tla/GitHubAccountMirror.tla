------------------------ MODULE GitHubAccountMirror ------------------------
(***************************************************************************)
(* Webhooks that are handled in the order they were sent make the tables   *)
(* mirror GitHub, for any accounts, repositories, users and webhooks.      *)
(*                                                                         *)
(* The proof looks at a repository through the webhooks that mention it:   *)
(* the last one sent says which account it is under, the last one handled  *)
(* says what its row is, and once all are handled they are the same.       *)
(***************************************************************************)
EXTENDS GitHubAccountProofs

USE DEF githubVars, handlerVars, tableVars, linkVars, githubFrame, otherVars, userFrame

-----------------------------------------------------------------------------
(* What the webhooks tell of GitHub.                                       *)

Mentions(m, r) == r \in messages[m].repos

\* The repository is gone, or under the account the webhook is about.
RepoGone(m) == messages[m].event = "repository" /\ messages[m].action = "deleted"
Says(m)     == IF RepoGone(m) THEN None ELSE Of(m)

LastSent(m, r) ==
  m \in Sent /\ Mentions(m, r) /\ \A n \in Sent : Mentions(n, r) => n <= m

\* An account is installed and removed as its webhooks say, the creation is the
\* first of them and the deletion the last.
AccountStory ==
  /\ \A i \in Installation : installed[i] = "no" => \A m \in Sent : Of(m) # i
  /\ \A i \in Installation : installed[i] # "no" =>
       \E m \in Sent : Announces(m, "created") /\ Of(m) = i
  /\ \A i \in Installation : installed[i] = "removed" =>
       \E m \in Sent : Announces(m, "deleted") /\ Of(m) = i
  /\ \A m \in Sent : \E n \in Sent : n <= m /\ Announces(n, "created") /\ Of(n) = Of(m)
  /\ \A m, d \in Sent : Announces(d, "deleted") /\ Of(d) = Of(m) => m <= d

\* A repository that never went to an account without the app is where the last
\* webhook that mentions it says; a creation that lists it is the first.
RepoStory ==
  /\ \A m \in Sent : messages[m].event = "repository" => messages[m].action \in RepositoryAction
  /\ \A m \in Sent : messages[m].event = "installation" =>
       Announces(m, "created") \/ messages[m].repos = {}
  /\ \A r \in Repo \ moved : \A m, n \in Sent :
       Announces(m, "created") /\ Mentions(m, r) /\ Mentions(n, r) => m <= n
  /\ \A r \in Repo \ moved :
       \/ \E m \in Sent : LastSent(m, r) /\ home[r] = Says(m)
       \/ /\ \A m \in Sent : ~Mentions(m, r)
          /\ \A i \in Installation : home[r] = i => installed[i] = "no"

StoryInv == AccountStory /\ RepoStory

-----------------------------------------------------------------------------
(* What the tables tell of the webhooks.                                   *)

\* The table has been written.
Applied(m) == pc[m] \in Answered \cup {"owner", "workflow"}

LastApplied(m, r) ==
  /\ m \in Sent /\ Applied(m) /\ Mentions(m, r)
  /\ \A n \in Sent : Applied(n) /\ Mentions(n, r) => n <= m

InOrderInv == \A m, n \in Sent : m < n /\ pc[n] # "ready" => pc[m] \in Answered

\* A connection is there between the handling of its creation and of its
\* deletion, and while a handler relies on it.
ConnectionInv ==
  /\ \A i \in Installation :
       i \in connections <=>
         /\ \E m \in Sent : Announces(m, "created") /\ Of(m) = i /\ pc[m] \in Answered
         /\ \A m \in Sent : Announces(m, "deleted") /\ Of(m) = i => pc[m] \notin Answered
  /\ \A m \in Sent : pc[m] = "table" => StillThere(m)

\* A row is what the last webhook handled says of it, as long as the account
\* has its connection.
RowInv ==
  \A r \in Repo \ moved :
    \/ repoRow[r] = None /\ \A m \in Sent : Applied(m) => ~Mentions(m, r)
    \/ \E m \in Sent : /\ LastApplied(m, r)
                       /\ repoRow[r] = IF Says(m) \in connections THEN Says(m) ELSE None

MirrorInv == ~disturbed => InOrderInv /\ ConnectionInv /\ RowInv

-----------------------------------------------------------------------------
(* GitHub's side.                                                          *)

\* A new webhook comes after all that were sent.
LEMMA Latest ==
  ASSUME AccountInv, NEW event, NEW action, NEW i, NEW repos, Report(event, action, i, repos)
  PROVE  \E n \in Index :
           /\ n \notin Sent /\ Sent' = Sent \cup {n}
           /\ Of(n)' = i
           /\ Announces(n, "created")' <=> event = "installation" /\ action = "created"
           /\ Announces(n, "deleted")' <=> event = "installation" /\ action = "deleted"
           /\ messages'[n].event = event
           /\ messages'[n].action = action
           /\ messages'[n].repos = repos
           /\ RepoGone(n)' <=> event = "repository" /\ action = "deleted"
           /\ pc'[n] = "ready"
           /\ \A m \in Sent : m \in Nat /\ m < n
           /\ \A m \in Sent : messages'[m] = messages[m] /\ pc'[m] = pc[m]
           /\ \A m \in Sent :
                /\ Of(m)' = Of(m)
                /\ Announces(m, "created")' <=> Announces(m, "created")
                /\ Announces(m, "deleted")' <=> Announces(m, "deleted")
                /\ Says(m)' = Says(m)
  <1>1. PICK n \in Index :
          /\ n \notin Sent /\ Sent' = Sent \cup {n}
          /\ messages'[n] = [event |-> event, action |-> action,
                             installation |-> i, repos |-> repos]
          /\ \A m \in Sent : messages'[m] = messages[m] /\ pc'[m] = pc[m]
          /\ pc'[n] = "ready"
    BY Appended
  <1>2. Len(messages) \in Nat /\ MaxMessages \in Nat
    BY AccountAssumption DEF AccountInv, TypeOK, AccountAssumption
  <1>3. \A m \in Sent : m \in Nat /\ m < n
    BY <1>1, <1>2 DEF Sent, Index
  <1>4. /\ Of(n)' = i
        /\ Announces(n, "created")' <=> event = "installation" /\ action = "created"
        /\ Announces(n, "deleted")' <=> event = "installation" /\ action = "deleted"
        /\ messages'[n].event = event /\ messages'[n].action = action
        /\ messages'[n].repos = repos
        /\ RepoGone(n)' <=> event = "repository" /\ action = "deleted"
    BY <1>1 DEF Of, Announces, RepoGone
  <1>5. \A m \in Sent : /\ Of(m)' = Of(m)
                        /\ Announces(m, "created")' <=> Announces(m, "created")
                        /\ Announces(m, "deleted")' <=> Announces(m, "deleted")
                        /\ Says(m)' = Says(m)
    BY <1>1 DEF Of, Announces, Says, RepoGone
  <1> QED
    BY <1>1, <1>3, <1>4, <1>5

\* The reports there are, with what they say of GitHub.
Reports(event, action, i, repos) ==
  /\ Report(event, action, i, repos)
  /\ \/ /\ event = "installation" /\ action = "created"
        /\ installed[i] = "no" /\ installed' = [installed EXCEPT ![i] = "yes"]
        /\ repos = ReposOf(i) /\ home' = home
     \/ /\ event = "installation" /\ action = "deleted"
        /\ installed[i] = "yes" /\ installed' = [installed EXCEPT ![i] = "removed"]
        /\ repos = {} /\ home' = home
     \/ /\ event = "installation" /\ action = "suspend"
        /\ installed[i] = "yes" /\ installed' = installed
        /\ repos = {} /\ home' = home
     \/ /\ event = "repository" /\ action \in RepositoryAction
        /\ installed[i] = "yes" /\ installed' = installed
        /\ \E r \in Repo :
             /\ repos = {r}
             /\ home' = [home EXCEPT ![r] = IF action = "deleted" THEN None ELSE i]

\* GitHub reports what it does, but for repositories that go where the app is
\* not.
LEMMA GitHubTells ==
  ASSUME AccountInv, GitHub
  PROVE  /\ UNCHANGED githubFrame
         /\ \/ \E event, action : \E i \in Installation, repos \in SUBSET Repo :
                 Reports(event, action, i, repos) /\ moved' = moved
            \/ \E r \in Repo, j \in Installation :
                 /\ UNCHANGED <<messages, pc, installed>>
                 /\ home' = [home EXCEPT ![r] = j] /\ moved' = moved \cup {r}
  <1>1. home \in [Repo -> Account \cup {None}]
    BY DEF AccountInv, TypeOK
  <1>2. ASSUME NEW i \in Installation, Install(i) \/ Uninstall(i) \/ OtherInstallationEvent(i)
        PROVE  UNCHANGED <<githubFrame, moved>> /\ \E event, action : \E repos \in SUBSET Repo :
                 Reports(event, action, i, repos)
    <2>1. ReposOf(i) \in SUBSET Repo /\ {} \in SUBSET Repo
      BY DEF ReposOf
    <2>2. CASE Install(i)
      <3>1. /\ Reports("installation", "created", i, ReposOf(i))
            /\ UNCHANGED <<githubFrame, moved>>
        BY <2>2 DEF Install, Reports
      <3> QED
        BY <2>1, <3>1
    <2>3. CASE Uninstall(i)
      <3>1. Reports("installation", "deleted", i, {}) /\ UNCHANGED <<githubFrame, moved>>
        BY <2>3 DEF Uninstall, Reports
      <3> QED
        BY <2>1, <3>1
    <2>4. CASE OtherInstallationEvent(i)
      <3>1. Reports("installation", "suspend", i, {}) /\ UNCHANGED <<githubFrame, moved>>
        BY <2>4 DEF OtherInstallationEvent, Reports
      <3> QED
        BY <2>1, <3>1
    <2> QED
      BY <1>2, <2>2, <2>3, <2>4
  <1>3. ASSUME NEW i \in Installation, NEW r \in Repo,
               CreateRepo(i, r) \/ DeleteRepo(i, r) \/ EditRepo(i, r)
        PROVE  UNCHANGED <<githubFrame, moved>> /\ \E event, action : \E repos \in SUBSET Repo :
                 Reports(event, action, i, repos)
    <2>1. {r} \in SUBSET Repo
      OBVIOUS
    <2>2. CASE CreateRepo(i, r)
      <3>1. Reports("repository", "created", i, {r}) /\ UNCHANGED <<githubFrame, moved>>
        BY <2>2 DEF CreateRepo, Reports, RepositoryAction
      <3> QED
        BY <2>1, <3>1
    <2>3. CASE DeleteRepo(i, r)
      <3>1. Reports("repository", "deleted", i, {r}) /\ UNCHANGED <<githubFrame, moved>>
        BY <2>3 DEF DeleteRepo, Reports, RepositoryAction
      <3> QED
        BY <2>1, <3>1
    <2>4. CASE EditRepo(i, r)
      <3>1. home' = [home EXCEPT ![r] = i]
        BY <1>1, <2>4 DEF EditRepo
      <3>2. Reports("repository", "edited", i, {r}) /\ UNCHANGED <<githubFrame, moved>>
        BY <2>4, <3>1 DEF EditRepo, Reports, RepositoryAction
      <3> QED
        BY <2>1, <3>2
    <2> QED
      BY <1>3, <2>2, <2>3, <2>4
  <1>4. ASSUME NEW i \in Installation, NEW j \in Installation, NEW r \in Repo, TransferRepo(i, j, r)
        PROVE  /\ UNCHANGED githubFrame
               /\ \/ \E event, action : \E repos \in SUBSET Repo :
                       Reports(event, action, j, repos) /\ moved' = moved
                  \/ /\ UNCHANGED <<messages, pc, installed>>
                     /\ home' = [home EXCEPT ![r] = j] /\ moved' = moved \cup {r}
    <2>1. {r} \in SUBSET Repo
      OBVIOUS
    <2>2. CASE installed[j] = "yes"
      <3>1. /\ Reports("repository", "transferred", j, {r}) /\ moved' = moved
            /\ UNCHANGED githubFrame
        BY <1>4, <2>2 DEF TransferRepo, Reports, RepositoryAction
      <3> QED
        BY <2>1, <3>1
    <2>3. CASE installed[j] # "yes"
      BY <1>4, <2>3 DEF TransferRepo
    <2> QED
      BY <2>2, <2>3
  <1> QED
    BY <1>2, <1>3, <1>4 DEF GitHub

\* A report keeps the story true.
LEMMA StoryTold ==
  ASSUME LifeInv, StoryInv, NEW event, NEW action, NEW i \in Installation,
         NEW repos \in SUBSET Repo, Reports(event, action, i, repos), moved' = moved
  PROVE  StoryInv'
  <1>1. AccountInv /\ HistoryInv /\ Report(event, action, i, repos)
    BY DEF LifeInv, Reports
  <1>2. /\ installed \in [Installation -> {"no", "yes", "removed"}]
        /\ home \in [Repo -> Installation \cup {None}]
        /\ None \notin Installation
    BY <1>1, AccountAssumption DEF AccountInv, TypeOK, AccountAssumption, Account
  <1>3. PICK n \in Index :
           /\ n \notin Sent /\ Sent' = Sent \cup {n}
           /\ Of(n)' = i
           /\ Announces(n, "created")' <=> event = "installation" /\ action = "created"
           /\ Announces(n, "deleted")' <=> event = "installation" /\ action = "deleted"
           /\ messages'[n].event = event
           /\ messages'[n].action = action
           /\ messages'[n].repos = repos
           /\ RepoGone(n)' <=> event = "repository" /\ action = "deleted"
           /\ pc'[n] = "ready"
           /\ \A m \in Sent : m \in Nat /\ m < n
           /\ \A m \in Sent : messages'[m] = messages[m] /\ pc'[m] = pc[m]
           /\ \A m \in Sent :
                /\ Of(m)' = Of(m)
                /\ Announces(m, "created")' <=> Announces(m, "created")
                /\ Announces(m, "deleted")' <=> Announces(m, "deleted")
                /\ Says(m)' = Says(m)
    BY <1>1, Latest
  <1>4. /\ \A m \in Sent : Of(m) \in Installation
        /\ n \in Nat
    BY <1>1, SentTypes DEF Index
  <1>5. /\ \A j \in Installation : j # i => installed'[j] = installed[j]
        /\ installed'[i] # "no"
        /\ installed'[i] = "removed" => event = "installation" /\ action = "deleted"
        /\ installed[i] = "no" => event = "installation" /\ action = "created"
        /\ installed[i] # "removed"
    BY <1>2 DEF Reports
  <1>6. AccountStory'
    <2>1. \A j \in Installation : installed'[j] = "no" => \A m \in Sent' : Of(m)' # j
      BY <1>3, <1>5 DEF StoryInv, AccountStory
    <2>2. \A j \in Installation : installed'[j] # "no" =>
            \E m \in Sent' : Announces(m, "created")' /\ Of(m)' = j
      <3> SUFFICES ASSUME NEW j \in Installation, installed'[j] # "no"
                   PROVE  \E m \in Sent' : Announces(m, "created")' /\ Of(m)' = j
        OBVIOUS
      <3>1. CASE installed[j] # "no"
        <4>1. PICK m \in Sent : Announces(m, "created") /\ Of(m) = j
          BY <3>1 DEF StoryInv, AccountStory
        <4> QED
          BY <1>3, <4>1
      <3>2. CASE installed[j] = "no"
        <4>1. j = i /\ event = "installation" /\ action = "created"
          BY <1>5, <3>2
        <4> QED
          BY <1>3, <4>1
      <3> QED
        BY <3>1, <3>2
    <2>3. \A j \in Installation : installed'[j] = "removed" =>
            \E m \in Sent' : Announces(m, "deleted")' /\ Of(m)' = j
      <3> SUFFICES ASSUME NEW j \in Installation, installed'[j] = "removed"
                   PROVE  \E m \in Sent' : Announces(m, "deleted")' /\ Of(m)' = j
        OBVIOUS
      <3>1. CASE j # i
        <4>1. PICK m \in Sent : Announces(m, "deleted") /\ Of(m) = j
          BY <1>5, <3>1 DEF StoryInv, AccountStory
        <4> QED
          BY <1>3, <4>1
      <3>2. CASE j = i
        BY <1>3, <1>5, <3>2
      <3> QED
        BY <3>1, <3>2
    <2>4. \A m \in Sent' : \E k \in Sent' :
            k <= m /\ Announces(k, "created")' /\ Of(k)' = Of(m)'
      <3> SUFFICES ASSUME NEW m \in Sent'
                   PROVE  \E k \in Sent' : k <= m /\ Announces(k, "created")' /\ Of(k)' = Of(m)'
        OBVIOUS
      <3>1. CASE m \in Sent
        <4>1. PICK k \in Sent : k <= m /\ Announces(k, "created") /\ Of(k) = Of(m)
          BY <3>1 DEF StoryInv, AccountStory
        <4> QED
          BY <1>3, <3>1, <4>1
      <3>2. CASE m = n /\ installed[i] # "no"
        <4>1. PICK k \in Sent : Announces(k, "created") /\ Of(k) = i
          BY <3>2 DEF StoryInv, AccountStory
        <4>2. k <= n
          BY <1>3, <1>4, <4>1
        <4> QED
          BY <1>3, <3>2, <4>1, <4>2
      <3>3. CASE m = n /\ installed[i] = "no"
        <4>1. event = "installation" /\ action = "created" /\ n <= n
          BY <1>4, <1>5, <3>3
        <4> QED
          BY <1>3, <3>3, <4>1
      <3> QED
        BY <1>3, <3>1, <3>2, <3>3
    <2>5. \A m, d \in Sent' : Announces(d, "deleted")' /\ Of(d)' = Of(m)' => m <= d
      <3> SUFFICES ASSUME NEW m \in Sent', NEW d \in Sent', Announces(d, "deleted")',
                          Of(d)' = Of(m)'
                   PROVE  m <= d
        OBVIOUS
      <3>1. CASE d = n
        BY <1>3, <1>4, <3>1
      <3>2. CASE d \in Sent /\ m \in Sent
        BY <1>3, <3>2 DEF StoryInv, AccountStory
      <3>3. CASE d \in Sent /\ m = n
        <4>1. Announces(d, "deleted") /\ Of(d) = i
          BY <1>3, <3>3
        <4>2. installed[i] = "removed"
          BY <1>1, <3>3, <4>1 DEF HistoryInv
        <4> QED
          BY <1>5, <4>2
      <3> QED
        BY <1>3, <3>1, <3>2, <3>3
    <2> QED
      BY <2>1, <2>2, <2>3, <2>4, <2>5 DEF AccountStory
  <1>7. RepoStory'
    <2>1. \A r \in Repo : /\ Mentions(n, r)' <=> r \in repos
                          /\ \A m \in Sent : Mentions(m, r)' <=> Mentions(m, r)
      BY <1>3 DEF Mentions
    <2>2. \A m \in Sent' : messages'[m].event = "installation" =>
            Announces(m, "created")' \/ messages'[m].repos = {}
      <3>1. event = "installation" => action = "created" \/ repos = {}
        BY DEF Reports
      <3>2. \A m \in Sent : messages[m].event = "installation" =>
              Announces(m, "created") \/ messages[m].repos = {}
        BY DEF StoryInv, RepoStory
      <3> QED
        BY <1>3, <3>1, <3>2
    <2>2a. \A m \in Sent' : messages'[m].event = "repository" =>
            messages'[m].action \in RepositoryAction
      <3>1. event = "repository" => action \in RepositoryAction
        BY DEF Reports
      <3>2. \A m \in Sent : messages[m].event = "repository" =>
              messages[m].action \in RepositoryAction
        BY DEF StoryInv, RepoStory
      <3> QED
        BY <1>3, <3>1, <3>2
    <2>3. ASSUME NEW r \in Repo \ moved, NEW m \in Sent', NEW k \in Sent',
                 Announces(m, "created")', Mentions(m, r)', Mentions(k, r)'
          PROVE  m <= k
      <3>1. CASE k = n
        BY <1>3, <1>4, <3>1
      <3>2. CASE m \in Sent /\ k \in Sent
        BY <1>3, <2>1, <2>3, <3>2 DEF StoryInv, RepoStory
      <3>3. CASE m = n /\ k \in Sent
        <4>1. event = "installation" /\ action = "created"
          BY <1>3, <2>3, <3>3
        <4>2. installed[i] = "no" /\ repos = ReposOf(i)
          BY <4>1 DEF Reports
        <4>3. home[r] = i
          BY <2>1, <2>3, <3>3, <4>2 DEF ReposOf
        <4>4. Mentions(k, r)
          BY <2>1, <2>3, <3>3
        <4>5. PICK l \in Sent : home[r] = Says(l)
          BY <3>3, <4>4 DEF StoryInv, RepoStory
        <4>6. Of(l) = i
          BY <1>2, <4>3, <4>5 DEF Says
        <4> QED
          BY <4>2, <4>6 DEF StoryInv, AccountStory
      <3> QED
        BY <1>3, <3>1, <3>2, <3>3
    <2>4. ASSUME NEW r \in Repo \ moved
          PROVE  \/ \E m \in Sent' : LastSent(m, r)' /\ home'[r] = Says(m)'
                 \/ /\ \A m \in Sent' : ~Mentions(m, r)'
                    /\ \A j \in Installation : home'[r] = j => installed'[j] = "no"
      <3>1. CASE r \in repos
        <4>1. LastSent(n, r)'
          <5>1. n \in Sent' /\ Mentions(n, r)'
            BY <1>3, <2>1, <3>1
          <5>2. \A k \in Sent' : k <= n
            BY <1>3, <1>4
          <5> QED
            BY <5>1, <5>2 DEF LastSent
        <4>2. home'[r] = Says(n)'
          <5>1. Says(n)' = IF event = "repository" /\ action = "deleted" THEN None ELSE i
            BY <1>3 DEF Says
          <5>2. home'[r] = IF event = "repository" /\ action = "deleted" THEN None ELSE i
            BY <1>2, <3>1 DEF Reports, ReposOf
          <5> QED
            BY <5>1, <5>2
        <4> QED
          BY <1>3, <4>1, <4>2
      <3>2. CASE r \notin repos
        <4>1. home'[r] = home[r]
          BY <1>2, <3>2 DEF Reports
        <4>2. ~Mentions(n, r)'
          BY <2>1, <3>2
        <4>3. CASE \E m \in Sent : LastSent(m, r) /\ home[r] = Says(m)
          <5>1. PICK m \in Sent : LastSent(m, r) /\ home[r] = Says(m)
            BY <4>3
          <5>2. Mentions(m, r) /\ \A k \in Sent : Mentions(k, r) => k <= m
            BY <5>1 DEF LastSent
          <5>3. m \in Sent' /\ Mentions(m, r)' /\ \A k \in Sent' : Mentions(k, r)' => k <= m
            BY <1>3, <2>1, <4>2, <5>1, <5>2
          <5>4. LastSent(m, r)'
            BY <5>3 DEF LastSent
          <5> QED
            BY <1>3, <4>1, <5>1, <5>3, <5>4
        <4>4. CASE /\ \A m \in Sent : ~Mentions(m, r)
                   /\ \A j \in Installation : home[r] = j => installed[j] = "no"
          <5>1. \A m \in Sent' : ~Mentions(m, r)'
            BY <1>3, <2>1, <4>2, <4>4
          <5>2. ASSUME NEW j \in Installation, home'[r] = j PROVE installed'[j] = "no"
            <6>1. installed[j] = "no"
              BY <4>1, <4>4, <5>2
            <6>2. j # i
              BY <4>1, <3>2, <5>2, <6>1 DEF Reports, ReposOf
            <6> QED
              BY <1>5, <6>1, <6>2
          <5> QED
            BY <5>1, <5>2
        <4> QED
          BY <4>3, <4>4 DEF StoryInv, RepoStory
      <3> QED
        BY <3>1, <3>2
    <2> QED
      BY <2>2, <2>2a, <2>3, <2>4 DEF RepoStory
  <1> QED
    BY <1>6, <1>7 DEF StoryInv

\* A repository that goes where the app is not leaves the story.
LEMMA StorySilent ==
  ASSUME AccountInv, StoryInv, NEW q \in Repo, NEW j \in Installation,
         UNCHANGED <<messages, pc, installed>>,
         home' = [home EXCEPT ![q] = j], moved' = moved \cup {q}
  PROVE  StoryInv'
  <1>1. \A r \in Repo \ moved' : r \in Repo \ moved /\ home'[r] = home[r]
    BY DEF AccountInv, TypeOK
  <1>2. /\ Sent' = Sent
        /\ \A m, r : (Mentions(m, r)' <=> Mentions(m, r)) /\ (LastSent(m, r)' <=> LastSent(m, r))
        /\ \A m : Says(m)' = Says(m) /\ Of(m)' = Of(m)
        /\ \A m : Announces(m, "created")' <=> Announces(m, "created")
        /\ \A m : Announces(m, "deleted")' <=> Announces(m, "deleted")
    BY DEF Sent, Mentions, LastSent, Says, RepoGone, Of, Announces
  <1>3. AccountStory'
    BY <1>2 DEF StoryInv, AccountStory
  <1>4. RepoStory'
    BY <1>1, <1>2 DEF StoryInv, RepoStory
  <1> QED
    BY <1>3, <1>4 DEF StoryInv
\* Nothing else that happens tells a different story.
LEMMA StoryKept ==
  ASSUME StoryInv, UNCHANGED <<installed, home, messages, moved>>
  PROVE  StoryInv'
  <1>1. /\ Sent' = Sent
        /\ \A m, r : (Mentions(m, r)' <=> Mentions(m, r)) /\ (LastSent(m, r)' <=> LastSent(m, r))
        /\ \A m : Says(m)' = Says(m) /\ Of(m)' = Of(m)
        /\ \A m : Announces(m, "created")' <=> Announces(m, "created")
        /\ \A m : Announces(m, "deleted")' <=> Announces(m, "deleted")
    BY DEF Sent, Mentions, LastSent, Says, RepoGone, Of, Announces
  <1>2. AccountStory'
    BY <1>1 DEF StoryInv, AccountStory
  <1>3. RepoStory'
    BY <1>1 DEF StoryInv, RepoStory
  <1> QED
    BY <1>2, <1>3 DEF StoryInv

-----------------------------------------------------------------------------
(* The worker's side.                                                      *)

\* What does not touch the rows or their handling keeps the mirror.
LEMMA MirrorKept ==
  ASSUME MirrorInv, moved \subseteq moved',
         UNCHANGED <<messages, pc, known, connections, born, repoRow, disturbed>>
  PROVE  MirrorInv'
  <1>1. /\ Sent' = Sent
        /\ \A m : (Applied(m)' <=> Applied(m)) /\ (StillThere(m)' <=> StillThere(m))
        /\ \A m, r : (Mentions(m, r)' <=> Mentions(m, r)) /\ (LastApplied(m, r)' <=> LastApplied(m, r))
        /\ \A m : Says(m)' = Says(m) /\ Of(m)' = Of(m)
        /\ \A m : Announces(m, "created")' <=> Announces(m, "created")
        /\ \A m : Announces(m, "deleted")' <=> Announces(m, "deleted")
    BY DEF Sent, Applied, StillThere, Connected, Mentions, LastApplied, Says, RepoGone, Of, Announces
  <1>2. SUFFICES ASSUME ~disturbed PROVE InOrderInv' /\ ConnectionInv' /\ RowInv'
    BY DEF MirrorInv
  <1>3. InOrderInv /\ ConnectionInv /\ RowInv
    BY <1>2 DEF MirrorInv
  <1>4. InOrderInv'
    BY <1>1, <1>3 DEF InOrderInv
  <1>5. ConnectionInv'
    BY <1>1, <1>3 DEF ConnectionInv
  <1>6. RowInv'
    BY <1>1, <1>3 DEF RowInv
  <1> QED
    BY <1>4, <1>5, <1>6

\* A webhook that has just been sent is not handled yet.
LEMMA MirrorTold ==
  ASSUME AccountInv, MirrorInv, NEW event, NEW action, NEW i, NEW repos,
         Report(event, action, i, repos), UNCHANGED <<githubFrame, moved>>
  PROVE  MirrorInv'
  <1>1. PICK n \in Index :
           /\ n \notin Sent /\ Sent' = Sent \cup {n}
           /\ Of(n)' = i
           /\ Announces(n, "created")' <=> event = "installation" /\ action = "created"
           /\ Announces(n, "deleted")' <=> event = "installation" /\ action = "deleted"
           /\ messages'[n].event = event
           /\ messages'[n].action = action
           /\ messages'[n].repos = repos
           /\ RepoGone(n)' <=> event = "repository" /\ action = "deleted"
           /\ pc'[n] = "ready"
           /\ \A m \in Sent : m \in Nat /\ m < n
           /\ \A m \in Sent : messages'[m] = messages[m] /\ pc'[m] = pc[m]
           /\ \A m \in Sent :
                /\ Of(m)' = Of(m)
                /\ Announces(m, "created")' <=> Announces(m, "created")
                /\ Announces(m, "deleted")' <=> Announces(m, "deleted")
                /\ Says(m)' = Says(m)
    BY Latest
  <1>2. SUFFICES ASSUME ~disturbed PROVE InOrderInv' /\ ConnectionInv' /\ RowInv'
    BY DEF MirrorInv
  <1>3. InOrderInv /\ ConnectionInv /\ RowInv
    BY <1>2 DEF MirrorInv
  <1>4. InOrderInv'
    <2>1. n \in Nat
      BY AccountAssumption DEF Index, AccountAssumption
    <2> QED
      BY <1>1, <1>3, <2>1 DEF InOrderInv
  <1>5. pc'[n] \notin Answered /\ pc'[n] # "table" /\ ~Applied(n)'
    BY <1>1 DEF Answered, Applied
  <1>6. \A m \in Sent : (Applied(m)' <=> Applied(m)) /\ (StillThere(m)' <=> StillThere(m))
    BY <1>1 DEF Applied, StillThere, Connected
  <1>7. ConnectionInv'
    <2>1. \A j \in Installation :
            /\ (\E m \in Sent' : Announces(m, "created")' /\ Of(m)' = j /\ pc'[m] \in Answered)
                 <=> (\E m \in Sent : Announces(m, "created") /\ Of(m) = j /\ pc[m] \in Answered)
            /\ (\A m \in Sent' : Announces(m, "deleted")' /\ Of(m)' = j => pc'[m] \notin Answered)
                 <=> (\A m \in Sent : Announces(m, "deleted") /\ Of(m) = j => pc[m] \notin Answered)
      BY <1>1, <1>5
    <2>2. \A m \in Sent' : pc'[m] = "table" => StillThere(m)'
      BY <1>1, <1>3, <1>5, <1>6 DEF ConnectionInv
    <2> QED
      BY <1>3, <2>1, <2>2 DEF ConnectionInv
  <1>8. RowInv'
    <2>1. \A m \in Sent, r \in Repo : Mentions(m, r)' <=> Mentions(m, r)
      BY <1>1 DEF Mentions
    <2> SUFFICES ASSUME NEW r \in Repo \ moved
                 PROVE  \/ repoRow[r] = None /\ \A m \in Sent' : Applied(m)' => ~Mentions(m, r)'
                        \/ \E m \in Sent' :
                             /\ LastApplied(m, r)'
                             /\ repoRow[r] = IF Says(m)' \in connections THEN Says(m)' ELSE None
      BY DEF RowInv
    <2>2. CASE repoRow[r] = None /\ \A m \in Sent : Applied(m) => ~Mentions(m, r)
      BY <1>1, <1>5, <1>6, <2>1, <2>2
    <2>3. CASE \E m \in Sent : /\ LastApplied(m, r)
                               /\ repoRow[r] = IF Says(m) \in connections THEN Says(m) ELSE None
      <3>1. PICK m \in Sent : /\ LastApplied(m, r)
                              /\ repoRow[r] = IF Says(m) \in connections THEN Says(m) ELSE None
        BY <2>3
      <3>2. LastApplied(m, r)'
        BY <1>1, <1>5, <1>6, <2>1, <3>1 DEF LastApplied
      <3> QED
        BY <1>1, <3>1, <3>2
    <2> QED
      BY <1>3, <2>2, <2>3 DEF RowInv
  <1> QED
    BY <1>4, <1>7, <1>8

\* A message that is not answered has only messages before it that are, and
\* only messages after it that nobody has begun.
LEMMA Alone ==
  ASSUME AccountInv, InOrderInv, NEW m \in Sent, pc[m] \notin Answered
  PROVE  /\ \A n \in Sent : n > m => pc[n] = "ready"
         /\ pc[m] # "ready" => \A n \in Sent : n < m => pc[n] \in Answered
  <1>1. \A n \in Sent : n \in Nat
    BY DEF Sent, AccountInv, TypeOK
  <1> QED
    BY <1>1 DEF InOrderInv

\* What a handler's step leaves as it was.
LEMMA Handled ==
  ASSUME AccountInv, InOrderInv, NEW m \in Sent, NEW p, pc[m] \notin Answered,
         \A n \in Sent : n < m => pc[n] \in Answered,
         messages' = messages, pc' = [pc EXCEPT ![m] = p]
  PROVE  /\ InOrderInv'
         /\ Sent' = Sent
         /\ pc'[m] = p
         /\ \A n \in Sent : n # m => pc'[n] = pc[n] /\ (Applied(n)' <=> Applied(n))
         /\ Applied(m)' <=> p \in Answered \cup {"owner", "workflow"}
         /\ \A n : /\ Of(n)' = Of(n) /\ Says(n)' = Says(n)
                   /\ Announces(n, "created")' <=> Announces(n, "created")
                   /\ Announces(n, "deleted")' <=> Announces(n, "deleted")
         /\ \A n, r : Mentions(n, r)' <=> Mentions(n, r)
  <1>1. \A n \in Sent : n \in Nat /\ n \in Index
    BY SentTypes DEF Sent, AccountInv, TypeOK
  <1>2. pc'[m] = p /\ \A n \in Sent : n # m => pc'[n] = pc[n]
    BY <1>1 DEF AccountInv, TypeOK
  <1>3. Sent' = Sent
    BY DEF Sent
  <1>4. InOrderInv'
    <2> SUFFICES ASSUME NEW a \in Sent, NEW b \in Sent, a < b, pc'[b] # "ready"
                 PROVE  pc'[a] \in Answered
      BY <1>3 DEF InOrderInv
    <2>1. \A n \in Sent : n > m => pc[n] = "ready"
      BY Alone
    <2>2. b <= m
      BY <1>1, <1>2, <2>1
    <2>3. a < m
      BY <1>1, <2>2
    <2> QED
      BY <1>1, <1>2, <2>3
  <1>5. /\ \A n \in Sent : n # m => (Applied(n)' <=> Applied(n))
        /\ Applied(m)' <=> p \in Answered \cup {"owner", "workflow"}
    BY <1>2 DEF Applied
  <1>6. /\ \A n : /\ Of(n)' = Of(n) /\ Says(n)' = Says(n)
                  /\ Announces(n, "created")' <=> Announces(n, "created")
                  /\ Announces(n, "deleted")' <=> Announces(n, "deleted")
        /\ \A n, r : Mentions(n, r)' <=> Mentions(n, r)
    BY DEF Of, Says, RepoGone, Announces, Mentions
  <1> QED
    BY <1>2, <1>3, <1>4, <1>5, <1>6

\* A handler in order finds its connection, but for the creation, which finds
\* none.
LEMMA FindsConnection ==
  ASSUME AccountInv, HistoryInv, AccountStory, InOrderInv, ConnectionInv,
         NEW m \in Sent, pc[m] \in Handling
  PROVE  /\ Announces(m, "created") => Of(m) \notin connections
         /\ ~Announces(m, "created") => Of(m) \in connections
  <1>1. \A n \in Sent : n \in Nat
    BY DEF Sent, AccountInv, TypeOK
  <1>2. pc[m] \notin Answered /\ pc[m] # "ready" /\ Of(m) \in Installation
    BY SentTypes DEF Handling, Answered
  <1>3. /\ \A n \in Sent : n > m => pc[n] = "ready"
        /\ \A n \in Sent : n < m => pc[n] \in Answered
    BY <1>2, Alone
  <1>4. CASE Announces(m, "created")
    <2>1. ASSUME Of(m) \in connections PROVE FALSE
      <3>1. PICK n \in Sent : Announces(n, "created") /\ Of(n) = Of(m) /\ pc[n] \in Answered
        BY <1>2, <2>1 DEF ConnectionInv
      <3> QED
        BY <1>2, <1>4, <3>1 DEF HistoryInv
    <2> QED
      BY <1>4, <2>1
  <1>5. CASE ~Announces(m, "created")
    <2>1. PICK n \in Sent : n <= m /\ Announces(n, "created") /\ Of(n) = Of(m)
      BY DEF AccountStory
    <2>2. pc[n] \in Answered
      BY <1>1, <1>3, <1>5, <2>1
    <2>3. ASSUME NEW d \in Sent, Announces(d, "deleted"), Of(d) = Of(m) PROVE pc[d] \notin Answered
      <3>1. m <= d
        BY <2>3 DEF AccountStory
      <3>2. d = m \/ pc[d] = "ready"
        BY <1>1, <1>3, <3>1
      <3> QED
        BY <1>2, <3>2 DEF Answered
    <2> QED
      BY <1>2, <1>5, <2>1, <2>2, <2>3 DEF ConnectionInv
  <1> QED
    BY <1>4, <1>5

\* A step that writes no row.
LEMMA MirrorQuiet ==
  ASSUME AccountInv, InOrderInv, ConnectionInv, RowInv,
         NEW m \in Sent, NEW p, pc[m] \notin Answered,
         \A n \in Sent : n < m => pc[n] \in Answered,
         UNCHANGED <<messages, connections, repoRow, moved>>, pc' = [pc EXCEPT ![m] = p],
         p \in Answered => ~Announces(m, "created") /\ ~Announces(m, "deleted"),
         \A n \in Sent : pc'[n] = "table" => StillThere(n)',
         \/ p \in Answered \cup {"owner", "workflow"} <=> Applied(m)
         \/ \A r \in Repo : ~Mentions(m, r)
  PROVE  InOrderInv' /\ ConnectionInv' /\ RowInv'
  <1>1. /\ InOrderInv'
        /\ Sent' = Sent
        /\ pc'[m] = p
        /\ \A n \in Sent : n # m => pc'[n] = pc[n] /\ (Applied(n)' <=> Applied(n))
        /\ Applied(m)' <=> p \in Answered \cup {"owner", "workflow"}
        /\ \A n : /\ Of(n)' = Of(n) /\ Says(n)' = Says(n)
                  /\ Announces(n, "created")' <=> Announces(n, "created")
                  /\ Announces(n, "deleted")' <=> Announces(n, "deleted")
        /\ \A n, r : Mentions(n, r)' <=> Mentions(n, r)
    BY Handled
  <1>2. ConnectionInv'
    <2>1. \A n \in Sent : Announces(n, "created") \/ Announces(n, "deleted") =>
            (pc'[n] \in Answered <=> pc[n] \in Answered)
      BY <1>1
    <2>2. \A i \in Installation :
            /\ (\E n \in Sent' : Announces(n, "created")' /\ Of(n)' = i /\ pc'[n] \in Answered)
                 <=> (\E n \in Sent : Announces(n, "created") /\ Of(n) = i /\ pc[n] \in Answered)
            /\ (\A n \in Sent' : Announces(n, "deleted")' /\ Of(n)' = i => pc'[n] \notin Answered)
                 <=> (\A n \in Sent : Announces(n, "deleted") /\ Of(n) = i => pc[n] \notin Answered)
      BY <1>1, <2>1
    <2> QED
      BY <1>1, <2>2 DEF ConnectionInv
  <1>3. RowInv'
    <2>1. \A n \in Sent, r \in Repo :
            (Applied(n)' /\ Mentions(n, r)') <=> (Applied(n) /\ Mentions(n, r))
      BY <1>1
    <2> SUFFICES ASSUME NEW r \in Repo \ moved
                 PROVE  \/ repoRow[r] = None /\ \A n \in Sent' : Applied(n)' => ~Mentions(n, r)'
                        \/ \E n \in Sent' :
                             /\ LastApplied(n, r)'
                             /\ repoRow[r] = IF Says(n)' \in connections THEN Says(n)' ELSE None
      BY DEF RowInv
    <2>2. CASE repoRow[r] = None /\ \A n \in Sent : Applied(n) => ~Mentions(n, r)
      BY <1>1, <2>1, <2>2
    <2>3. CASE \E n \in Sent : /\ LastApplied(n, r)
                               /\ repoRow[r] = IF Says(n) \in connections THEN Says(n) ELSE None
      <3>1. PICK n \in Sent : /\ LastApplied(n, r)
                              /\ repoRow[r] = IF Says(n) \in connections THEN Says(n) ELSE None
        BY <2>3
      <3>2. LastApplied(n, r)'
        BY <1>1, <2>1, <3>1 DEF LastApplied
      <3> QED
        BY <1>1, <3>1, <3>2
    <2> QED
      BY <2>2, <2>3 DEF RowInv
  <1> QED
    BY <1>1, <1>2, <1>3

\* The creation, in order: nobody has written a row of its repositories yet.
LEMMA MirrorCreation ==
  ASSUME AccountInv, HistoryInv, StoryInv, InOrderInv, ConnectionInv, RowInv,
         NEW m \in Sent, pc[m] = "transaction", Announces(m, "created"),
         CreateConnection(m), pc' = [pc EXCEPT ![m] = "acked"], UNCHANGED <<messages, moved>>
  PROVE  InOrderInv' /\ ConnectionInv' /\ RowInv'
  <1>1. /\ pc[m] \notin Answered /\ pc[m] \in Handling /\ ~Applied(m)
        /\ pc[m] # "ready" /\ "acked" \in Answered
    BY DEF Handling, Answered, Applied
  <1>2. /\ \A n \in Sent : n > m => pc[n] = "ready"
        /\ \A n \in Sent : n < m => pc[n] \in Answered
    BY <1>1, Alone
  <1>3. /\ InOrderInv'
        /\ Sent' = Sent
        /\ pc'[m] = "acked"
        /\ \A n \in Sent : n # m => pc'[n] = pc[n] /\ (Applied(n)' <=> Applied(n))
        /\ Applied(m)' <=> "acked" \in Answered \cup {"owner", "workflow"}
        /\ \A n : /\ Of(n)' = Of(n) /\ Says(n)' = Says(n)
                  /\ Announces(n, "created")' <=> Announces(n, "created")
                  /\ Announces(n, "deleted")' <=> Announces(n, "deleted")
        /\ \A n, r : Mentions(n, r)' <=> Mentions(n, r)
    BY <1>1, <1>2, Handled
  <1>4. \A n \in Sent : n \in Nat /\ Of(n) \in Installation
    BY SentTypes DEF Sent, AccountInv, TypeOK
  <1>5. /\ connections' = connections \cup {Of(m)}
        /\ \A r \in Repo : repoRow'[r] = IF Mentions(m, r) /\ repoRow[r] = None
                                         THEN Of(m) ELSE repoRow[r]
    BY DEF CreateConnection, Mentions
  <1>6. ~Announces(m, "deleted") /\ Says(m) = Of(m)
    BY DEF Announces, Says, RepoGone
  <1>7. \A n \in Sent : n > m => ~Applied(n) /\ pc[n] \notin Answered /\ pc[n] # "table"
    BY <1>2 DEF Applied, Answered
  <1>8. ConnectionInv'
    <2>1. \A i \in Installation :
            i \in connections' <=>
              /\ \E n \in Sent' : Announces(n, "created")' /\ Of(n)' = i /\ pc'[n] \in Answered
              /\ \A n \in Sent' : Announces(n, "deleted")' /\ Of(n)' = i => pc'[n] \notin Answered
      <3> SUFFICES ASSUME NEW i \in Installation
                   PROVE  i \in connections' <=>
                /\ \E n \in Sent : Announces(n, "created") /\ Of(n) = i /\ pc'[n] \in Answered
                /\ \A n \in Sent : Announces(n, "deleted") /\ Of(n) = i => pc'[n] \notin Answered
        BY <1>3
      <3>1. CASE i = Of(m)
        <4>1. \A n \in Sent : Announces(n, "deleted") /\ Of(n) = i => m <= n /\ n # m
          BY <1>6, <3>1 DEF StoryInv, AccountStory
        <4>2. \A n \in Sent : Announces(n, "deleted") /\ Of(n) = i => pc'[n] \notin Answered
          BY <1>3, <1>4, <1>7, <4>1
        <4>3. Announces(m, "created") /\ Of(m) = i /\ pc'[m] \in Answered
          BY <1>1, <1>3, <3>1
        <4> QED
          BY <1>5, <3>1, <4>2, <4>3
      <3>2. CASE i # Of(m)
        BY <1>3, <1>5, <3>2 DEF ConnectionInv
      <3> QED
        BY <3>1, <3>2
    <2>2. \A n \in Sent : pc'[n] # "table"
      <3>1. \A n \in Sent : n < m => pc[n] # "table"
        BY <1>2 DEF Answered
      <3> QED
        BY <1>3, <1>4, <1>7, <3>1
    <2> QED
      BY <1>3, <2>1, <2>2 DEF ConnectionInv
  <1>9. RowInv'
    <2> SUFFICES ASSUME NEW r \in Repo \ moved
                 PROVE  \/ repoRow'[r] = None /\ \A n \in Sent : Applied(n)' => ~Mentions(n, r)
                        \/ \E n \in Sent :
                             /\ LastApplied(n, r)'
                             /\ repoRow'[r] = IF Says(n) \in connections' THEN Says(n) ELSE None
      BY <1>3 DEF RowInv
    <2>1. CASE Mentions(m, r)
      <3>1. \A n \in Sent : Applied(n) => ~Mentions(n, r)
        <4> SUFFICES ASSUME NEW n \in Sent, Applied(n), Mentions(n, r) PROVE FALSE
          OBVIOUS
        <4>1. m <= n
          BY <2>1 DEF StoryInv, RepoStory
        <4>2. n # m
          BY <1>1
        <4> QED
          BY <1>4, <1>7, <4>1, <4>2
      <3>2. repoRow[r] = None
        BY <3>1 DEF RowInv, LastApplied
      <3>3. LastApplied(m, r)'
        BY <1>1, <1>3, <1>4, <2>1, <3>1 DEF LastApplied
      <3> QED
        BY <1>5, <1>6, <2>1, <3>2, <3>3
    <2>2. CASE ~Mentions(m, r)
      <3>1. repoRow'[r] = repoRow[r]
        BY <1>5, <2>2
      <3>2. \A n \in Sent : Applied(n)' /\ Mentions(n, r) <=> Applied(n) /\ Mentions(n, r)
        BY <1>3, <2>2
      <3>3. CASE repoRow[r] = None /\ \A n \in Sent : Applied(n) => ~Mentions(n, r)
        BY <3>1, <3>2, <3>3
      <3>4. CASE \E n \in Sent : /\ LastApplied(n, r)
                                 /\ repoRow[r] = IF Says(n) \in connections THEN Says(n) ELSE None
        <4>1. PICK n \in Sent : /\ LastApplied(n, r)
                                /\ repoRow[r] = IF Says(n) \in connections THEN Says(n) ELSE None
          BY <3>4
        <4>2. LastApplied(n, r)'
          BY <1>3, <3>2, <4>1 DEF LastApplied
        <4>3. Says(n) # Of(m)
          <5> SUFFICES ASSUME Says(n) = Of(m) PROVE FALSE
            OBVIOUS
          <5>1. Of(n) = Of(m)
            BY <1>4, AccountAssumption DEF Says, AccountAssumption
          <5>2. PICK k \in Sent : k <= n /\ Announces(k, "created") /\ Of(k) = Of(n)
            BY DEF StoryInv, AccountStory
          <5>3. k = m
            BY <5>1, <5>2 DEF HistoryInv
          <5>4. Applied(n)
            BY <4>1 DEF LastApplied
          <5> QED
            BY <1>1, <1>4, <1>7, <5>2, <5>3, <5>4
        <4> QED
          BY <1>5, <3>1, <4>1, <4>2, <4>3
      <3> QED
        BY <3>3, <3>4 DEF RowInv
    <2> QED
      BY <2>1, <2>2
  <1> QED
    BY <1>3, <1>8, <1>9

\* The deletion, in order: the rows of the account's repositories go with it.
LEMMA MirrorDeletion ==
  ASSUME AccountInv, StoryInv, InOrderInv, ConnectionInv, RowInv,
         NEW m \in Sent, pc[m] = "transaction", Announces(m, "deleted"),
         DeleteConnection(m), pc' = [pc EXCEPT ![m] = "acked"], UNCHANGED <<messages, moved>>
  PROVE  InOrderInv' /\ ConnectionInv' /\ RowInv'
  <1>1. /\ pc[m] \notin Answered /\ pc[m] \in Handling /\ ~Applied(m)
        /\ pc[m] # "ready" /\ "acked" \in Answered
    BY DEF Handling, Answered, Applied
  <1>2. /\ \A n \in Sent : n > m => pc[n] = "ready"
        /\ \A n \in Sent : n < m => pc[n] \in Answered
    BY <1>1, Alone
  <1>3. /\ InOrderInv'
        /\ Sent' = Sent
        /\ pc'[m] = "acked"
        /\ \A n \in Sent : n # m => pc'[n] = pc[n] /\ (Applied(n)' <=> Applied(n))
        /\ Applied(m)' <=> "acked" \in Answered \cup {"owner", "workflow"}
        /\ \A n : /\ Of(n)' = Of(n) /\ Says(n)' = Says(n)
                  /\ Announces(n, "created")' <=> Announces(n, "created")
                  /\ Announces(n, "deleted")' <=> Announces(n, "deleted")
        /\ \A n, r : Mentions(n, r)' <=> Mentions(n, r)
    BY <1>1, <1>2, Handled
  <1>4. \A n \in Sent : n \in Nat /\ Of(n) \in Installation
    BY SentTypes DEF Sent, AccountInv, TypeOK
  <1>5. /\ connections' = connections \ {Of(m)}
        /\ \A r \in Repo : repoRow'[r] = IF repoRow[r] = Of(m) THEN None ELSE repoRow[r]
    BY DEF DeleteConnection
  <1>6. ~Announces(m, "created") /\ \A r \in Repo : ~Mentions(m, r)
    BY DEF Announces, StoryInv, RepoStory, Mentions
  <1>7. ConnectionInv'
    <2>1. \A i \in Installation :
            i \in connections' <=>
              /\ \E n \in Sent' : Announces(n, "created")' /\ Of(n)' = i /\ pc'[n] \in Answered
              /\ \A n \in Sent' : Announces(n, "deleted")' /\ Of(n)' = i => pc'[n] \notin Answered
      <3> SUFFICES ASSUME NEW i \in Installation
                   PROVE  i \in connections' <=>
                /\ \E n \in Sent : Announces(n, "created") /\ Of(n) = i /\ pc'[n] \in Answered
                /\ \A n \in Sent : Announces(n, "deleted") /\ Of(n) = i => pc'[n] \notin Answered
        BY <1>3
      <3>1. CASE i = Of(m)
        BY <1>1, <1>3, <1>5, <3>1
      <3>2. CASE i # Of(m)
        BY <1>3, <1>5, <1>6, <3>2 DEF ConnectionInv
      <3> QED
        BY <3>1, <3>2
    <2>2. \A n \in Sent : pc'[n] # "table"
      <3>1. \A n \in Sent : n # m => pc[n] # "table"
        BY <1>2, <1>4 DEF Answered
      <3> QED
        BY <1>3, <3>1
    <2> QED
      BY <1>3, <2>1, <2>2 DEF ConnectionInv
  <1>8. RowInv'
    <2> SUFFICES ASSUME NEW r \in Repo \ moved
                 PROVE  \/ repoRow'[r] = None /\ \A n \in Sent : Applied(n)' => ~Mentions(n, r)
                        \/ \E n \in Sent :
                             /\ LastApplied(n, r)'
                             /\ repoRow'[r] = IF Says(n) \in connections' THEN Says(n) ELSE None
      BY <1>3 DEF RowInv
    <2>1. \A n \in Sent : Applied(n)' /\ Mentions(n, r) <=> Applied(n) /\ Mentions(n, r)
      BY <1>3, <1>6
    <2>2. CASE repoRow[r] = None /\ \A n \in Sent : Applied(n) => ~Mentions(n, r)
      BY <1>5, <2>1, <2>2
    <2>3. CASE \E n \in Sent : /\ LastApplied(n, r)
                               /\ repoRow[r] = IF Says(n) \in connections THEN Says(n) ELSE None
      <3>1. PICK n \in Sent : /\ LastApplied(n, r)
                              /\ repoRow[r] = IF Says(n) \in connections THEN Says(n) ELSE None
        BY <2>3
      <3>2. LastApplied(n, r)'
        BY <1>3, <2>1, <3>1 DEF LastApplied
      <3> QED
        BY <1>4, <1>5, <3>1, <3>2, AccountAssumption DEF AccountAssumption
    <2> QED
      BY <2>2, <2>3 DEF RowInv
  <1> QED
    BY <1>3, <1>7, <1>8

\* A repository's row, in order: it says what the webhook says.
LEMMA MirrorTable ==
  ASSUME AccountInv, HistoryInv, StoryInv, InOrderInv, ConnectionInv, RowInv,
         NEW m \in Sent, pc[m] = "table", DeleteRepoRow(m) \/ UpsertRepo(m),
         pc' = [pc EXCEPT ![m] = "owner"],
         UNCHANGED <<messages, moved, connections, born, known>>
  PROVE  InOrderInv' /\ ConnectionInv' /\ RowInv'
  <1>1. /\ pc[m] \notin Answered /\ pc[m] \in Handling /\ ~Applied(m) /\ pc[m] # "ready"
        /\ "owner" \notin Answered
    BY DEF Handling, Answered, Applied
  <1>2. /\ \A n \in Sent : n > m => pc[n] = "ready"
        /\ \A n \in Sent : n < m => pc[n] \in Answered
    BY <1>1, Alone
  <1>3. /\ InOrderInv'
        /\ Sent' = Sent
        /\ pc'[m] = "owner"
        /\ \A n \in Sent : n # m => pc'[n] = pc[n] /\ (Applied(n)' <=> Applied(n))
        /\ Applied(m)' <=> "owner" \in Answered \cup {"owner", "workflow"}
        /\ \A n : /\ Of(n)' = Of(n) /\ Says(n)' = Says(n)
                  /\ Announces(n, "created")' <=> Announces(n, "created")
                  /\ Announces(n, "deleted")' <=> Announces(n, "deleted")
        /\ \A n, r : Mentions(n, r)' <=> Mentions(n, r)
    BY <1>1, <1>2, Handled
  <1>4. \A n \in Sent : n \in Nat /\ n \in Index
    BY SentTypes DEF Sent, AccountInv, TypeOK
  <1>5. messages[m].event = "repository" /\ ~Announces(m, "created")
    BY <1>4 DEF AccountInv, MessageInv, Handling, Announces
  <1>6. Of(m) \in connections
    BY <1>1, <1>5, FindsConnection DEF StoryInv
  <1>7. PICK q \in Repo : messages[m].repos = {q}
    BY <1>5 DEF AccountInv, MessageInv
  <1>8. /\ RepoOf(m) = q
        /\ \A r \in Repo : Mentions(m, r) <=> r = q
    BY <1>7 DEF RepoOf, Mentions
  <1>9. \A r \in Repo : repoRow'[r] = IF r = q THEN Says(m) ELSE repoRow[r]
    <2>1. repoRow \in [Repo -> connections \cup {None}]
      BY DEF AccountInv, TypeOK
    <2>2. messages[m].action \in RepositoryAction
      BY <1>5 DEF StoryInv, RepoStory
    <2>3. RepoGone(m) <=> messages[m].action = "deleted"
      BY <1>5 DEF RepoGone
    <2>4. CASE messages[m].action = "deleted"
      BY <1>8, <2>1, <2>3, <2>4 DEF DeleteRepoRow, UpsertRepo, Says
    <2>5. CASE messages[m].action # "deleted"
      BY <1>8, <2>1, <2>2, <2>3, <2>5 DEF DeleteRepoRow, UpsertRepo, Upserted, Says
    <2> QED
      BY <2>4, <2>5
  <1>10. Says(m) \in connections \/ Says(m) = None
    BY <1>6 DEF Says
  <1>11. ConnectionInv'
    <2>1. \A i \in Installation :
            i \in connections' <=>
              /\ \E n \in Sent' : Announces(n, "created")' /\ Of(n)' = i /\ pc'[n] \in Answered
              /\ \A n \in Sent' : Announces(n, "deleted")' /\ Of(n)' = i => pc'[n] \notin Answered
      BY <1>1, <1>3 DEF ConnectionInv
    <2>2. \A n \in Sent : pc'[n] # "table"
      <3>1. \A n \in Sent : n # m => pc[n] # "table"
        BY <1>2, <1>4 DEF Answered
      <3> QED
        BY <1>3, <3>1
    <2> QED
      BY <1>3, <2>1, <2>2 DEF ConnectionInv
  <1>12. RowInv'
    <2> SUFFICES ASSUME NEW r \in Repo \ moved
                 PROVE  \/ repoRow'[r] = None /\ \A n \in Sent : Applied(n)' => ~Mentions(n, r)
                        \/ \E n \in Sent :
                             /\ LastApplied(n, r)'
                             /\ repoRow'[r] = IF Says(n) \in connections THEN Says(n) ELSE None
      BY <1>3 DEF RowInv
    <2>1. CASE r = q
      <3>1. \A n \in Sent : n > m => ~Applied(n)
        BY <1>2 DEF Applied, Answered
      <3>2. LastApplied(m, r)'
        BY <1>3, <1>4, <1>8, <2>1, <3>1 DEF LastApplied
      <3> QED
        BY <1>9, <1>10, <2>1, <3>2
    <2>2. CASE r # q
      <3>1. repoRow'[r] = repoRow[r]
        BY <1>9, <2>2
      <3>2. \A n \in Sent : Applied(n)' /\ Mentions(n, r) <=> Applied(n) /\ Mentions(n, r)
        BY <1>3, <1>8, <2>2
      <3>3. CASE repoRow[r] = None /\ \A n \in Sent : Applied(n) => ~Mentions(n, r)
        BY <3>1, <3>2, <3>3
      <3>4. CASE \E n \in Sent : /\ LastApplied(n, r)
                                 /\ repoRow[r] = IF Says(n) \in connections THEN Says(n) ELSE None
        <4>1. PICK n \in Sent : /\ LastApplied(n, r)
                                /\ repoRow[r] = IF Says(n) \in connections THEN Says(n) ELSE None
          BY <3>4
        <4>2. LastApplied(n, r)'
          BY <1>3, <3>2, <4>1 DEF LastApplied
        <4> QED
          BY <3>1, <4>1, <4>2
      <3> QED
        BY <3>3, <3>4 DEF RowInv
    <2> QED
      BY <2>1, <2>2
  <1> QED
    BY <1>3, <1>11, <1>12

\* Every step of the worker keeps the mirror, or is a disturbance.
LEMMA MirrorWorker ==
  ASSUME LifeInv, StoryInv, MirrorInv, NEW m \in Index, Worker(m) \/ LoseAnswer(m)
  PROVE  MirrorInv'
  <1>1. AccountInv /\ HistoryInv /\ AccountStory
    BY DEF LifeInv, StoryInv
  <1>2. /\ pc[m] \notin Answered /\ pc[m] # "unsent"
        /\ UNCHANGED otherVars
    BY DEF Worker, Begin, Installation_event, FindConnection, KeepTable, FindOwner,
           FindWorkflow, LoseAnswer, Handling, Answered
  <1>2a. disturbed => disturbed'
    <2>1. CASE Begin(m)
      BY <2>1, Zenon DEF Begin
    <2>2. CASE LoseAnswer(m)
      BY <2>2, Zenon DEF LoseAnswer
    <2>3. CASE ~Begin(m) /\ ~LoseAnswer(m)
      BY <2>3, Zenon DEF Worker, Installation_event, FindConnection, KeepTable, FindOwner,
                         FindWorkflow
    <2> QED
      BY <2>1, <2>2, <2>3
  <1>3. m \in Sent
    BY <1>1, <1>2, Messages
  <1>4. SUFFICES ASSUME ~disturbed' PROVE InOrderInv' /\ ConnectionInv' /\ RowInv'
    BY DEF MirrorInv
  <1>5. InOrderInv /\ ConnectionInv /\ RowInv
    BY <1>4, <1>2a DEF MirrorInv
  <1>6. pc[m] \in Handling => \A n \in Sent : n < m => pc[n] \in Answered
    BY <1>1, <1>2, <1>3, <1>5, Alone DEF Handling
  <1>7. \A n \in Sent : n \in Index /\ n \in Nat
    BY <1>1, SentTypes DEF Sent, AccountInv, TypeOK
  \* Nobody else is writing a repository's row.
  <1>8. pc[m] # "ready" => \A n \in Sent : n # m => pc[n] # "table"
    BY <1>1, <1>2, <1>3, <1>5, <1>7, Alone DEF Answered
  <1>9. CASE Begin(m)
    <2> DEFINE p == IF messages[m].event = "installation" THEN "transaction" ELSE "connection"
    <2>1. /\ pc[m] = "ready" /\ pc' = [pc EXCEPT ![m] = p]
          /\ UNCHANGED <<handlerVars, tableVars>>
          /\ \A n \in Sent : n < m => pc[n] \in Answered
      BY <1>4, <1>9 DEF Begin, GoTo
    <2>2. p \notin Answered \cup {"owner", "workflow"} /\ p # "table" /\ ~Applied(m)
      BY <2>1 DEF Answered, Applied
    <2> HIDE DEF p
    <2>3. \A n \in Sent : pc'[n] = "table" => StillThere(n)'
      <3>1. \A n \in Sent : pc'[n] = "table" => pc[n] = "table" /\ messages'[n] = messages[n]
        BY <1>1, <1>2, <1>7, <2>1, <2>2 DEF AccountInv, TypeOK
      <3> QED
        BY <1>5, <2>1, <3>1 DEF ConnectionInv, StillThere, Connected, Of
    <2> QED
      BY <1>1, <1>2, <1>3, <1>5, <2>1, <2>2, <2>3, MirrorQuiet
  <1>10. CASE Installation_event(m)
    <2>1. /\ pc[m] = "transaction" /\ pc[m] \in Handling
          /\ messages[m].event = "installation" /\ "acked" \in Answered
          /\ pc[m] # "ready"
      BY <1>1, <1>10 DEF Installation_event, Handling, AccountInv, MessageInv, Answered
    <2>2. CASE InstallationCreated(m)
      <3>1. Announces(m, "created")
        BY <2>1, <2>2 DEF InstallationCreated, Announces
      <3>2. Of(m) \notin connections
        BY <1>1, <1>3, <1>5, <2>1, <3>1, FindsConnection
      <3>3. CreateConnection(m) /\ pc' = [pc EXCEPT ![m] = "acked"]
        BY <2>2, <3>2 DEF InstallationCreated, Connected, Answer
      <3> QED
        BY <1>1, <1>2, <1>3, <1>5, <2>1, <3>1, <3>3, MirrorCreation
    <2>3. CASE InstallationDeleted(m)
      <3>1. Announces(m, "deleted") /\ ~Announces(m, "created")
        BY <2>1, <2>3 DEF InstallationDeleted, Announces
      <3>2. Of(m) \in connections
        BY <1>1, <1>3, <1>5, <2>1, <3>1, FindsConnection
      <3>3. DeleteConnection(m) /\ pc' = [pc EXCEPT ![m] = "acked"]
        BY <2>3, <3>2 DEF InstallationDeleted, Connected, Answer
      <3> QED
        BY <1>1, <1>2, <1>3, <1>5, <2>1, <3>1, <3>3, MirrorDeletion
    <2>4. CASE InstallationOther(m)
      <3>1. ~Announces(m, "created") /\ ~Announces(m, "deleted")
        BY <2>4 DEF InstallationOther, Announces
      <3>2. pc' = [pc EXCEPT ![m] = "acked"] /\ UNCHANGED tableVars
        BY <2>4 DEF InstallationOther, Answer, KeepRows
      <3>3. \A r \in Repo : ~Mentions(m, r)
        BY <1>3, <2>1, <3>1 DEF StoryInv, RepoStory, Mentions
      <3>4. \A n \in Sent : pc'[n] # "table"
        BY <1>1, <1>7, <1>8, <2>1, <3>2 DEF AccountInv, TypeOK
      <3> QED
        BY <1>1, <1>2, <1>3, <1>5, <1>6, <2>1, <3>1, <3>2, <3>3, <3>4, MirrorQuiet
    <2> QED
      BY <1>10, <2>2, <2>3, <2>4 DEF Installation_event
  <1>11. CASE FindConnection(m) \/ FindOwner(m) \/ FindWorkflow(m)
    <2>1. /\ pc[m] \in {"connection", "owner", "workflow"}
          /\ pc[m] \in Handling \ {"transaction"} /\ pc[m] # "ready"
          /\ UNCHANGED tableVars
      BY <1>11 DEF FindConnection, FindOwner, FindWorkflow, Handling
    <2>2. messages[m].event = "repository" /\ ~Announces(m, "created") /\ ~Announces(m, "deleted")
      BY <1>1, <2>1 DEF AccountInv, MessageInv, Announces
    <2>3. Of(m) \in connections
      BY <1>1, <1>3, <1>5, <2>1, <2>2, FindsConnection
    <2>4. CASE FindConnection(m)
      <3>1. /\ pc[m] = "connection" /\ ~Applied(m)
            /\ pc' = [pc EXCEPT ![m] = "table"] /\ known' = [known EXCEPT ![m] = born[Of(m)]]
        BY <2>3, <2>4 DEF FindConnection, Connected, GoTo, Applied, Answered
      <3>2. \A n \in Sent : pc'[n] = "table" => StillThere(n)'
        <4>1. \A n \in Sent : pc'[n] = "table" => n = m
          BY <1>1, <1>7, <1>8, <2>1, <3>1 DEF AccountInv, TypeOK
        <4>2. known'[m] = born[Of(m)]
          BY <1>1, <3>1 DEF AccountInv, TypeOK
        <4>3. StillThere(m)'
          BY <1>2, <2>1, <2>3, <4>2 DEF StillThere, Connected, Of
        <4> QED
          BY <4>1, <4>3
      <3>3. "table" \notin Answered \cup {"owner", "workflow"}
        BY DEF Answered
      <3> QED
        BY <1>1, <1>2, <1>3, <1>5, <1>6, <2>1, <3>1, <3>2, <3>3, MirrorQuiet
    <2>5. CASE FindOwner(m) \/ FindWorkflow(m)
      <3>1. PICK p \in Answered \cup {"workflow"} : pc' = [pc EXCEPT ![m] = p]
        BY <2>5 DEF FindOwner, FindWorkflow, GoTo, Answer, Answered
      <3>2. Applied(m) /\ p # "table"
        BY <2>5, <3>1 DEF FindOwner, FindWorkflow, Applied, Answered
      <3>3. \A n \in Sent : pc'[n] # "table"
        BY <1>1, <1>7, <1>8, <2>1, <3>1, <3>2 DEF AccountInv, TypeOK
      <3> QED
        BY <1>1, <1>2, <1>3, <1>5, <1>6, <2>1, <2>2, <3>1, <3>2, <3>3, MirrorQuiet
    <2> QED
      BY <1>11, <2>4, <2>5
  <1>12. CASE KeepTable(m)
    <2>1. /\ pc[m] = "table" /\ UNCHANGED <<connections, born>>
      BY <1>12 DEF KeepTable
    <2>2. StillThere(m)
      BY <1>3, <1>5, <2>1 DEF ConnectionInv
    <2>3. /\ DeleteRepoRow(m) \/ UpsertRepo(m)
          /\ pc' = [pc EXCEPT ![m] = "owner"] /\ UNCHANGED known
      BY <1>12, <2>2 DEF KeepTable, GoTo
    <2> QED
      BY <1>1, <1>2, <1>3, <1>5, <2>1, <2>3, MirrorTable
  <1>13. CASE LoseAnswer(m)
    BY <1>4, <1>13 DEF LoseAnswer
  <1> QED
    BY <1>9, <1>10, <1>11, <1>12, <1>13 DEF Worker

-----------------------------------------------------------------------------
(* The mirror.                                                             *)

\* A step of anybody.
LEMMA MirrorNext ==
  ASSUME LifeInv, StoryInv, MirrorInv, [Next]_vars
  PROVE  StoryInv' /\ MirrorInv'
  <1>1. AccountInv
    BY DEF LifeInv
  <1>2. CASE UNCHANGED vars
    BY <1>2, StoryKept, MirrorKept DEF vars
  <1>3. CASE GitHub
    <2>1. CASE \E event, action : \E i \in Installation, repos \in SUBSET Repo :
                 Reports(event, action, i, repos) /\ moved' = moved
      <3>1. PICK event, action : \E i \in Installation, repos \in SUBSET Repo :
              Reports(event, action, i, repos) /\ moved' = moved
        BY <2>1
      <3>2. PICK i \in Installation, repos \in SUBSET Repo :
              Reports(event, action, i, repos) /\ moved' = moved
        BY <3>1
      <3>3. UNCHANGED <<githubFrame, moved>> /\ Report(event, action, i, repos)
        BY <1>1, <1>3, <3>2, GitHubTells DEF Reports
      <3>4. StoryInv'
        BY <3>2, StoryTold
      <3>5. MirrorInv'
        BY <1>1, <3>3, MirrorTold
      <3> QED
        BY <3>4, <3>5
    <2>2. CASE \E r \in Repo, j \in Installation :
                 /\ UNCHANGED <<messages, pc, installed>>
                 /\ home' = [home EXCEPT ![r] = j] /\ moved' = moved \cup {r}
      <3>1. UNCHANGED githubFrame
        BY <1>1, <1>3, GitHubTells
      <3>2. StoryInv'
        BY <1>1, <2>2, StorySilent
      <3>3. MirrorInv'
        BY <2>2, <3>1, MirrorKept
      <3> QED
        BY <3>2, <3>3
    <2> QED
      BY <1>1, <1>3, <2>1, <2>2, GitHubTells
  <1>4. ASSUME NEW m \in Index, Worker(m) \/ LoseAnswer(m) PROVE StoryInv' /\ MirrorInv'
    <2>1. UNCHANGED otherVars
      BY <1>4 DEF Worker, Begin, Installation_event, FindConnection, KeepTable, FindOwner,
                  FindWorkflow, LoseAnswer
    <2> QED
      BY <1>4, <2>1, StoryKept, MirrorWorker
  <1>5. ASSUME NEW u \in User, UserAction(u) PROVE StoryInv' /\ MirrorInv'
    <2>1. UNCHANGED userFrame
      BY <1>5 DEF UserAction, Callback, Connect, Expire, CheckState, CountConnections, SpendState,
                  LinkUser, CreateWorkflow
    <2> QED
      BY <2>1, StoryKept, MirrorKept
  <1> QED
    BY <1>2, <1>3, <1>4, <1>5 DEF Next

\* Nothing is sent and nothing is known at first.
LEMMA MirrorInit ==
  ASSUME Init
  PROVE  StoryInv /\ MirrorInv
  <1>1. /\ messages = <<>> /\ connections = {} /\ repoRow = [r \in Repo |-> None]
        /\ installed = [i \in Installation |-> "no"]
    BY DEF Init
  <1>2. Sent = {}
    BY <1>1 DEF Sent
  <1>3. StoryInv
    BY <1>1, <1>2 DEF StoryInv, AccountStory, RepoStory
  <1>4. MirrorInv
    BY <1>1, <1>2 DEF MirrorInv, InOrderInv, ConnectionInv, RowInv
  <1> QED
    BY <1>3, <1>4

\* Once every webhook is answered, the last handled is the last sent.
LEMMA MirrorAtRest ==
  ASSUME LifeInv, StoryInv, MirrorInv
  PROVE  MirrorUnlessDisturbed
  <1> SUFFICES ASSUME Quiet, ~disturbed
               PROVE  /\ connections = {i \in Installation : installed[i] = "yes"}
                      /\ \A r \in Repo \ moved : \A i \in connections :
                           repoRow[r] = i <=> home[r] = i
    BY DEF MirrorUnlessDisturbed
  <1>1. AccountInv /\ HistoryInv /\ ConnectionInv /\ RowInv
    BY DEF LifeInv, MirrorInv
  <1>2. \A m \in Sent : pc[m] \in Answered /\ Applied(m) /\ m \in Nat
    BY <1>1 DEF Quiet, Applied, Sent, AccountInv, TypeOK
  <1>3. /\ installed \in [Installation -> {"no", "yes", "removed"}]
        /\ connections \subseteq Installation
        /\ None \notin Installation
    BY <1>1, AccountAssumption DEF AccountInv, TypeOK, AccountAssumption
  <1>4. connections = {i \in Installation : installed[i] = "yes"}
    <2>1. ASSUME NEW i \in connections PROVE installed[i] = "yes"
      <3>1. installed[i] # "no"
        BY <1>1 DEF HistoryInv
      <3>2. installed[i] # "removed"
        <4> SUFFICES ASSUME installed[i] = "removed" PROVE FALSE
          OBVIOUS
        <4>1. PICK d \in Sent : Announces(d, "deleted") /\ Of(d) = i
          BY <1>3 DEF StoryInv, AccountStory
        <4> QED
          BY <1>1, <1>2, <1>3, <4>1 DEF ConnectionInv
      <3> QED
        BY <1>3, <3>1, <3>2
    <2>2. ASSUME NEW i \in Installation, installed[i] = "yes" PROVE i \in connections
      <3>1. PICK m \in Sent : Announces(m, "created") /\ Of(m) = i
        BY <2>2 DEF StoryInv, AccountStory
      <3>2. \A d \in Sent : ~(Announces(d, "deleted") /\ Of(d) = i)
        BY <1>1, <2>2 DEF HistoryInv
      <3> QED
        BY <1>1, <1>2, <3>1, <3>2 DEF ConnectionInv
    <2> QED
      BY <1>3, <2>1, <2>2
  <1>5. ASSUME NEW r \in Repo \ moved, NEW i \in connections
        PROVE  repoRow[r] = i <=> home[r] = i
    <2>1. CASE \E m \in Sent : LastSent(m, r) /\ home[r] = Says(m)
      <3>1. PICK m \in Sent : LastSent(m, r) /\ home[r] = Says(m)
        BY <2>1
      <3>2. PICK n \in Sent : /\ LastApplied(n, r)
                              /\ repoRow[r] = IF Says(n) \in connections THEN Says(n) ELSE None
        BY <1>1, <1>2, <3>1 DEF RowInv, LastSent
      <3>3. n = m
        BY <1>2, <3>1, <3>2 DEF LastSent, LastApplied
      <3> QED
        BY <1>3, <3>1, <3>2, <3>3
    <2>2. CASE /\ \A m \in Sent : ~Mentions(m, r)
               /\ \A j \in Installation : home[r] = j => installed[j] = "no"
      <3>1. repoRow[r] = None
        BY <1>1, <2>2 DEF RowInv, LastApplied
      <3>2. home[r] # i
        BY <1>3, <1>4, <2>2
      <3> QED
        BY <1>3, <3>1, <3>2
    <2> QED
      BY <2>1, <2>2 DEF StoryInv, RepoStory
  <1> QED
    BY <1>4, <1>5

\* Handled in the order they were sent and with no answer lost, the webhooks
\* make the tables mirror GitHub: the connections are the installations, and a
\* repository belongs to the account it is under.
THEOREM TablesMirror == Spec => []MirrorUnlessDisturbed
  <1>1. Init => StoryInv /\ MirrorInv
    BY MirrorInit
  <1>2. LifeInv /\ (StoryInv /\ MirrorInv) /\ [Next]_vars => (StoryInv /\ MirrorInv)'
    BY MirrorNext
  <1>3. LifeInv /\ StoryInv /\ MirrorInv => MirrorUnlessDisturbed
    BY MirrorAtRest
  <1> QED
    BY <1>1, <1>2, <1>3, Life, PTL DEF Spec


=============================================================================
