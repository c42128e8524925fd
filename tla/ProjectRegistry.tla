--------------------------- MODULE ProjectRegistry ---------------------------
(***************************************************************************)
(* Which repository and which worktree a project key stands for: the rows  *)
(* of repositories, worktrees, projects and project_worktrees, and the Git *)
(* directories on the disk.  Two writers keep them: `workflow init`, which *)
(* prepares a worktree on the disk and then registers it, and session_open *)
(* of the memory server, which registers what a client says it works in.   *)
(***************************************************************************)
EXTENDS Naturals

CONSTANTS
  Keys,        \* project keys
  Paths,       \* directories, those of all checkouts
  EnrolledAs,  \* the enrollment contract: the key of each path, or NoRow
  NameOf,      \* the last component of each path
  Disks,       \* what the disk may hold in the beginning
  MaxInits,    \* bound: init commands
  MaxOpens,    \* bound: sessions opened by clients
  NoRow

ASSUME EnrolledAssumption == EnrolledAs \in [Paths -> Keys \cup {NoRow}]
ASSUME PathsAssumption == NoRow \notin Paths /\ NoRow \notin [repository : Paths, worktree : Paths]
ASSUME BoundsAssumption == MaxInits \in Nat /\ MaxOpens \in Nat

\* What a path holds: nothing, an empty directory, files that are no checkout,
\* or a checkout of the repository whose main checkout is the path `git`.
Nothing == [is |-> "nothing"]
Empty == [is |-> "empty"]
Files == [is |-> "files"]
CheckoutOf(r) == [is |-> "checkout", git |-> r]

Content == {Nothing, Empty, Files} \cup {CheckoutOf(r) : r \in Paths}

\* The main checkout of a repository is a checkout of itself.
ASSUME DisksAssumption ==
  /\ Disks \subseteq [Paths -> Content]
  /\ \A d \in Disks, w, r \in Paths : d[w] = CheckoutOf(r) => d[r] = CheckoutOf(r)

VARIABLES
  disk,       \* what each path holds
  repos,      \* repositories.repo_key of each canonical_path, or NoRow
  worktrees,  \* worktrees.repository_id of each worktree_path, or NoRow
  projects,   \* the repository and primary worktree of each key, or NoRow
  primary,    \* project_worktrees: the worktrees with is_primary, for each key
  linked,     \* project_worktrees: all worktrees, for each key
  preparing,  \* init commands that have not written to the database yet
  inits,      \* bound: how many init commands have been given
  opens,      \* bound: how many sessions clients have opened
  enrolled    \* history: the keys for which an init command has ended well

registryVars == <<repos, worktrees, projects, primary, linked>>
registry == <<disk, registryVars, preparing, inits, opens, enrolled>>

Home == [repository : Paths, worktree : Paths]
InitName(k) == [by |-> "init", name |-> k]
SessionName(r) == [by |-> "session", name |-> NameOf[r]]
RepoKey == {InitName(k) : k \in Keys} \cup {SessionName(r) : r \in Paths}

RegistryTypeOK ==
  /\ disk \in [Paths -> Content]
  /\ repos \in [Paths -> RepoKey \cup {NoRow}]
  /\ worktrees \in [Paths -> Paths \cup {NoRow}]
  /\ projects \in [Keys -> Home \cup {NoRow}]
  /\ primary \in [Keys -> SUBSET Paths]
  /\ linked \in [Keys -> SUBSET Paths]
  /\ preparing \subseteq [key : Keys, home : Home]
  /\ inits \in 0..MaxInits
  /\ opens \in 0..MaxOpens
  /\ enrolled \subseteq Keys

RegistryInit ==
  /\ disk \in Disks
  /\ repos = [r \in Paths |-> NoRow]
  /\ worktrees = [w \in Paths |-> NoRow]
  /\ projects = [k \in Keys |-> NoRow]
  /\ primary = [k \in Keys |-> {}]
  /\ linked = [k \in Keys |-> {}]
  /\ preparing = {}
  /\ inits = 0
  /\ opens = 0
  /\ enrolled = {}

----------------------------------------------------------------------------

\* validate_project_identity: every path belongs to the one key.
Identity(k, home) ==
  /\ EnrolledAs[home.repository] = k
  /\ EnrolledAs[home.worktree] = k

InGit(d, path) == d[path].is = "checkout"

\* _require_same_repository.
SameRepository(d, home) == d[home.repository] = d[home.worktree]

\* _ensure_git_worktree: what the disk holds afterwards.  The worktree is the
\* repository itself, or a checkout of it, or is added when there is nothing
\* or an empty directory; else the command ends with an error.
Prepared(home) ==
  IF disk[home.worktree].is \in {"nothing", "empty"}
  THEN [disk EXCEPT ![home.worktree] = disk[home.repository]]
  ELSE disk

\* (PreparesAnyCheckout is a faulty variant of CanPrepare.)
PreparesAnyCheckout(home) ==
  /\ InGit(disk, home.repository)
  /\ InGit(Prepared(home), home.worktree)

CanPrepare(home) ==
  /\ InGit(disk, home.repository)
  /\ InGit(Prepared(home), home.worktree)
  /\ SameRepository(Prepared(home), home)

\* cmd_init up to the database; a command that ends with an error has at most
\* added the worktree.
Prepare(k, home) ==
  /\ inits < MaxInits
  /\ Identity(k, home)
  /\ CanPrepare(home)
  /\ disk' = Prepared(home)
  /\ preparing' = preparing \cup {[key |-> k, home |-> home]}
  /\ inits' = inits + 1
  /\ UNCHANGED <<registryVars, opens, enrolled>>

\* INSERT INTO repositories ... ON CONFLICT (canonical_path): another path
\* with the same repo_key is a violation of its unique constraint.
NameIsTaken(r, name) == repos[r] = NoRow /\ \E other \in Paths : repos[other] = name

RecordRepository(r, name) ==
  repos' = [repos EXCEPT ![r] = IF @ = NoRow THEN name ELSE @]

\* Both writers: a worktree has one row.  init moves it to its repository,
\* session_open leaves it where it is.  (Stays is a faulty variant of Moved.)
Stays(home) ==
  [worktrees EXCEPT ![home.worktree] = IF @ = NoRow THEN home.repository ELSE @]
Moved(home) == [worktrees EXCEPT ![home.worktree] = home.repository]

\* _ensure_project: one transaction.
Register(i) ==
  LET k == i.key
  IN /\ i \in preparing
     /\ ~NameIsTaken(i.home.repository, InitName(k))
     /\ RecordRepository(i.home.repository, InitName(k))
     /\ worktrees' = Moved(i.home)
     /\ projects' = [projects EXCEPT ![k] = i.home]
     /\ primary' = [primary EXCEPT ![k] = {i.home.worktree}]
     /\ linked' = [linked EXCEPT ![k] = @ \cup {i.home.worktree}]
     /\ preparing' = preparing \ {i}
     /\ enrolled' = enrolled \cup {k}
     /\ UNCHANGED <<disk, inits, opens>>

\* The transaction fails, or the command is killed before it.
Abandon(i) ==
  /\ i \in preparing
  /\ preparing' = preparing \ {i}
  /\ UNCHANGED <<disk, registryVars, inits, opens, enrolled>>

\* The one statement of session_open.  The project is created from the row of
\* the worktree, or must belong to that row's repository.
SessionHome(home) ==
  [repository |-> IF worktrees[home.worktree] = NoRow
                  THEN home.repository ELSE worktrees[home.worktree],
   worktree |-> home.worktree]

SessionAccepted(k, home) ==
  /\ Identity(k, home)
  /\ ~NameIsTaken(home.repository, SessionName(home.repository))
  /\ projects[k] # NoRow => projects[k].repository = SessionHome(home).repository

RecordSession(k, home) ==
  LET created == IF projects[k] = NoRow THEN SessionHome(home) ELSE projects[k]
      w == home.worktree
  IN /\ RecordRepository(home.repository, SessionName(home.repository))
     /\ worktrees' = Stays(home)
     /\ projects' = [projects EXCEPT ![k] = created]
     /\ linked' = [linked EXCEPT ![k] = @ \cup {w}]
     /\ primary' = [primary EXCEPT ![k] =
                      IF w \notin linked[k] /\ w = created.worktree THEN @ \cup {w} ELSE @]

\* A client opens a session.
OpenSession(k, home) ==
  /\ opens < MaxOpens
  /\ SessionAccepted(k, home)
  /\ RecordSession(k, home)
  /\ opens' = opens + 1
  /\ UNCHANGED <<disk, preparing, inits, enrolled>>

RegistryNext ==
  \/ \E k \in Keys, home \in Home : Prepare(k, home) \/ OpenSession(k, home)
  \/ \E i \in preparing : Register(i) \/ Abandon(i)

\* _validated_assigned_worktree of the row that _resolve_project returns.
Validated(k) ==
  /\ projects[k] # NoRow
  /\ Identity(k, projects[k])
  /\ InGit(disk, projects[k].worktree)
  /\ SameRepository(disk, projects[k])

----------------------------------------------------------------------------

\* A project has one primary worktree, the one its row names, and that
\* worktree's own row belongs to the project's repository: the three tables
\* never tell different stories, whoever wrote last.
OneHomePerProject ==
  \A k \in Keys :
    IF projects[k] = NoRow THEN primary[k] = {}
    ELSE /\ primary[k] = {projects[k].worktree}
         /\ worktrees[projects[k].worktree] = projects[k].repository

\* A key for which init has reported success can start a run: what init found
\* on the disk before its transaction, and what sessions write later, does not
\* leave the project with a worktree that start and resume refuse.
EnrolledIsUsable == \A k \in enrolled : Validated(k)
=============================================================================
