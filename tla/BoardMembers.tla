---------------------------- MODULE BoardMembers ----------------------------
(***************************************************************************)
(* The members of one open board: server/api/members.go, the membership    *)
(* operations of server/app/boards.go and the board_members table, for     *)
(* requests that run at the same time on one or several nodes.             *)
(*                                                                         *)
(* A request reads (permission, members, the last manager) and then writes *)
(* one row; nothing is held between the two.  The reads follow each other  *)
(* with no write of the same request between them, and are one step.  The  *)
(* flags of a row are its strongest role.  The board is linked to no       *)
(* channel and nobody is a guest, so no membership is synthetic.           *)
(***************************************************************************)
EXTENDS Integers, FiniteSets

CONSTANTS Users,         \* who may view the team
          TeamManagers,  \* who has PermissionManageTeam on it
          SystemAdmins,  \* who has PermissionManageSystem
          Creator,       \* who created the board
          MinimumRole,   \* what the open board grants everyone on the team
          Granted,       \* the roles that requests ask for
          Calls          \* membership requests in flight at the same time

Roles == {"viewer", "commenter", "editor", "admin"}

ASSUME MembersAssumption ==
    /\ Creator \in Users
    /\ "nobody" \notin Users
    /\ TeamManagers \subseteq Users
    /\ SystemAdmins \subseteq Users
    /\ MinimumRole \in Roles \cup {"none"}
    /\ Granted \subseteq Roles

VARIABLES member,   \* the rows of board_members, "none" where there is none
          call,     \* where each membership request is
          overrun   \* some write landed on members its request had not judged

memberVars == <<member, call, overrun>>

\* No user: the target of a request that is not running.
Nobody == "nobody"

NoCall == [at |-> "idle", user |-> Nobody, role |-> "none", old |-> "none",
           crossed |-> FALSE]

MembersTypeOK ==
    /\ member \in [Users -> Roles \cup {"none"}]
    /\ call \in [Calls -> [at : {"idle", "write"}, user : Users \cup {Nobody},
                           role : Roles \cup {"none"}, old : Roles \cup {"none"},
                           crossed : BOOLEAN]]
    /\ \A c \in Calls : call[c].at = "write" => call[c].user \in Users
    /\ overrun \in BOOLEAN

\* insertBoardWithAdmin: the board and its first manager in one transaction.
MembersInit ==
    /\ member = [u \in Users |-> IF u = Creator THEN "admin" ELSE "none"]
    /\ call = [c \in Calls |-> NoCall]
    /\ overrun = FALSE

-----------------------------------------------------------------------------
(* GetBoardPermissions: the strongest of what the open board grants, the   *)
(* row, and what a team manager with a row is promoted to.                 *)

Rank == [none |-> 0, viewer |-> 1, commenter |-> 2, editor |-> 3, admin |-> 4]

HasRank(u, r) ==
    \/ Rank[MinimumRole] >= r
    \/ Rank[member[u]] >= r
    \/ u \in TeamManagers /\ member[u] # "none"

CanView(u) == HasRank(u, 1)
CanEdit(u) == HasRank(u, 3)
Manages(u) == HasRank(u, 4)

CanManageMembership(u) == u \in SystemAdmins \/ Manages(u)

-----------------------------------------------------------------------------
(* The two guards of the last manager.  The API counts every row that      *)
(* GetMembersForBoard returns as a manager, team managers included; the    *)
(* app below it looks at the rows alone.                                   *)

Admins == {u \in Users : member[u] = "admin"}

\* Mutant of IsLastAdmin: it asks the list that promotes team managers.
LastOfTheListed(u) ==
    {x \in Users : member[x] = "admin" \/ (member[x] # "none" /\ x \in TeamManagers)} \subseteq {u}

IsLastAdmin(u) == Admins \subseteq {u}

ListedManagers == {u \in Users : \/ member[u] = "admin"
                                 \/ member[u] # "none" /\ u \in TeamManagers}

CanDowngradeLastBoardManager(u) == ListedManagers # {u}

\* What UpdateBoardMember and DeleteBoardMember refuse.
KeepsAManager(u, role) ==
    member[u] = "admin" /\ role # "admin" => ~IsLastAdmin(u)

-----------------------------------------------------------------------------
(* The requests up to their write.                                         *)

Decide(c, u, role) ==
    /\ call[c].at = "idle"
    /\ call' = [call EXCEPT ![c] = [at |-> "write", user |-> u, role |-> role,
                                    old |-> member[u], crossed |-> FALSE]]
    /\ UNCHANGED <<member, overrun>>

\* A user who has a row keeps it: AddMemberToBoard returns what is there.
AddMember(c, actor, u, role) ==
    /\ CanManageMembership(actor) \/ CanEdit(actor)
    /\ member[u] = "none"
    /\ Decide(c, u, role)

JoinBoard(c, u) ==
    /\ member[u] = "none"
    /\ Decide(c, u, IF MinimumRole = "none" THEN "editor" ELSE MinimumRole)

UpdateMember(c, actor, u, role) ==
    /\ CanManageMembership(actor)
    /\ member[u] # "none"
    /\ member[u] = "admin" /\ role # "admin" => CanDowngradeLastBoardManager(u)
    /\ KeepsAManager(u, role)
    /\ Decide(c, u, role)

DeleteMember(c, actor, u) ==
    /\ CanManageMembership(actor)
    /\ CanDowngradeLastBoardManager(u)
    /\ member[u] # "none"
    /\ KeepsAManager(u, "none")
    /\ Decide(c, u, "none")

LeaveBoard(c, u) ==
    /\ CanView(u)
    /\ member[u] # "none"
    /\ KeepsAManager(u, "none")
    /\ Decide(c, u, "none")

-----------------------------------------------------------------------------
(* The write: saveMember inserts the row or replaces its flags, whatever   *)
(* they are by now; deleteMember removes it.  A store error leaves all as  *)
(* it was.                                                                 *)

TakesAManager(u, role) == member[u] = "admin" /\ role # "admin"

\* Two overlaps do harm: the row is no longer the one the request judged, or
\* a manager was taken since it found that another one remains.
Overruns(q) ==
    \/ member[q.user] # q.old
    \/ TakesAManager(q.user, q.role) /\ q.crossed

WriteMember(c) ==
    LET q == call[c] IN
    /\ q.at = "write"
    /\ member' = [member EXCEPT ![q.user] = q.role]
    /\ overrun' = (overrun \/ Overruns(q))
    /\ call' = [x \in Calls |->
                  IF x = c THEN NoCall
                  ELSE [call[x] EXCEPT !.crossed = @ \/ TakesAManager(q.user, q.role)]]

FailToWrite(c) ==
    /\ call[c].at = "write"
    /\ call' = [call EXCEPT ![c] = NoCall]
    /\ UNCHANGED <<member, overrun>>

-----------------------------------------------------------------------------
MembersNext ==
    \E c \in Calls :
      \/ \E actor, u \in Users, role \in Granted : AddMember(c, actor, u, role)
      \/ \E u \in Users : JoinBoard(c, u)
      \/ \E actor, u \in Users, role \in Granted : UpdateMember(c, actor, u, role)
      \/ \E actor, u \in Users : DeleteMember(c, actor, u)
      \/ \E u \in Users : LeaveBoard(c, u)
      \/ WriteMember(c)
      \/ FailToWrite(c)

MembersSpec == MembersInit /\ [][MembersNext]_memberVars

-----------------------------------------------------------------------------
(* "boards must keep at least one manager" (members.go:494, boards.go:589):*)
(* whatever requests come, fail and overlap, a row with the manager's role *)
(* remains, unless a write landed on members its request had not judged.   *)
ManagerRemains == ~overrun => Admins # {}
=============================================================================
