------------------------------ MODULE Members -------------------------------
(* The members, roles, invitations and seats of one workspace (ui/src/app/ *)
(* api/workspaces and api/invites). A route handler authorises its caller, *)
(* reads what it decides on, and writes, with an await between the three;  *)
(* there is no transaction around them. "Req" are handlers under way.      *)
(*                                                                         *)
(* Billing is enabled (without it every plan has unlimited seats), and the *)
(* plan only matters as limited (FREE) or not.                             *)
EXTENDS Naturals, FiniteSets

CONSTANTS
    User,        \* users; an invitation to an e-mail is one to its user
    Req,         \* slots for requests under way
    OfferedRole, \* the roles invitations and additions are made with
    SeatLimit,   \* SEAT_LIMITS[FREE]
    MaxExcess,   \* bound on the members added without a seat check
    Nobody       \* no role, no user

ASSUME MembersAssumption ==
    /\ SeatLimit \in Nat \ {0} /\ MaxExcess \in Nat
    /\ OfferedRole \subseteq {"ADMIN", "MEMBER"}
    /\ IsFiniteSet(User) /\ IsFiniteSet(Req) /\ Req # {}
    /\ Nobody \notin User \cup {"ADMIN", "MEMBER"}

VARIABLES
    workspace,\* the Workspace row: "none", "open", "deleted"
    limited,  \* its plan is FREE
    member,   \* the role of each user, or Nobody
    invited,  \* the role each user is invited with, or Nobody
    req,      \* the handlers under way
    excess    \* history: seats that no check has limited, see SeatBound

membersVars == <<workspace, limited, member, invited, req, excess>>

Role == {"ADMIN", "MEMBER"}

Open == workspace = "open"

Members == {u \in User : member[u] # Nobody}
Invites == {u \in User : invited[u] # Nobody}
Admins  == {u \in User : member[u] = "ADMIN"}

(* "self": the caller is the target; "held": the row the handler read is    *)
(* there; "stale": history, the set of admins changed under way.            *)
NoReq == [pc |-> "idle", op |-> "none", self |-> FALSE, who |-> Nobody, role |-> Nobody,
          held |-> FALSE, stale |-> FALSE]

MembersInit ==
    /\ workspace = "none" /\ limited = TRUE
    /\ member = [u \in User |-> Nobody]
    /\ invited = [u \in User |-> Nobody]
    /\ req = [r \in Req |-> NoReq]
    /\ excess = 0

Answer(r) == req' = [req EXCEPT ![r] = NoReq]

-----------------------------------------------------------------------------
(* POST /workspaces: the creator is its first admin, in one transaction.   *)
CreateWorkspace(u) ==
    /\ workspace = "none"
    /\ workspace' = "open"
    /\ member' = [member EXCEPT ![u] = "ADMIN"]
    /\ UNCHANGED <<limited, invited, req, excess>>

(* requireAuth and requireWorkspaceMembership(user, workspace, ADMIN).     *)
Authorize(r, q) ==
    /\ req[r].pc = "idle" /\ Open
    /\ req' = [req EXCEPT ![r] = [q EXCEPT !.pc = "authorized"]]
    /\ UNCHANGED <<workspace, limited, member, invited, excess>>

AuthorizeNew(r, op, v, role) ==
    /\ Admins # {} /\ (op = "add" => excess < MaxExcess)
    /\ Authorize(r, [NoReq EXCEPT !.op = op, !.who = v, !.role = role])

AuthorizeMember(r, op, u, v, role) ==
    /\ member[u] = "ADMIN"
    /\ Authorize(r, [NoReq EXCEPT !.op = op, !.self = (u = v), !.who = v, !.role = role])

AuthorizeOther(r, op, v) ==
    /\ Admins # {}
    /\ Authorize(r, [NoReq EXCEPT !.op = op, !.who = v])

(* POST /invites/:id/accept needs no membership: the invitation, which the *)
(* user has, is the authority.                                             *)
Accept(r, u) ==
    /\ invited[u] # Nobody
    /\ Authorize(r, [NoReq EXCEPT !.op = "accept", !.who = u])

OneSeatTooMany(seats) == ~limited \/ seats <= SeatLimit

(* canAddWorkspaceSeat *)
CanAddSeat(seats) == ~limited \/ seats < SeatLimit

(* "Cannot demote (leave) as the last admin" is asked only when the caller *)
(* is the target.                                                          *)
AnyoneMayLeave(q) == TRUE

MayLeave(q) ==
    \/ ~q.self
    \/ member[q.who] # "ADMIN"
    \/ q.op = "update" /\ q.role = "ADMIN"
    \/ Cardinality(Admins) > 1

(* What a handler reads before it writes, and what it refuses.             *)
Allowed(q) ==
    CASE q.op = "invite" -> /\ member[q.who] = Nobody /\ invited[q.who] = Nobody
                            /\ CanAddSeat(Cardinality(Members) + Cardinality(Invites))
      [] q.op = "add"    -> member[q.who] = Nobody
      [] q.op = "cancel" -> invited[q.who] # Nobody
      [] q.op = "accept" -> invited[q.who] # Nobody /\ CanAddSeat(Cardinality(Members))
      [] q.op = "delete" -> TRUE
      [] OTHER           -> member[q.who] # Nobody /\ MayLeave(q)

(* Who accepts though already a member only deletes the invitation, as     *)
(* cancelling it does.                                                     *)
Purpose(q) ==
    IF q.op = "accept" /\ member[q.who] # Nobody THEN [q EXCEPT !.op = "cancel"] ELSE q

Refuse(r) ==
    /\ req[r].pc = "authorized" /\ ~(Open /\ Allowed(Purpose(req[r])))
    /\ Answer(r)
    /\ UNCHANGED <<workspace, limited, member, invited, excess>>

Check(r) ==
    LET q == Purpose(req[r]) IN
    /\ q.pc = "authorized" /\ Open /\ Allowed(q)
    /\ req' = [req EXCEPT ![r] = [q EXCEPT !.pc = "checked", !.held = TRUE,
                                           !.role = IF q.op = "accept" THEN invited[q.who] ELSE @]]
    /\ UNCHANGED <<workspace, limited, member, invited, excess>>

-----------------------------------------------------------------------------
(* The writes name the row by the id that was read: when that row is gone, *)
(* even if the user has a new one, they fail.                              *)

Ready(r, op) == req[r].pc = "checked" /\ req[r].op = op /\ Open

(* r is answered, and the handlers that hold the deleted row of v fail.    *)
AnswerAndDrop(r, ops, v) ==
    req' = [q \in Req |->
              IF q = r THEN NoReq
              ELSE [req[q] EXCEPT
                      !.held  = @ /\ ~(req[q].op \in ops /\ req[q].who = v),
                      !.stale = @ \/ (req[q].op \in {"update", "remove"} /\ Admins' # Admins)]]

(* The unique keys (workspace, user) and (e-mail, workspace), or the row   *)
(* read before, refuse the write.                                          *)
Fail(r) ==
    LET q == req[r] IN
    /\ q.pc = "checked"
    /\ \/ ~Open
       \/ q.op = "invite" /\ invited[q.who] # Nobody
       \/ q.op \in {"add", "accept"} /\ member[q.who] # Nobody
       \/ q.op \in {"update", "remove", "cancel", "accept"} /\ ~q.held
    /\ Answer(r)
    /\ UNCHANGED <<workspace, limited, member, invited, excess>>

Invite(r) ==
    /\ Ready(r, "invite") /\ invited[req[r].who] = Nobody
    /\ invited' = [invited EXCEPT ![req[r].who] = req[r].role]
    /\ Answer(r)
    /\ UNCHANGED <<workspace, limited, member, excess>>

CancelInvite(r) ==
    /\ Ready(r, "cancel") /\ req[r].held
    /\ invited' = [invited EXCEPT ![req[r].who] = Nobody]
    /\ UNCHANGED <<workspace, limited, member, excess>>
    /\ AnswerAndDrop(r, {"cancel", "accept"}, req[r].who)

AcceptInvite(r) ==
    /\ Ready(r, "accept") /\ req[r].held /\ member[req[r].who] = Nobody
    /\ member' = [member EXCEPT ![req[r].who] = req[r].role]
    /\ invited' = [invited EXCEPT ![req[r].who] = Nobody]
    /\ AnswerAndDrop(r, {"cancel", "accept"}, req[r].who)
    /\ UNCHANGED <<workspace, limited, excess>>

(* POST .../members looks at no seat limit. *)
AddMember(r) ==
    /\ Ready(r, "add") /\ member[req[r].who] = Nobody
    /\ member' = [member EXCEPT ![req[r].who] = req[r].role]
    /\ excess' = IF limited THEN excess + 1 ELSE excess
    /\ AnswerAndDrop(r, {}, Nobody)
    /\ UNCHANGED <<workspace, limited, invited>>

UpdateRole(r) ==
    /\ Ready(r, "update") /\ req[r].held
    /\ member' = [member EXCEPT ![req[r].who] = req[r].role]
    /\ AnswerAndDrop(r, {}, Nobody)
    /\ UNCHANGED <<workspace, limited, invited, excess>>

RemoveMember(r) ==
    /\ Ready(r, "remove") /\ req[r].held
    /\ member' = [member EXCEPT ![req[r].who] = Nobody]
    /\ AnswerAndDrop(r, {"update", "remove"}, req[r].who)
    /\ UNCHANGED <<workspace, limited, invited, excess>>

(* The deletion cascades to members and invitations. *)
DeleteWorkspace(r) ==
    /\ Ready(r, "delete")
    /\ workspace' = "deleted"
    /\ member' = [u \in User |-> Nobody]
    /\ invited' = [u \in User |-> Nobody]
    /\ req' = [q \in Req |-> IF q = r THEN NoReq ELSE [req[q] EXCEPT !.held = FALSE]]
    /\ limited' = TRUE /\ excess' = 0

-----------------------------------------------------------------------------
(* The plan changes: by the billing webhook or by change-plan. *)

Upgraded ==
    /\ Open /\ limited
    /\ limited' = FALSE /\ excess' = 0
    /\ UNCHANGED <<workspace, member, invited, req>>

(* A workspace that falls back to FREE keeps the members it has. *)
Downgraded ==
    /\ Open /\ ~limited
    /\ limited' = TRUE
    /\ excess' = IF Cardinality(Members) < SeatLimit
                    THEN 0 ELSE Cardinality(Members) + 1 - SeatLimit
    /\ UNCHANGED <<workspace, member, invited, req>>

MembersNext ==
    \/ \E u \in User : CreateWorkspace(u)
    \/ \E r \in Req, u, v \in User :
        \/ \E role \in OfferedRole, op \in {"invite", "add"} : AuthorizeNew(r, op, v, role)
        \/ \E role \in Role : AuthorizeMember(r, "update", u, v, role)
        \/ AuthorizeMember(r, "remove", u, v, Nobody)
        \/ AuthorizeOther(r, "cancel", v)
        \/ AuthorizeOther(r, "delete", Nobody)
    \/ \E r \in Req :
        \/ \E u \in User : Accept(r, u)
        \/ Refuse(r) \/ Check(r) \/ Fail(r)
        \/ Invite(r) \/ CancelInvite(r) \/ AcceptInvite(r) \/ AddMember(r)
        \/ UpdateRole(r) \/ RemoveMember(r) \/ DeleteWorkspace(r)
    \/ Upgraded \/ Downgraded

MembersSpec == MembersInit /\ [][MembersNext]_membersVars

-----------------------------------------------------------------------------
MembersTypeOK ==
    /\ workspace \in {"none", "open", "deleted"} /\ limited \in BOOLEAN
    /\ member \in [User -> Role \cup {Nobody}]
    /\ invited \in [User -> Role \cup {Nobody}]
    /\ excess \in Nat
    /\ req \in [Req -> [pc : {"idle", "authorized", "checked"},
                        op : {"none", "invite", "add", "update", "remove", "cancel",
                              "delete", "accept"},
                        self : BOOLEAN, who : User \cup {Nobody},
                        role : Role \cup {Nobody}, held : BOOLEAN, stale : BOOLEAN]]

(* Acceptances that passed the seat check and have not written yet.        *)
Accepting == {r \in Req : req[r].pc = "checked" /\ req[r].op = "accept"}

(* accept/route.ts counts and writes without a transaction around both:    *)
(* acceptances that run at the same time can overrun the FREE plan's seats *)
(* but by fewer than there are of them, and nothing else overruns them     *)
(* except members kept through a downgrade and those POST .../members      *)
(* added.                                                                  *)
SeatBound ==
    Open /\ limited =>
        Cardinality(Members) + Cardinality(Accepting) + 1
            <= SeatLimit + Cardinality(Req) + excess

(* A workspace loses its last admin only by a handler under way while the  *)
(* set of admins changed (two admins who leave, or remove each other, at   *)
(* the same time), or when it is deleted. ("Cannot leave as the last       *)
(* admin", members/[userId]/route.ts)                                      *)
LastAdminOnlyByStaleRequest ==
    [][ Admins # {} /\ Admins' = {} =>
            \/ workspace' = "deleted"
            \/ \E r \in Req : /\ req[r].pc = "checked" /\ req[r].stale
                              /\ req'[r].pc = "idle" ]_membersVars
=============================================================================
