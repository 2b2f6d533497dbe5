----------------------------- MODULE Invitations -----------------------------
(***************************************************************************)
(* Invitations to an organisation: the routes under /invitations of        *)
(* src/routes/orgMembers.ts, resendInvitation and revokeInvitation of      *)
(* src/services/membership.ts, and the memberships they add.               *)
(*                                                                         *)
(* An invitation is found by its token, then the membership is inserted,   *)
(* then accepted_at is set, in three queries.  A resend or a revocation    *)
(* reads the invitation and writes it without looking at it again.         *)
(***************************************************************************)
EXTENDS Membership

CONSTANTS
    Invites,
    Tokens,    \* issued in the order 1, 2, ...
    Requests   \* requests that accept, resend or revoke

ASSUME InvitationAssumption == Tokens \in Nat

VARIABLES
    invite,   \* rows of org_invitations; token 0: no such row
    issued,   \* tokens issued so far
    request,  \* what a request has read and is about to write
    joined,   \* history: memberships that each invitation has brought
    raced     \* history: invitations that a request has read while another
              \* was about to write, or whose acceptance was lost half way

inviteVars == <<invite, issued, request, joined, raced>>

NoRow == [token |-> 0, accepted |-> FALSE, revoked |-> FALSE, expired |-> FALSE]
NoRequest == [at |-> "idle", invite |-> 0, who |-> NoMember]

InviteInit ==
    /\ MemberInit
    /\ invite = [i \in Invites |-> NoRow]
    /\ issued = 0
    /\ request = [q \in Requests |-> NoRequest]
    /\ joined = [i \in Invites |-> 0]
    /\ raced = {}

Exists(i) == invite[i].token # 0
UnderWay(i) == {q \in Requests : request[q].at # "idle" /\ request[q].invite = i}
IssueToken == issued < Tokens /\ issued' = issued + 1

Begins(q, i, stage, m) ==
    /\ request[q].at = "idle"
    /\ request' = [request EXCEPT ![q] = [at |-> stage, invite |-> i, who |-> m]]
    /\ raced' = IF UnderWay(i) = {} THEN raced ELSE raced \cup {i}
Ends(q) == request' = [request EXCEPT ![q] = NoRequest]

-----------------------------------------------------------------------------
CreateInvitation(i) ==
    /\ ~Exists(i)
    /\ IssueToken
    /\ invite' = [invite EXCEPT ![i].token = issued']
    /\ UNCHANGED <<request, joined, raced, memberVars>>

\* Seven days after the token was issued.
ExpireInvitation(i) ==
    /\ Exists(i) /\ ~invite[i].expired
    /\ invite' = [invite EXCEPT ![i].expired = TRUE]
    /\ UNCHANGED <<issued, request, joined, raced, memberVars>>

\* Both read the invitation and refuse an accepted one.
GetOrgInvitation(q, i, stage) ==
    /\ Exists(i) /\ ~invite[i].accepted
    /\ Begins(q, i, stage, NoMember)
    /\ UNCHANGED <<invite, issued, joined, memberVars>>

ResendInvitation(q) ==
    /\ request[q].at = "resend"
    /\ IssueToken
    /\ invite' = [invite EXCEPT ![request[q].invite] =
                     [@ EXCEPT !.token = issued', !.expired = FALSE, !.revoked = FALSE]]
    /\ Ends(q)
    /\ UNCHANGED <<joined, raced, memberVars>>

RevokeInvitation(q) ==
    /\ request[q].at = "revoke"
    /\ invite' = [invite EXCEPT ![request[q].invite].revoked = TRUE]
    /\ Ends(q)
    /\ UNCHANGED <<issued, joined, raced, memberVars>>

\* Mutant of FindInvitation: accepted_at is not looked at.
FindUsedInvitation(q, i, t, m) ==
    /\ t # 0 /\ invite[i].token = t
    /\ ~invite[i].revoked /\ ~invite[i].expired
    /\ Begins(q, i, "add", m)
    /\ UNCHANGED <<invite, issued, joined, memberVars>>

\* POST /invitations/accept with token t for m, up to the membership.
FindInvitation(q, i, t, m) ==
    /\ t # 0 /\ invite[i].token = t
    /\ ~invite[i].accepted /\ ~invite[i].revoked /\ ~invite[i].expired
    /\ Begins(q, i, "add", m)
    /\ UNCHANGED <<invite, issued, joined, memberVars>>

AddInvited(q, r) ==
    /\ request[q].at = "add"
    /\ AddMember(request[q].who, r)
    /\ request' = [request EXCEPT ![q].at = "stamp"]
    /\ joined' = [joined EXCEPT ![request[q].invite] = @ + 1]
    /\ UNCHANGED <<invite, issued, raced>>

StampInvitation(q) ==
    /\ request[q].at = "stamp"
    /\ invite' = [invite EXCEPT ![request[q].invite].accepted = TRUE]
    /\ Ends(q)
    /\ UNCHANGED <<issued, joined, raced, memberVars>>

\* A query fails, or the process dies.
LoseRequest(q) ==
    /\ request[q].at # "idle"
    /\ raced' = IF request[q].at = "stamp" THEN raced \cup {request[q].invite} ELSE raced
    /\ Ends(q)
    /\ UNCHANGED <<invite, issued, joined, memberVars>>

InvitationStep ==
    \/ \E i \in Invites :
         \/ CreateInvitation(i) \/ ExpireInvitation(i)
         \/ \E q \in Requests :
              \/ \E stage \in {"resend", "revoke"} : GetOrgInvitation(q, i, stage)
              \/ \E t \in 1 .. issued, m \in Members : FindInvitation(q, i, t, m)
    \/ \E q \in Requests :
         \/ ResendInvitation(q) \/ RevokeInvitation(q)
         \/ \E r \in Roles : AddInvited(q, r)
         \/ StampInvitation(q) \/ LoseRequest(q)

InviteNext == \/ InvitationStep
              \/ MemberNext /\ UNCHANGED inviteVars
InviteSpec == InviteInit /\ [][InviteNext]_<<inviteVars, memberVars>>

InviteTypeOK ==
    /\ invite \in [Invites -> [token : 0 .. Tokens, accepted : BOOLEAN,
                               revoked : BOOLEAN, expired : BOOLEAN]]
    /\ issued \in 0 .. Tokens
    /\ request \in [Requests -> [at : {"idle", "resend", "revoke", "add", "stamp"},
                                 invite : Invites \cup {0}, who : Members \cup {NoMember}]]
    /\ joined \in [Invites -> Nat]
    /\ raced \subseteq Invites

\* docs/multi-tenancy.md, "Each token is single-use": however often it is sent
\* again, an invitation brings one member, and none once it is revoked, unless
\* two requests handle it at once or one is lost between its queries.
InvitedOnce ==
    \A i \in Invites \ raced :
        /\ joined[i] = IF \E q \in UnderWay(i) : request[q].at = "stamp" THEN 1
                       ELSE IF invite[i].accepted THEN 1 ELSE 0
        /\ ~(invite[i].accepted /\ invite[i].revoked)
=============================================================================
