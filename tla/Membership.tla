------------------------------ MODULE Membership ------------------------------
(***************************************************************************)
(* The members of one organisation and their roles (src/services/          *)
(* membership.ts, src/routes/orgMembers.ts).                               *)
(*                                                                         *)
(* Removing a member or changing a role reads the membership, counts the   *)
(* owners or the administrators and then writes, in queries of their own:  *)
(* another request can write in between.  A transfer reads and writes in a *)
(* transaction that takes no lock before its first update.                 *)
(*                                                                         *)
(* The unique key of a membership includes team_id, which is NULL for the  *)
(* organisation itself, so a member who is added again has another row.    *)
(* Who may call is not part of the model: requireOrgAccess looks it up in  *)
(* a list of its own that the services do not write.                       *)
(***************************************************************************)
EXTENDS Integers, FiniteSets

CONSTANTS
    Members,
    Edits,     \* requests that change the membership
    NoMember,
    MaxRows    \* bound on the rows of one member

ASSUME MembershipAssumption ==
    IsFiniteSet(Members) /\ NoMember \notin Members /\ MaxRows \in Nat

VARIABLES
    role,  \* of each row of each member, "none" where there is no such row
    edit,  \* requests: what they do, to whom, the role read and wanted
    stale  \* history: edits during which another one has written

memberVars == <<role, edit, stale>>

RowNumbers == 1 .. MaxRows
Roles == {"owner", "admin", "member"}
AdminRoles == {"owner", "admin"}
NoEdit == [at |-> "idle", who |-> NoMember, from |-> "none", to |-> "none"]

MemberInit ==
    /\ role = [m \in Members |-> [n \in RowNumbers |-> "none"]]
    /\ edit = [e \in Edits |-> NoEdit]
    /\ stale = {}

RowsWith(roles) == {t \in Members \X RowNumbers : role[t[1]][t[2]] \in roles}
CountOrgOwners == Cardinality(RowsWith({"owner"}))
CountOrgAdmins == Cardinality(RowsWith(AdminRoles))
Demotes(from, to) == from \in AdminRoles /\ to \notin AdminRoles

\* first: any of the rows of a member.
Has(m, r) == \E n \in RowNumbers : role[m][n] = r
\* An update of all rows of m.
AllRows(m, r) == [n \in RowNumbers |-> IF role[m][n] = "none" THEN "none" ELSE r]

Goes(e, stage) == edit' = [edit EXCEPT ![e].at = stage]
Drop(e) == edit' = [edit EXCEPT ![e] = NoEdit]

\* A write of e makes the edits under way that have read the roles stale.
Writes(e) ==
    /\ Drop(e)
    /\ stale' = (stale \cup {f \in Edits : edit[f].at # "idle"}) \ {e}
Reads == UNCHANGED <<role, stale>>
Gives(e) == Drop(e) /\ stale' = stale \ {e} /\ UNCHANGED role

-----------------------------------------------------------------------------
\* createMembership inserts a row, whatever rows the member has.
AddMember(m, r) ==
    /\ \E n \in RowNumbers :
          /\ \A k \in RowNumbers : role[m][k] = "none" <=> k >= n
          /\ role' = [role EXCEPT ![m][n] = r]
    /\ stale' = {f \in Edits : edit[f].at # "idle"}
    /\ UNCHANGED edit

\* removeMembership (to "none") and changeRole read a row of the member.
ReadMembership(e, m, from, to) ==
    /\ edit[e].at = "idle"
    /\ Has(m, from) /\ from \notin {"none", to}
    /\ edit' = [edit EXCEPT ![e] =
           [at |-> IF from = "owner" THEN "owners"
                   ELSE IF Demotes(from, to) THEN "admins" ELSE "write",
            who |-> m, from |-> from, to |-> to]]
    /\ Reads

\* Mutant of CountOwners: an owner may go when there is one.
CountOwnersLoosely(e) ==
    /\ edit[e].at = "owners"
    /\ IF CountOrgOwners < 1 THEN Gives(e)
       ELSE Goes(e, IF edit[e].to = "none" THEN "admins" ELSE "write") /\ Reads

\* The last owner stays.  A removal counts the administrators too.
CountOwners(e) ==
    /\ edit[e].at = "owners"
    /\ IF CountOrgOwners <= 1 THEN Gives(e)
       ELSE Goes(e, IF edit[e].to = "none" THEN "admins" ELSE "write") /\ Reads

CountAdmins(e) ==
    /\ edit[e].at = "admins"
    /\ IF CountOrgAdmins <= 1 THEN Gives(e) ELSE Goes(e, "write") /\ Reads

\* Neither write asks for the role that was read, and both hit every row.
WriteMembership(e) ==
    LET m == edit[e].who
    IN  /\ edit[e].at = "write"
        /\ role' = [role EXCEPT ![m] = AllRows(m, edit[e].to)]
        /\ Writes(e)

\* transferOwnership checks the caller and finds the new owner's membership.
ReadTransfer(e, owner, heir, from) ==
    /\ edit[e].at = "idle"
    /\ Has(owner, "owner") /\ Has(heir, from) /\ from # "none"
    /\ edit' = [edit EXCEPT ![e] = [at |-> "transfer", who |-> owner,
                                    from |-> from, to |-> heir]]
    /\ Reads

\* Both updates; an heir read as an owner is not updated, and one who has left
\* in between is not there to be.
CommitTransfer(e) ==
    LET owner == edit[e].who
        heir == edit[e].to
    IN  /\ edit[e].at = "transfer"
        /\ role' = [m \in Members |->
               IF m = owner THEN AllRows(m, "admin")
               ELSE IF m = heir /\ edit[e].from # "owner" THEN AllRows(m, "owner")
               ELSE role[m]]
        /\ Writes(e)

AbandonEdit(e) == edit[e].at # "idle" /\ Gives(e)

MemberNext ==
    \/ \E m \in Members, r \in Roles : AddMember(m, r)
    \/ \E e \in Edits, m \in Members, from \in Roles :
         \/ \E to \in Roles \cup {"none"} : ReadMembership(e, m, from, to)
         \/ \E heir \in Members : ReadTransfer(e, m, heir, from)
    \/ \E e \in Edits : \/ CountOwners(e) \/ CountAdmins(e) \/ WriteMembership(e)
                        \/ CommitTransfer(e) \/ AbandonEdit(e)

MemberSpec == MemberInit /\ [][MemberNext]_memberVars

MemberTypeOK ==
    /\ role \in [Members -> [RowNumbers -> Roles \cup {"none"}]]
    /\ edit \in [Edits -> [at : {"idle", "owners", "admins", "write", "transfer"},
                           who : Members \cup {NoMember}, from : Roles \cup {"none"},
                           to : Roles \cup {"none"} \cup Members]]
    /\ stale \subseteq Edits

HasOwner == \E m \in Members : Has(m, "owner")
Written(e) == edit[e].at \in {"write", "transfer"} /\ edit'[e] = NoEdit
AddedTwice(m) == \E n, k \in RowNumbers : n # k /\ role[m][n] # "none" /\ role[m][k] # "none"

\* membership.ts, "Cannot remove the last owner": an organisation loses its last
\* owner only to an edit that writes although another has since it read, to one
\* of a member who has been added twice (and is counted twice), or to an owner
\* who transfers the ownership to themself.
OwnerRemains ==
    [][HasOwner =>
          \/ HasOwner'
          \/ \E e \in Edits :
                /\ Written(e)
                /\ \/ e \in stale \/ AddedTwice(edit[e].who) \/ edit[e].who = edit[e].to]_memberVars
=============================================================================
