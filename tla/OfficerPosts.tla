---------------------------- MODULE OfficerPosts ----------------------------
(***************************************************************************)
(* The posts of an officer: AssignUser and EndAssignment on                *)
(* user_assignments, and the questions that are asked of that table, next   *)
(* to the sessions and the administration of the officer's account.  An     *)
(* assignment keeps the role the users row had when AssignUser read it.     *)
(***************************************************************************)
EXTENDS AccessTokens

CONSTANTS Posts,    \* ids of user_assignments rows
          Days,     \* DATE
          NoPost, NoDay

ASSUME DaysAreDates == Days \subseteq Nat /\ NoDay \notin Days

VARIABLE post       \* post[i]: a user_assignments row, or NoPost

Assignments == [unit : Units, role : Roles, start : Days, end : Days \cup {NoDay}]

ASSUME NoPostIsNone == NoPost \notin Assignments

PostInit == AccessInit /\ post = [i \in Posts |-> NoPost]

(* FindUnitByCode finds the unit; FindByID the user, whose role is kept. *)
AssignUserLook(a, unit) == Look(a, "assign", Keep, unit)

RoleKept(a) == looked[a].found

(* end_date stays NULL. *)
CreateAssignment(a, i, start) ==
  /\ looked[a] # Nothing /\ looked[a].does = "assign"
  /\ post[i] = NoPost
  /\ post' = [post EXCEPT ![i] = [unit |-> looked[a].unit, role |-> RoleKept(a),
                                  start |-> start, end |-> NoDay]]
  /\ looked' = [looked EXCEPT ![a] = Nothing]
  /\ UNCHANGED <<vars, now, begun, tokens, redis, met>>

OpenOrNot(i) == post[i] # NoPost
Open(i) == post[i] # NoPost /\ post[i].end = NoDay

(* WHERE end_date IS NULL; no check against start_date, and ending nothing  *)
(* is answered like ending something.                                       *)
EndAssignment(i, day) ==
  /\ Begin
  /\ post' = IF Open(i) THEN [post EXCEPT ![i].end = day] ELSE post
  /\ UNCHANGED <<vars, now, tokens, redis, looked, met>>

PostStep ==
  \/ \E a \in Admins, unit \in Units : AssignUserLook(a, unit) /\ UNCHANGED post
  \/ \E a \in Admins, i \in Posts, day \in Days : CreateAssignment(a, i, day)
  \/ \E i \in Posts, day \in Days : post[i] # NoPost /\ EndAssignment(i, day)

PostNext == (PostStep \/ (AccessStep /\ UNCHANGED post)) /\ Noted

PostSpec == PostInit /\ [][PostNext]_<<allVars, post>>

-----------------------------------------------------------------------------
(* What is asked *)

GetActiveOfficersByUnit(unit) == {i \in Posts : Open(i) /\ post[i].unit = unit}

(* Both ends of the period count. *)
GetOfficerAtTime(unit, day) ==
  {i \in Posts : /\ post[i] # NoPost /\ post[i].unit = unit
                 /\ post[i].start <= day
                 /\ post[i].end = NoDay \/ post[i].end >= day}

-----------------------------------------------------------------------------
(* Properties *)

PostTypeOK == AccessTypeOK /\ post \in [Posts -> Assignments \cup {NoPost}]

(* Who was in charge of a unit on a day is settled: of an officer once      *)
(* assigned the answer changes at most once, when the assignment is ended,  *)
(* and only for days after its last; no end, repeated or raced, gives a day *)
(* back.                                                                    *)
HistoryIsSettled ==
  [][\A unit \in Units, day \in Days :
       LET was == GetOfficerAtTime(unit, day)
           is == GetOfficerAtTime(unit, day)'
       IN  /\ \A i \in is \ was : post[i] = NoPost
           /\ \A i \in was \ is :
                i \in GetActiveOfficersByUnit(unit) /\ post'[i].end < day]_post

(* A role nobody named is the user's own: an UpdateUser without a role      *)
(* leaves the role as it is, and a new assignment keeps the role of that    *)
(* moment, unless another UpdateUser was written since the call looked.     *)
UnnamedRolesAreCurrent ==
  [][\A a \in Admins : looked[a] # Nothing /\ a \notin met =>
       /\ looked[a].role = Keep /\ UpdateUserWrite(a) => scope'.role = scope.role
       /\ \A i \in Posts, day \in Days :
            CreateAssignment(a, i, day) => post'[i].role = scope.role]_<<allVars, post>>
=============================================================================
