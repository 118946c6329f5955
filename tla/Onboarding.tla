----------------------------- MODULE Onboarding -----------------------------
(***************************************************************************)
(* What registration promises across the two services, whatever carries    *)
(* the news between them: an address gets at most one account, and every   *)
(* account gets one profile, of the type asked for at registration, that   *)
(* never changes afterwards.                                               *)
(***************************************************************************)
CONSTANTS Reg, Email, AccountType, Absent

VARIABLES
    account,        \* [Reg -> the account the request created, or Absent]
    profile         \* [Reg -> type of the account's profile, or Absent]

Init ==
    /\ account = [r \in Reg |-> Absent]
    /\ profile = [r \in Reg |-> Absent]

Register(r) ==
    /\ account[r] = Absent
    /\ \E e \in Email, t \in AccountType :
         /\ \A s \in Reg : account[s] # Absent => account[s].email # e
         /\ account' = [account EXCEPT ![r] = [email |-> e, type |-> t]]
    /\ profile' = profile

CreateProfile(r) ==
    /\ account[r] # Absent
    /\ profile[r] = Absent
    /\ profile' = [profile EXCEPT ![r] = account[r].type]
    /\ account' = account

Next == \E r \in Reg : Register(r) \/ CreateProfile(r)

vars == <<account, profile>>

SafeSpec == Init /\ [][Next]_vars

Spec == SafeSpec /\ \A r \in Reg : WF_vars(CreateProfile(r))
=============================================================================
