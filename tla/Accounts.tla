------------------------------ MODULE Accounts ------------------------------
(***************************************************************************)
(* Sign-up, roles and profiles, and the officers' decisions about them,    *)
(* together with the notices that tell people of these decisions.          *)
(*                                                                         *)
(* Nothing here runs in a transaction.  Signing up inserts the user, and a *)
(* signal then inserts the profile; a decision loads a profile, saves one  *)
(* of its columns, writes an audit row and tells the person, each of them  *)
(* committed by itself, and a request can die in between.  The bulk        *)
(* actions of the admin site take the same steps for each profile they     *)
(* loaded.  An officer with two requests at once is two officers here.     *)
(* The admin's forms for profiles, which write any column, and is_active,  *)
(* which only Django reads and writes, are left out.                       *)
(***************************************************************************)
EXTENDS Notifications

CONSTANTS
  People,          \* those who may sign up
  MaxDecisions     \* bound on the decisions of a behaviour

ASSUME AccountsAssumption ==
  People \subseteq Users \ Staff /\ MaxDecisions \in Nat

VARIABLES
  role,        \* User.role, "NONE": no such user yet
  profile,     \* per person and kind, the SellerProfile and BidderProfile
  signingUp,   \* the users inserted without their post_save signal yet
  desk,        \* per officer, the decision in progress
  made,        \* number of decisions begun, which numbers them
  audited      \* the audit rows of decisions

vars == <<outbox, role, profile, signingUp, desk, made, audited>>

Kinds == {"SELLER", "BIDDER"}
Roles == Kinds \cup {"OFFICER"}   \* OFFICER stands for ADMIN as well

NoProfile == [verification |-> "NONE", account |-> "NONE"]

(* A SellerProfile has no account_status. *)
Fresh(kind) ==
  [verification |-> "PENDING",
   account |-> IF kind = "BIDDER" THEN "ACTIVE" ELSE "NONE"]

Profile(kind) ==
  {NoProfile} \cup
  [verification : {"PENDING", "VERIFIED", "REJECTED"},
   account : IF kind = "BIDDER" THEN {"ACTIVE", "SUSPENDED"} ELSE {"NONE"}]

Verdicts == {"VERIFY", "REJECT"}
Sanctions == {"SUSPEND", "REACTIVATE"}
Decisions == Verdicts \cup Sanctions

Idle == [step |-> "idle"]

(* The actions offered for a kind of profile. *)
Offered_Slip(kind) == Decisions

Offered(kind) == IF kind = "BIDDER" THEN Decisions ELSE Verdicts

EventOf(decision) ==
  CASE decision = "VERIFY"     -> "ACCOUNT_VERIFIED"
    [] decision = "REJECT"     -> "ACCOUNT_REJECTED"
    [] decision = "SUSPEND"    -> "ACCOUNT_SUSPENDED"
    [] decision = "REACTIVATE" -> "ACCOUNT_REACTIVATED"

Init ==
  /\ OutboxInit
  /\ role = [p \in People |-> "NONE"]
  /\ profile = [p \in People |-> [k \in Kinds |-> NoProfile]]
  /\ signingUp = {}
  /\ desk = [o \in Staff |-> Idle]
  /\ made = 0
  /\ audited = {}

----------------------------------------------------------------------------
(***************************************************************************)
(*                          Users and profiles                             *)
(***************************************************************************)
(* get_or_create. *)
WithProfile(p, kind) ==
  IF profile[p][kind] = NoProfile
  THEN [profile EXCEPT ![p][kind] = Fresh(kind)]
  ELSE profile

(* The registration form only offers the two roles. *)
SignUp(p, kind) ==
  /\ role[p] = "NONE"
  /\ role' = [role EXCEPT ![p] = kind]
  /\ signingUp' = signingUp \cup {<<p, kind>>}
  /\ UNCHANGED <<outbox, profile, desk, made, audited>>

CreateProfile(p, kind) ==
  /\ <<p, kind>> \in signingUp
  /\ profile' = WithProfile(p, kind)
  /\ signingUp' = signingUp \ {<<p, kind>>}
  /\ UNCHANGED <<outbox, role, desk, made, audited>>

SignUpDies(p, kind) ==
  /\ <<p, kind>> \in signingUp
  /\ signingUp' = signingUp \ {<<p, kind>>}
  /\ UNCHANGED <<outbox, role, profile, desk, made, audited>>

(* The admin's add form asks for no role and is one transaction. *)
Provision(p) ==
  /\ role[p] = "NONE"
  /\ role' = [role EXCEPT ![p] = "BIDDER"]
  /\ profile' = WithProfile(p, "BIDDER")
  /\ UNCHANGED <<outbox, signingUp, desk, made, audited>>

(* The signal returns at once for a user that is not new. *)
ChangeRole(p, new) ==
  /\ role[p] # "NONE"
  /\ role' = [role EXCEPT ![p] = new]
  /\ UNCHANGED <<outbox, profile, signingUp, desk, made, audited>>

Membership ==
  \E p \in People :
    \/ \E k \in Kinds : SignUp(p, k) \/ CreateProfile(p, k) \/ SignUpDies(p, k)
    \/ Provision(p)
    \/ \E r \in Roles : ChangeRole(p, r)

----------------------------------------------------------------------------
(***************************************************************************)
(*                              Decisions                                  *)
(***************************************************************************)
Load(o, p, kind, decision) ==
  /\ desk[o] = Idle /\ made < MaxDecisions
  /\ profile[p][kind] # NoProfile
  /\ decision \in Offered(kind)
  /\ desk' = [desk EXCEPT ![o] =
               [step |-> "loaded", who |-> p, kind |-> kind, decision |-> decision,
                seen |-> profile[p][kind], number |-> made + 1]]
  /\ made' = made + 1
  /\ UNCHANGED <<outbox, role, profile, signingUp, audited>>

Decided(row, decision) ==
  CASE decision = "VERIFY"     -> [row EXCEPT !.verification = "VERIFIED"]
    [] decision = "REJECT"     -> [row EXCEPT !.verification = "REJECTED"]
    [] decision = "SUSPEND"    -> [row EXCEPT !.account = "SUSPENDED"]
    [] decision = "REACTIVATE" -> [row EXCEPT !.account = "ACTIVE"]

(* save(update_fields=...): the other columns are those of the table, not  *)
(* those of the object the request loaded. *)
SavedRow_Slip(row, seen, decision) == Decided(seen, decision)

SavedRow(row, seen, decision) == Decided(row, decision)

Save(o) ==
  /\ desk[o].step = "loaded"
  /\ profile' = [profile EXCEPT ![desk[o].who][desk[o].kind] =
                  SavedRow(@, desk[o].seen, desk[o].decision)]
  /\ desk' = [desk EXCEPT ![o].step = "saved"]
  /\ UNCHANGED <<outbox, role, signingUp, made, audited>>

AuditRow(o) ==
  [number |-> desk[o].number, who |-> desk[o].who, decision |-> desk[o].decision]

Audit(o) ==
  /\ desk[o].step = "saved"
  /\ audited' = audited \cup {AuditRow(o)}
  /\ desk' = [desk EXCEPT ![o].step = "audited"]
  /\ UNCHANGED <<outbox, role, profile, signingUp, made>>

(* Telling is the last call. *)
TellsAfter_Slip(step) == step \in {"saved", "audited"}

TellsAfter(step) == step = "audited"

Tell(o) ==
  /\ TellsAfter(desk[o].step)
  /\ Announce(AccountNews(EventOf(desk[o].decision), desk[o].number, desk[o].who))
  /\ desk' = [desk EXCEPT ![o] = Idle]
  /\ UNCHANGED <<role, profile, signingUp, made, audited>>

(* A decision of the form that needs a reason and has none, or a request   *)
(* that dies. *)
Drop(o) ==
  /\ desk[o] # Idle
  /\ desk' = [desk EXCEPT ![o] = Idle]
  /\ UNCHANGED <<outbox, role, profile, signingUp, made, audited>>

Office ==
  \E o \in Staff :
    \/ \E p \in People, k \in Kinds, d \in Decisions : Load(o, p, k, d)
    \/ Save(o) \/ Audit(o) \/ Tell(o) \/ Drop(o)

----------------------------------------------------------------------------
Next ==
  \/ Membership
  \/ Office
  \/ (AnnounceAny \/ Post) /\ UNCHANGED <<role, profile, signingUp, desk, made, audited>>

Spec == Init /\ [][Next]_vars

----------------------------------------------------------------------------
(***************************************************************************)
(*                              Properties                                 *)
(***************************************************************************)
Busy ==
  [step : {"loaded", "saved", "audited"}, who : People, kind : Kinds,
   decision : Decisions, seen : Profile("SELLER") \cup Profile("BIDDER"),
   number : 1..made]

TypeOK ==
  /\ OutboxTypeOK
  /\ role \in [People -> Roles \cup {"NONE"}]
  /\ profile \in [People -> [Kinds -> Profile("SELLER") \cup Profile("BIDDER")]]
  /\ \A p \in People, k \in Kinds : profile[p][k] \in Profile(k)
  /\ signingUp \subseteq People \X Kinds
  /\ desk \in [Staff -> Busy \cup {Idle}]
  /\ made \in 0..MaxDecisions
  /\ audited \subseteq [number : 1..made, who : People, decision : Decisions]

(* A suspension lasts until somebody reactivates the account, and a        *)
(* verdict until somebody gives another: officers who decide about the     *)
(* same profile from pages loaded at any time do not undo each other's     *)
(* decisions of the other sort.                                            *)
DecisionsStick ==
  [][\A p \in People, k \in Kinds :
       LET By(decisions) ==
             \E o \in Staff :
               /\ desk[o].step = "loaded" /\ desk'[o].step = "saved"
               /\ desk[o].who = p /\ desk[o].kind = k /\ desk[o].decision \in decisions
       IN profile[p][k] # NoProfile =>
            /\ profile'[p][k].verification # profile[p][k].verification => By(Verdicts)
            /\ profile'[p][k].account # profile[p][k].account => By(Sanctions)]_vars

(* Nobody has a notice of a decision that the audit log does not have,     *)
(* whichever of the calls of a decision is the last one made.              *)
ToldIsAudited ==
  \A n \in DOMAIN notices :
    LET news == announced[notices[n].of]
    IN news.event \in AccountEvents =>
         \E row \in audited :
           /\ row.number = news.about /\ row.who = notices[n].to
           /\ EventOf(row.decision) = news.event

(* Once nobody is in the middle of signing up, a seller has a              *)
(* SellerProfile and a bidder a BidderProfile.  Does not hold.             *)
RoleHasProfile ==
  signingUp = {} =>
    \A p \in People : role[p] \in Kinds => profile[p][role[p]] # NoProfile
=============================================================================
