--------------------------- MODULE Notifications ---------------------------
(***************************************************************************)
(* What the services tell people, and what becomes of it.                  *)
(*                                                                         *)
(* A service announces an event to some users: notify writes one row per   *)
(* recipient and queues a Celery task for it there and then.  Most         *)
(* announcements are made inside the transaction of what they are about,   *)
(* so their rows may still be rolled back, or not be committed yet when a  *)
(* worker takes the task.  The others commit row by row.  The broker may   *)
(* be unreachable, a task may be lost, and the caller may die at any step. *)
(* This is how it runs with a worker; in development and in the tests the  *)
(* task runs inside notify.                                                *)
(* Wording, links and channels are left out: only IN_APP is ever made.     *)
(* Operators named X_Slip are X with a plausible slip.                     *)
(***************************************************************************)
EXTENDS Naturals, Sequences, FiniteSets

CONSTANTS
  Users,
  Staff,           \* _staff_users
  Seller,          \* the seller of the auction
  Bidders,         \* the users with an accepted bid on it
  Winner,          \* its winner, a set of at most one bidder
  Topics,          \* the events a behaviour announces on its own
  MaxAnnounced     \* bound on the announcements of a behaviour

ASSUME NotificationsAssumption ==
  /\ Staff \subseteq Users /\ Bidders \subseteq Users /\ Winner \subseteq Bidders
  /\ Seller \in Users
  /\ MaxAnnounced \in Nat

VARIABLES
  announced,  \* the announcements, in the order they began
  notices,    \* the Notification rows, in the order they were written
  queue,      \* the notices whose delivery task is waiting
  delivered,  \* the notices whose delivery task found its row
  opened      \* per user, the notice a mark-read request has loaded, or 0

outbox == <<announced, notices, queue, delivered, opened>>

AccountEvents == {"ACCOUNT_VERIFIED", "ACCOUNT_REJECTED", "ACCOUNT_SUSPENDED",
                  "ACCOUNT_REACTIVATED"}
Events == AccountEvents \cup
  {"OUTBID", "AUCTION_WON", "AUCTION_LIVE", "AUCTION_CLOSED_NO_WINNER",
   "LISTING_APPROVED", "LISTING_REJECTED", "PAYMENT_RECEIVED", "PAYMENT_FAILED",
   "AUCTION_RESCHEDULED", "AUCTION_PAUSED", "AUCTION_RESUMED",
   "AUCTION_CANCELLED", "DISPUTE_OPENED", "DISPUTE_RESOLVED"}

(* mark_failed and the account services have no transaction of their own. *)
Unprotected == AccountEvents \cup {"PAYMENT_FAILED"}

InTransaction(event) == event \notin Unprotected

Announcement ==
  [event : Events, about : Nat, to : SUBSET Users, told : SUBSET Users,
   state : {"open", "done", "undone"}]

(* about is the related object, where the model tells one from another. *)
News(event, about, to) ==
  [event |-> event, about |-> about, to |-> to, told |-> {}, state |-> "open"]

----------------------------------------------------------------------------
(***************************************************************************)
(*                        Who is told of an event                          *)
(***************************************************************************)
OutbidNews == {News("OUTBID", 0, {b}) : b \in Bidders}

AuctionNews ==
  {News("AUCTION_WON", 0, {w}) : w \in Winner} \cup
  {News(e, 0, {Seller}) : e \in {"AUCTION_LIVE", "AUCTION_CLOSED_NO_WINNER"}}

ListingNews == {News(e, 0, {Seller}) : e \in {"LISTING_APPROVED", "LISTING_REJECTED"}}

AccountNews(event, decision, u) == News(event, decision, {u})

PaymentNews ==
  {News("PAYMENT_RECEIVED", 0, {w, Seller}) : w \in Winner} \cup
  {News("PAYMENT_FAILED", 0, {w}) : w \in Winner}

OtherParty(raiser) == IF raiser = Seller THEN Winner ELSE {Seller}

DisputeNews ==
  UNION {{News("DISPUTE_OPENED", 0, (Staff \cup OtherParty(r)) \ {r}),
          News("DISPUTE_RESOLVED", 0, OtherParty(r) \cup {r})} :
         r \in Bidders \cup {Seller}}

UpdateNews ==
  {News(e, 0, Bidders \cup {Seller}) :
     e \in {"AUCTION_RESCHEDULED", "AUCTION_PAUSED", "AUCTION_RESUMED",
            "AUCTION_CANCELLED"}}

AllNews ==
  {n \in OutbidNews \cup AuctionNews \cup ListingNews \cup PaymentNews
           \cup DisputeNews \cup UpdateNews : n.event \in Topics}

----------------------------------------------------------------------------
OutboxInit ==
  /\ announced = <<>> /\ notices = <<>>
  /\ queue = {} /\ delivered = {}
  /\ opened = [u \in Users |-> 0]

Committed(a) == ~InTransaction(announced[a].event) \/ announced[a].state = "done"

(* A row that other connections see, those of the tasks among them. *)
Visible(n) == Committed(notices[n].of)

(* An error ends the caller, and with it the transaction if there is one. *)
AfterError_Slip(event) == "done"

AfterError(event) == IF InTransaction(event) THEN "undone" ELSE "done"

Announce(news) ==
  /\ Len(announced) < MaxAnnounced
  /\ announced' = Append(announced, news)
  /\ UNCHANGED <<notices, queue, delivered, opened>>

(* notify: the row of recipient u, to be continued with its task. *)
WriteRow(a, u, state) ==
  /\ announced[a].state = "open"
  /\ u \in announced[a].to \ announced[a].told
  /\ announced' = [announced EXCEPT ![a].told = @ \cup {u}, ![a].state = state]
  /\ notices' = Append(notices, [of |-> a, to |-> u, read |-> FALSE])
  /\ UNCHANGED <<delivered, opened>>

Notify(a, u) ==
  /\ WriteRow(a, u, "open")
  /\ queue' = queue \cup {Len(notices) + 1}

(* The row is written and the broker does not take the task. *)
BrokerDown(a, u) ==
  /\ WriteRow(a, u, AfterError(announced[a].event))
  /\ UNCHANGED queue

End(a, state) ==
  /\ announced[a].state = "open"
  /\ announced' = [announced EXCEPT ![a].state = state]
  /\ UNCHANGED <<notices, queue, delivered, opened>>

Commit(a) == announced[a].told = announced[a].to /\ End(a, "done")

(* The caller fails before or after its calls of notify. *)
CallerDies(a) == End(a, AfterError(announced[a].event))

(* deliver_notification gives up on a row it does not find. *)
Deliver(n) ==
  /\ n \in queue
  /\ queue' = queue \ {n}
  /\ delivered' = IF Visible(n) THEN delivered \cup {n} ELSE delivered
  /\ UNCHANGED <<announced, notices, opened>>

LoseTask(n) ==
  /\ n \in queue
  /\ queue' = queue \ {n}
  /\ UNCHANGED <<announced, notices, delivered, opened>>

----------------------------------------------------------------------------
(***************************************************************************)
(*                             The inbox                                   *)
(***************************************************************************)
Inbox_Slip(u) == {n \in DOMAIN notices : Visible(n)}

Inbox(u) == {n \in DOMAIN notices : notices[n].to = u /\ Visible(n)}

Unread(u) == {n \in Inbox(u) : ~notices[n].read}

OpenNotice(u) ==
  /\ opened[u] = 0
  /\ \E n \in Inbox(u) : opened' = [opened EXCEPT ![u] = n]
  /\ UNCHANGED <<announced, notices, queue, delivered>>

MarkRead(u) ==
  /\ opened[u] # 0
  /\ notices' = [notices EXCEPT ![opened[u]].read = TRUE]
  /\ opened' = [opened EXCEPT ![u] = 0]
  /\ UNCHANGED <<announced, queue, delivered>>

MarkAllRead(u) ==
  /\ Unread(u) # {}
  /\ notices' = [n \in DOMAIN notices |->
                   [notices[n] EXCEPT !.read = @ \/ n \in Unread(u)]]
  /\ UNCHANGED <<announced, queue, delivered, opened>>

Read == \E u \in Users : OpenNotice(u) \/ MarkRead(u) \/ MarkAllRead(u)

Post ==
  \/ \E a \in DOMAIN announced :
       \/ \E u \in Users : Notify(a, u) \/ BrokerDown(a, u)
       \/ Commit(a) \/ CallerDies(a)
  \/ \E n \in queue : Deliver(n) \/ LoseTask(n)
  \/ Read

(* The announcements of the services that are not modelled beside this. *)
AnnounceAny == \E news \in AllNews : Announce(news)

----------------------------------------------------------------------------
(***************************************************************************)
(*                              Properties                                 *)
(***************************************************************************)
Notice == [of : DOMAIN announced, to : Users, read : BOOLEAN]

OutboxTypeOK ==
  /\ announced \in Seq(Announcement)
  /\ notices \in Seq(Notice)
  /\ queue \subseteq DOMAIN notices
  /\ delivered \subseteq DOMAIN notices
  /\ queue \cap delivered = {}
  /\ opened \in [Users -> DOMAIN notices \cup {0}]

(* Of the people an event concerns all see their notice or none does,      *)
(* whoever dies and whenever the broker is gone: nobody acts on a dispute  *)
(* or a cancellation the others were never told of.                        *)
NobodyToldAlone ==
  \A n \in DOMAIN notices : Visible(n) =>
    \A u \in announced[notices[n].of].to :
      \E m \in DOMAIN notices :
        notices[m].of = notices[n].of /\ notices[m].to = u

(* The pairs of the board stand for the rows in S. *)
Pairs(S) == {<<notices[n].of, notices[n].to>> : n \in S}

Board == INSTANCE Bulletin WITH
  audience <- [a \in DOMAIN announced |-> announced[a].to],
  posted   <- Pairs({n \in DOMAIN notices : Visible(n)}),
  sent     <- Pairs(delivered),
  read     <- Pairs({n \in DOMAIN notices : notices[n].read})

(* The outbox implements the board: with rows written one by one, tasks    *)
(* queued before their transaction ends and callers that die anywhere,     *)
(* news still go up at once and once, and are sent or read only from then  *)
(* on, by whom they are for.                                               *)
RefinesBulletin == Board!Spec
=============================================================================
