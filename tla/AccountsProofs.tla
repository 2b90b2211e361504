--------------------------- MODULE AccountsProofs ---------------------------
(* Theorems about Accounts and the Notifications it is composed with, for  *)
(* any users, officers, announcements and decisions.                       *)
EXTENDS Accounts, SequenceTheorems, TLAPS

Single(news) == \E u \in Users : news.to = {u}

(* Only a transaction tells several people, and it commits when all of     *)
(* them have been told. *)
NewsInv ==
  \A a \in DOMAIN announced :
    LET news == announced[a]
    IN /\ news.told \subseteq news.to
       /\ ~InTransaction(news.event) => Single(news)
       /\ InTransaction(news.event) /\ news.state = "done" => news.told = news.to

(* Who has been told has a row, and the other way round. *)
RowsInv ==
  /\ \A a \in DOMAIN announced : \A u \in announced[a].told :
       \E n \in DOMAIN notices : notices[n].of = a /\ notices[n].to = u
  /\ \A n \in DOMAIN notices : notices[n].to \in announced[notices[n].of].told

OpenedInv == \A u \in Users : opened[u] # 0 => Visible(opened[u])

OutboxInv == OutboxTypeOK /\ NewsInv /\ RowsInv /\ OpenedInv

LEMMA OutboxInitInv == OutboxInit => OutboxInv
BY DEF OutboxInit, OutboxInv, OutboxTypeOK, NewsInv, RowsInv, OpenedInv

LEMMA RowsTyped ==
  ASSUME OutboxTypeOK, NEW n \in DOMAIN notices
  PROVE  notices[n] \in Notice /\ notices[n].of \in DOMAIN announced
<1>1. notices[n] \in Notice
  BY DEF OutboxTypeOK
<1> QED
  BY <1>1 DEF Notice

LEMMA AnnounceInv ==
  ASSUME OutboxInv, NEW news \in Announcement, Announce(news),
         news.told = {}, news.state = "open",
         ~InTransaction(news.event) => Single(news)
  PROVE  OutboxInv'
<1>1. /\ announced' = Append(announced, news)
      /\ UNCHANGED <<notices, queue, delivered, opened>>
  BY DEF Announce
<1>2. announced \in Seq(Announcement)
  BY DEF OutboxInv, OutboxTypeOK
<1>3. /\ announced' \in Seq(Announcement)
      /\ Len(announced') = Len(announced) + 1
      /\ \A a \in DOMAIN announced : a \in DOMAIN announced' /\ announced'[a] = announced[a]
      /\ \A a \in DOMAIN announced' : a \in DOMAIN announced \/ announced'[a] = news
  BY <1>1, <1>2
<1>4. OutboxTypeOK'
  <2>1. Notice \subseteq Notice'
    BY <1>3 DEF Notice
  <2>2. notices \in Seq(Notice')
    BY <2>1 DEF OutboxInv, OutboxTypeOK
  <2> QED
    BY <1>1, <1>3, <2>2 DEF OutboxInv, OutboxTypeOK
<1>5. NewsInv'
  BY <1>3 DEF OutboxInv, NewsInv, Single, InTransaction
<1>6. \A n \in DOMAIN notices : notices[n].of \in DOMAIN announced
  BY RowsTyped DEF OutboxInv
<1>7. RowsInv'
  <2>1. \A a \in DOMAIN announced' : \A u \in announced'[a].told :
          \E n \in DOMAIN notices : notices[n].of = a /\ notices[n].to = u
    BY <1>3 DEF OutboxInv, RowsInv
  <2> QED
    BY <2>1, <1>1, <1>3, <1>6 DEF OutboxInv, RowsInv
<1>8. \A n \in DOMAIN notices : Visible(n) => Visible(n)'
  BY <1>1, <1>3, <1>6 DEF Visible, Committed, InTransaction
<1>9. \A u \in Users : opened[u] \in DOMAIN notices \cup {0}
  BY DEF OutboxInv, OutboxTypeOK
<1> QED
  BY <1>1, <1>4, <1>5, <1>7, <1>8, <1>9 DEF OutboxInv, OpenedInv

(* One more row, with its announcement going on or broken off. *)
LEMMA WriteInv ==
  ASSUME OutboxInv, NEW a \in DOMAIN announced, NEW u \in Users,
         NEW state \in {"open", "done", "undone"},
         state = "done" => ~InTransaction(announced[a].event),
         WriteRow(a, u, state),
         queue' \in {queue, queue \cup {Len(notices) + 1}}
  PROVE  OutboxInv'
<1> DEFINE old == announced[a]
           new == [old EXCEPT !.told = @ \cup {u}, !.state = state]
           row == [of |-> a, to |-> u, read |-> FALSE]
<1>1. /\ old.state = "open" /\ u \in old.to /\ u \notin old.told
      /\ announced' = [announced EXCEPT ![a] = new]
      /\ notices' = Append(notices, row)
      /\ UNCHANGED <<delivered, opened>>
  BY DEF WriteRow
<1>2. /\ announced \in Seq(Announcement) /\ notices \in Seq(Notice)
      /\ queue \subseteq DOMAIN notices /\ delivered \subseteq DOMAIN notices
      /\ old \in Announcement
  BY DEF OutboxInv, OutboxTypeOK
<1>3. /\ new \in Announcement
      /\ new.event = old.event /\ new.to = old.to /\ new.state = state
      /\ new.told = old.told \cup {u}
  BY <1>2 DEF Announcement
<1> HIDE DEF new
<1>4. /\ announced' \in Seq(Announcement)
      /\ DOMAIN announced' = DOMAIN announced
      /\ \A b \in DOMAIN announced : announced'[b] = IF b = a THEN new ELSE announced[b]
  BY <1>1, <1>2, <1>3
<1>5. Notice' = Notice
  BY <1>4 DEF Notice
<1>6. row \in Notice
  BY DEF Notice
<1>7. /\ notices' \in Seq(Notice)
      /\ Len(notices') = Len(notices) + 1 /\ Len(notices) \in Nat
      /\ \A n \in DOMAIN notices : n \in DOMAIN notices' /\ notices'[n] = notices[n]
      /\ Len(notices) + 1 \in DOMAIN notices' /\ notices'[Len(notices) + 1] = row
      /\ DOMAIN notices' = DOMAIN notices \cup {Len(notices) + 1}
      /\ Len(notices) + 1 \notin DOMAIN notices
  BY <1>1, <1>2, <1>6
<1>8. OutboxTypeOK'
  <2>1. /\ queue' \subseteq DOMAIN notices' /\ delivered' \subseteq DOMAIN notices'
        /\ queue' \cap delivered' = {}
    BY <1>1, <1>2, <1>7 DEF OutboxInv, OutboxTypeOK
  <2>2. opened' \in [Users -> DOMAIN notices' \cup {0}]
    BY <1>1, <1>7 DEF OutboxInv, OutboxTypeOK
  <2> QED
    BY <1>4, <1>5, <1>7, <2>1, <2>2 DEF OutboxTypeOK
<1>9. NewsInv'
  <2>1. new.told \subseteq new.to /\ (~InTransaction(new.event) => Single(new))
    BY <1>1, <1>3 DEF OutboxInv, NewsInv, Single
  <2>2. ~(InTransaction(new.event) /\ new.state = "done")
    BY <1>3
  <2> QED
    BY <1>4, <2>1, <2>2 DEF OutboxInv, NewsInv, InTransaction, Single
<1>10. \A n \in DOMAIN notices : notices[n].of \in DOMAIN announced
  BY RowsTyped DEF OutboxInv
<1>11. RowsInv'
  <2>1. ASSUME NEW b \in DOMAIN announced', NEW v \in announced'[b].told
        PROVE  \E n \in DOMAIN notices' : notices'[n].of = b /\ notices'[n].to = v
    <3>1. CASE b = a /\ v = u
      BY <3>1, <1>7
    <3>2. CASE ~(b = a /\ v = u)
      <4>1. b \in DOMAIN announced /\ v \in announced[b].told
        BY <1>3, <1>4, <2>1, <3>2
      <4>2. PICK n \in DOMAIN notices : notices[n].of = b /\ notices[n].to = v
        BY <4>1 DEF OutboxInv, RowsInv
      <4> QED
        BY <4>2, <1>7
    <3> QED
      BY <3>1, <3>2
  <2>2. ASSUME NEW n \in DOMAIN notices'
        PROVE  notices'[n].to \in announced'[notices'[n].of].told
    <3>1. CASE n \in DOMAIN notices
      <4>1. notices[n].to \in announced[notices[n].of].told
        BY <3>1 DEF OutboxInv, RowsInv
      <4> QED
        BY <3>1, <4>1, <1>3, <1>4, <1>7, <1>10
    <3>2. CASE n = Len(notices) + 1
      BY <3>2, <1>3, <1>4, <1>7
    <3> QED
      BY <3>1, <3>2, <1>7
  <2> QED
    BY <2>1, <2>2 DEF RowsInv
<1>12. \A n \in DOMAIN notices : Visible(n) => Visible(n)'
  BY <1>1, <1>3, <1>4, <1>7, <1>10 DEF Visible, Committed, InTransaction
<1>13. OpenedInv'
  BY <1>1, <1>12 DEF OutboxInv, OutboxTypeOK, OpenedInv
<1> QED
  BY <1>8, <1>9, <1>11, <1>13 DEF OutboxInv

(* An announcement ends; everybody was told if it commits. *)
LEMMA EndInv ==
  ASSUME OutboxInv, NEW a \in DOMAIN announced, NEW state \in {"done", "undone"},
         End(a, state),
         state = "done" /\ InTransaction(announced[a].event)
           => announced[a].told = announced[a].to
  PROVE  OutboxInv'
<1> DEFINE old == announced[a]
           new == [old EXCEPT !.state = state]
<1>1. /\ old.state = "open"
      /\ announced' = [announced EXCEPT ![a] = new]
      /\ UNCHANGED <<notices, queue, delivered, opened>>
  BY DEF End
<1>2. announced \in Seq(Announcement) /\ old \in Announcement
  BY DEF OutboxInv, OutboxTypeOK
<1>3. /\ new \in Announcement
      /\ new.event = old.event /\ new.to = old.to /\ new.told = old.told
      /\ new.state = state
  BY <1>2 DEF Announcement
<1> HIDE DEF new
<1>4. /\ announced' \in Seq(Announcement)
      /\ DOMAIN announced' = DOMAIN announced
      /\ \A b \in DOMAIN announced : announced'[b] = IF b = a THEN new ELSE announced[b]
  BY <1>1, <1>2, <1>3
<1>5. OutboxTypeOK'
  BY <1>1, <1>4 DEF OutboxInv, OutboxTypeOK, Notice
<1>6. NewsInv'
  BY <1>3, <1>4 DEF OutboxInv, NewsInv, InTransaction, Single
<1>7. \A n \in DOMAIN notices : notices[n].of \in DOMAIN announced
  BY RowsTyped DEF OutboxInv
<1>8. \A b \in DOMAIN announced : announced'[b].told = announced[b].told
  BY <1>3, <1>4
<1>9. RowsInv'
  BY <1>1, <1>4, <1>7, <1>8 DEF OutboxInv, RowsInv
<1>10. \A n \in DOMAIN notices : Visible(n) => Visible(n)'
  BY <1>1, <1>3, <1>4, <1>7 DEF Visible, Committed, InTransaction
<1> QED
  BY <1>1, <1>5, <1>6, <1>9, <1>10
     DEF OutboxInv, OutboxTypeOK, OpenedInv

LEMMA DeliverInv ==
  ASSUME OutboxInv, NEW n \in queue, Deliver(n) \/ LoseTask(n)
  PROVE  OutboxInv'
<1>1. /\ queue' \subseteq queue /\ n \notin queue'
      /\ delivered' \in {delivered, delivered \cup {n}}
      /\ delivered' # delivered => Visible(n)
      /\ UNCHANGED <<announced, notices, opened>>
  BY DEF Deliver, LoseTask
<1>2. OutboxTypeOK'
  BY <1>1 DEF OutboxInv, OutboxTypeOK, Notice
<1>3. \A m \in DOMAIN notices : Visible(m) => Visible(m)'
  BY <1>1 DEF Visible, Committed
<1>5. NewsInv' /\ RowsInv'
  BY <1>1 DEF OutboxInv, NewsInv, RowsInv, Single
<1>6. OpenedInv'
  BY <1>1, <1>3 DEF OutboxInv, OutboxTypeOK, OpenedInv
<1> QED
  BY <1>2, <1>5, <1>6 DEF OutboxInv

(* Rows are only read when they are visible. *)
LEMMA ReadRows ==
  ASSUME OutboxInv, Read
  PROVE  /\ DOMAIN notices' = DOMAIN notices /\ notices' \in Seq(Notice)
         /\ \A n \in DOMAIN notices :
              /\ notices'[n].of = notices[n].of /\ notices'[n].to = notices[n].to
              /\ notices'[n].read => notices[n].read \/ Visible(n)
         /\ \A u \in Users : opened'[u] # 0 =>
              opened'[u] \in DOMAIN notices /\ Visible(opened'[u])
         /\ opened' \in [Users -> DOMAIN notices \cup {0}]
         /\ UNCHANGED <<announced, queue, delivered>>
<1>1. /\ notices \in Seq(Notice)
      /\ opened \in [Users -> DOMAIN notices \cup {0}]
      /\ \A u \in Users : opened[u] # 0 => Visible(opened[u])
  BY DEF OutboxInv, OutboxTypeOK, OpenedInv
<1>2. PICK u \in Users : OpenNotice(u) \/ MarkRead(u) \/ MarkAllRead(u)
  BY DEF Read
<1>3. CASE OpenNotice(u)
  <2>1. PICK n \in Inbox(u) : opened' = [opened EXCEPT ![u] = n]
    BY <1>3 DEF OpenNotice
  <2>2. n \in DOMAIN notices /\ Visible(n)
    BY DEF Inbox
  <2>3. UNCHANGED <<announced, notices, queue, delivered>>
    BY <1>3 DEF OpenNotice
  <2> QED
    BY <1>1, <2>1, <2>2, <2>3
<1>4. CASE MarkRead(u)
  <2> DEFINE n == opened[u]
  <2>1. n \in DOMAIN notices /\ Visible(n) /\ notices[n] \in Notice
    BY <1>1, <1>4 DEF MarkRead
  <2>2. /\ notices' = [notices EXCEPT ![n] = [notices[n] EXCEPT !.read = TRUE]]
        /\ opened' = [opened EXCEPT ![u] = 0]
        /\ UNCHANGED <<announced, queue, delivered>>
    BY <1>4 DEF MarkRead
  <2>3. /\ [notices[n] EXCEPT !.read = TRUE] \in Notice
        /\ [notices[n] EXCEPT !.read = TRUE].of = notices[n].of
        /\ [notices[n] EXCEPT !.read = TRUE].to = notices[n].to
    BY <2>1 DEF Notice
  <2> HIDE DEF n
  <2>4. \A m \in DOMAIN notices :
          notices'[m] = IF m = n THEN [notices[n] EXCEPT !.read = TRUE] ELSE notices[m]
    BY <1>1, <2>2
  <2>5. DOMAIN notices' = DOMAIN notices /\ notices' \in Seq(Notice)
    BY <1>1, <2>1, <2>2, <2>3
  <2> QED
    BY <1>1, <2>1, <2>2, <2>3, <2>4, <2>5
<1>5. CASE MarkAllRead(u)
  <2>1. /\ notices' = [n \in DOMAIN notices |->
                        [notices[n] EXCEPT !.read = @ \/ n \in Unread(u)]]
        /\ UNCHANGED <<announced, queue, delivered, opened>>
    BY <1>5 DEF MarkAllRead
  <2>2. \A n \in DOMAIN notices :
          /\ notices'[n] \in Notice
          /\ notices'[n].of = notices[n].of /\ notices'[n].to = notices[n].to
          /\ notices'[n].read = (notices[n].read \/ n \in Unread(u))
    <3> SUFFICES ASSUME NEW n \in DOMAIN notices
                 PROVE  /\ notices'[n] \in Notice
                        /\ notices'[n].of = notices[n].of
                        /\ notices'[n].to = notices[n].to
                        /\ notices'[n].read = (notices[n].read \/ n \in Unread(u))
      OBVIOUS
    <3>1. notices[n] \in Notice
      BY <1>1
    <3>2. notices'[n] = [notices[n] EXCEPT !.read = notices[n].read \/ n \in Unread(u)]
      BY <2>1
    <3> DEFINE unread == n \in Unread(u)
    <3>3. unread \in BOOLEAN
      OBVIOUS
    <3> HIDE DEF unread
    <3> QED
      BY <3>1, <3>2, <3>3 DEF Notice, unread
  <2>3. DOMAIN notices' = DOMAIN notices
    BY <2>1
  <2>4. notices' \in Seq(Notice)
    <3>1. Len(notices) \in Nat /\ DOMAIN notices = 1..Len(notices)
      BY <1>1
    <3>2. notices' \in [1..Len(notices) -> Notice]
      BY <2>1, <2>2, <3>1
    <3> QED
      BY <3>1, <3>2
  <2>5. \A n \in DOMAIN notices : n \in Unread(u) => Visible(n)
    BY DEF Unread, Inbox
  <2> QED
    BY <1>1, <2>1, <2>2, <2>3, <2>4, <2>5
<1> QED
  BY <1>2, <1>3, <1>4, <1>5

LEMMA ReadInv ==
  ASSUME OutboxInv, Read
  PROVE  OutboxInv'
<1>1. /\ DOMAIN notices' = DOMAIN notices /\ notices' \in Seq(Notice)
      /\ \A n \in DOMAIN notices :
           /\ notices'[n].of = notices[n].of /\ notices'[n].to = notices[n].to
           /\ notices'[n].read => notices[n].read \/ Visible(n)
      /\ \A u \in Users : opened'[u] # 0 =>
           opened'[u] \in DOMAIN notices /\ Visible(opened'[u])
      /\ opened' \in [Users -> DOMAIN notices \cup {0}]
      /\ UNCHANGED <<announced, queue, delivered>>
  BY ReadRows
<1>2. Notice' = Notice
  BY <1>1 DEF Notice
<1>3. OutboxTypeOK'
  BY <1>1, <1>2 DEF OutboxInv, OutboxTypeOK
<1>4. NewsInv' /\ RowsInv'
  BY <1>1 DEF OutboxInv, NewsInv, RowsInv, Single
<1>5. \A n \in DOMAIN notices : Visible(n)' <=> Visible(n)
  BY <1>1 DEF Visible, Committed
<1>6. OpenedInv'
  BY <1>1, <1>5 DEF OpenedInv
<1> QED
  BY <1>3, <1>4, <1>6 DEF OutboxInv

LEMMA PostInv ==
  ASSUME OutboxInv, Post
  PROVE  OutboxInv'
<1>1. ASSUME NEW a \in DOMAIN announced, NEW u \in Users, Notify(a, u)
      PROVE  OutboxInv'
  BY <1>1, WriteInv DEF Notify
<1>2. ASSUME NEW a \in DOMAIN announced, NEW u \in Users, BrokerDown(a, u)
      PROVE  OutboxInv'
  BY <1>2, WriteInv DEF BrokerDown, AfterError
<1>3. ASSUME NEW a \in DOMAIN announced, Commit(a) \/ CallerDies(a)
      PROVE  OutboxInv'
  BY <1>3, EndInv DEF Commit, CallerDies, AfterError
<1> QED
  BY <1>1, <1>2, <1>3, DeliverInv, ReadInv DEF Post

(* Everything the other services announce is told to several people only   *)
(* inside a transaction. *)
LEMMA AnnouncedTyped ==
  ASSUME NEW news \in AllNews
  PROVE  /\ news \in Announcement /\ news.told = {} /\ news.state = "open"
         /\ news.event \notin AccountEvents
         /\ ~InTransaction(news.event) => Single(news)
<1>1. PICK e \in Events \ AccountEvents, to \in SUBSET Users :
        /\ news = News(e, 0, to)
        /\ e = "PAYMENT_FAILED" => \E u \in Users : to = {u}
  <2>1. CASE news \in OutbidNews \cup AuctionNews \cup ListingNews
    <3>1. \E e \in {"OUTBID", "AUCTION_WON", "AUCTION_LIVE", "AUCTION_CLOSED_NO_WINNER",
                    "LISTING_APPROVED", "LISTING_REJECTED"}, u \in Users :
            news = News(e, 0, {u})
      BY <2>1, NotificationsAssumption DEF OutbidNews, AuctionNews, ListingNews
    <3> QED
      BY <3>1 DEF Events, AccountEvents
  <2>2. CASE news \in PaymentNews
    <3>1. PICK w \in Winner : \/ news = News("PAYMENT_RECEIVED", 0, {w, Seller})
                              \/ news = News("PAYMENT_FAILED", 0, {w})
      BY <2>2 DEF PaymentNews
    <3>2. w \in Users /\ {w, Seller} \in SUBSET Users /\ {w} \in SUBSET Users
      BY NotificationsAssumption
    <3> QED
      BY <3>1, <3>2 DEF Events, AccountEvents
  <2>3. CASE news \in DisputeNews
    <3>1. PICK r \in Bidders \cup {Seller} :
            \/ news = News("DISPUTE_OPENED", 0, (Staff \cup OtherParty(r)) \ {r})
            \/ news = News("DISPUTE_RESOLVED", 0, OtherParty(r) \cup {r})
      BY <2>3 DEF DisputeNews
    <3>2. /\ (Staff \cup OtherParty(r)) \ {r} \in SUBSET Users
          /\ OtherParty(r) \cup {r} \in SUBSET Users
      BY NotificationsAssumption DEF OtherParty
    <3> QED
      BY <3>1, <3>2 DEF Events, AccountEvents
  <2>4. CASE news \in UpdateNews
    BY <2>4, NotificationsAssumption DEF UpdateNews, Events, AccountEvents
  <2> QED
    BY <2>1, <2>2, <2>3, <2>4 DEF AllNews
<1>2. 0 \in Nat /\ {} \in SUBSET Users
  OBVIOUS
<1> QED
  BY <1>1, <1>2 DEF News, Announcement, InTransaction, Unprotected, Single

LEMMA OutboxStutters ==
  ASSUME OutboxInv, UNCHANGED outbox
  PROVE  OutboxInv'
<1>1. UNCHANGED <<announced, notices, queue, delivered, opened>>
  BY DEF outbox
<1>2. OutboxTypeOK'
  BY <1>1 DEF OutboxInv, OutboxTypeOK, Notice
<1> QED
  BY <1>1, <1>2 DEF OutboxInv, NewsInv, RowsInv, OpenedInv,
                    Single, Visible, Committed

(* What an announcement says never changes. *)
LEMMA PostKeepsNews ==
  ASSUME OutboxTypeOK, Post
  PROVE  /\ DOMAIN announced' = DOMAIN announced
         /\ \A a \in DOMAIN announced :
              /\ announced'[a].event = announced[a].event
              /\ announced'[a].about = announced[a].about
              /\ announced'[a].to = announced[a].to
<1> DEFINE Kept == /\ DOMAIN announced' = DOMAIN announced
                   /\ \A a \in DOMAIN announced :
                        /\ announced'[a].event = announced[a].event
                        /\ announced'[a].about = announced[a].about
                        /\ announced'[a].to = announced[a].to
<1>1. UNCHANGED announced => Kept
  OBVIOUS
<1>2. \A a \in DOMAIN announced : announced[a] \in Announcement
  BY DEF OutboxTypeOK
<1>3. ASSUME NEW a \in DOMAIN announced, NEW u \in Users,
             NEW state \in {"open", "done", "undone"}, WriteRow(a, u, state)
      PROVE  Kept
  <2>1. announced' = [announced EXCEPT ![a] =
          [announced[a] EXCEPT !.told = announced[a].told \cup {u}, !.state = state]]
    BY <1>3 DEF WriteRow
  <2> QED
    BY <1>2, <2>1 DEF Announcement
<1>4. ASSUME NEW a \in DOMAIN announced,
             NEW state \in {"done", "undone"}, End(a, state)
      PROVE  Kept
  <2>1. announced' = [announced EXCEPT ![a] = [announced[a] EXCEPT !.state = state]]
    BY <1>4 DEF End
  <2> QED
    BY <1>2, <2>1 DEF Announcement
<1>5. \/ UNCHANGED announced
      \/ \E a \in DOMAIN announced, u \in Users :
           \E state \in {"open", "done", "undone"} : WriteRow(a, u, state)
      \/ \E a \in DOMAIN announced :
           \E state \in {"done", "undone"} : End(a, state)
  BY DEF Post, Notify, BrokerDown, Commit, CallerDies, AfterError, Deliver, LoseTask,
         Read, OpenNotice, MarkRead, MarkAllRead
<1> HIDE DEF Kept
<1>6. Kept
  BY <1>1, <1>3, <1>4, <1>5
<1> QED
  BY <1>6 DEF Kept

----------------------------------------------------------------------------
(***************************************************************************)
(*                     The inductive invariant                             *)
(***************************************************************************)
PeopleTypeOK ==
  /\ role \in [People -> Roles \cup {"NONE"}]
  /\ profile \in [People -> [Kinds -> Profile("SELLER") \cup Profile("BIDDER")]]
  /\ \A p \in People, k \in Kinds : profile[p][k] \in Profile(k)
  /\ signingUp \subseteq People \X Kinds

OfficeTypeOK ==
  /\ desk \in [Staff -> Busy \cup {Idle}]
  /\ made \in 0..MaxDecisions
  /\ audited \subseteq [number : 1..made, who : People, decision : Decisions]

(* A decision in progress is one the profile's kind is offered, about a    *)
(* profile there is; once audited, its row is in the log. *)
DeskInv ==
  \A o \in Staff : desk[o] # Idle =>
    /\ desk[o].decision \in Offered(desk[o].kind)
    /\ profile[desk[o].who][desk[o].kind] # NoProfile
    /\ desk[o].step = "audited" => AuditRow(o) \in audited

(* An announced decision is in the audit log. *)
AboutInv ==
  \A a \in DOMAIN announced :
    announced[a].event \in AccountEvents =>
      \E row \in audited :
        /\ row.number = announced[a].about /\ announced[a].to = {row.who}
        /\ EventOf(row.decision) = announced[a].event

AccountsInv == OutboxInv /\ PeopleTypeOK /\ OfficeTypeOK /\ DeskInv /\ AboutInv

LEMMA InitInv == Init => AccountsInv
<1> SUFFICES ASSUME Init PROVE AccountsInv
  OBVIOUS
<1>1. OutboxInv /\ AboutInv
  BY OutboxInitInv DEF Init, OutboxInit, AboutInv
<1>2. PeopleTypeOK
  BY DEF Init, PeopleTypeOK, Profile
<1>3. OfficeTypeOK /\ DeskInv
  BY AccountsAssumption DEF Init, OfficeTypeOK, DeskInv
<1> QED
  BY <1>1, <1>2, <1>3 DEF AccountsInv

(* A profile that is there stays there. *)
ProfilesKept ==
  \A p \in People, k \in Kinds :
    profile[p][k] # NoProfile => profile'[p][k] # NoProfile

LEMMA WithProfileTyped ==
  ASSUME PeopleTypeOK, NEW p \in People, NEW kind \in Kinds,
         profile' = WithProfile(p, kind)
  PROVE  /\ profile' \in [People -> [Kinds -> Profile("SELLER") \cup Profile("BIDDER")]]
         /\ \A q \in People, k \in Kinds :
              /\ profile'[q][k] \in Profile(k)
              /\ profile[q][k] # NoProfile => profile'[q][k] = profile[q][k]
<1>1. Fresh(kind) \in Profile(kind)
  BY DEF Fresh, Profile, Kinds
<1>2. Profile(kind) \subseteq Profile("SELLER") \cup Profile("BIDDER")
  BY DEF Kinds
<1> QED
  BY <1>1, <1>2 DEF WithProfile, PeopleTypeOK

LEMMA MembershipStep ==
  ASSUME AccountsInv, Membership
  PROVE  /\ PeopleTypeOK'
         /\ \A p \in People, k \in Kinds :
              profile[p][k] # NoProfile => profile'[p][k] = profile[p][k]
         /\ UNCHANGED <<outbox, desk, made, audited>>
<1>1. PeopleTypeOK
  BY DEF AccountsInv
<1>2. PICK p \in People :
        \/ \E k \in Kinds : SignUp(p, k) \/ CreateProfile(p, k) \/ SignUpDies(p, k)
        \/ Provision(p)
        \/ \E r \in Roles : ChangeRole(p, r)
  BY DEF Membership
<1>3. ASSUME NEW k \in Kinds, SignUp(p, k) \/ SignUpDies(p, k)
      PROVE  PeopleTypeOK' /\ UNCHANGED profile
  BY <1>1, <1>3 DEF PeopleTypeOK, SignUp, SignUpDies, Roles
<1>4. ASSUME NEW r \in Roles, ChangeRole(p, r)
      PROVE  PeopleTypeOK' /\ UNCHANGED profile
  BY <1>1, <1>4 DEF PeopleTypeOK, ChangeRole
<1>5. ASSUME NEW k \in Kinds, CreateProfile(p, k)
      PROVE  PeopleTypeOK' /\ profile' = WithProfile(p, k)
  BY <1>1, <1>5, WithProfileTyped DEF PeopleTypeOK, CreateProfile
<1>6. ASSUME Provision(p)
      PROVE  PeopleTypeOK' /\ profile' = WithProfile(p, "BIDDER")
  <2>1. "BIDDER" \in Kinds
    BY DEF Kinds
  <2> QED
    BY <1>1, <1>6, <2>1, WithProfileTyped DEF PeopleTypeOK, Provision, Roles
<1>7. UNCHANGED <<outbox, desk, made, audited>>
  BY <1>2 DEF SignUp, CreateProfile, SignUpDies, Provision, ChangeRole
<1>8. "BIDDER" \in Kinds
  BY DEF Kinds
<1> QED
  BY <1>1, <1>2, <1>3, <1>4, <1>5, <1>6, <1>7, <1>8, WithProfileTyped

(* A decision of one sort leaves the column of the other sort alone. *)
LEMMA DecidedTyped ==
  ASSUME NEW kind \in Kinds, NEW row \in Profile(kind), row # NoProfile,
         NEW d \in Offered(kind)
  PROVE  /\ Decided(row, d) \in Profile(kind) /\ Decided(row, d) # NoProfile
         /\ Decided(row, d).verification # row.verification => d \in Verdicts
         /\ Decided(row, d).account # row.account => d \in Sanctions
<1>1. row \in [verification : {"PENDING", "VERIFIED", "REJECTED"},
               account : IF kind = "BIDDER" THEN {"ACTIVE", "SUSPENDED"} ELSE {"NONE"}]
  BY DEF Profile
<1>2. CASE d = "VERIFY"
  BY <1>1, <1>2 DEF Decided, Profile, NoProfile, Verdicts
<1>3. CASE d = "REJECT"
  BY <1>1, <1>3 DEF Decided, Profile, NoProfile, Verdicts
<1>4. CASE d \in Sanctions
  <2>1. kind = "BIDDER"
    BY <1>4 DEF Offered, Verdicts, Sanctions
  <2> QED
    BY <1>1, <1>4, <2>1 DEF Decided, Profile, NoProfile, Sanctions
<1> QED
  BY <1>2, <1>3, <1>4 DEF Offered, Decisions, Verdicts

LEMMA SaveStep ==
  ASSUME AccountsInv, NEW o \in Staff, Save(o)
  PROVE  /\ AccountsInv'
         /\ \A p \in People, k \in Kinds : profile[p][k] # NoProfile =>
              /\ profile'[p][k].verification # profile[p][k].verification =>
                   desk[o].who = p /\ desk[o].kind = k /\ desk[o].decision \in Verdicts
              /\ profile'[p][k].account # profile[p][k].account =>
                   desk[o].who = p /\ desk[o].kind = k /\ desk[o].decision \in Sanctions
         /\ desk[o].step = "loaded" /\ desk'[o].step = "saved"
<1> DEFINE who == desk[o].who
           kind == desk[o].kind
           row == profile[who][kind]
           new == Decided(row, desk[o].decision)
<1>1. /\ desk[o] \in Busy /\ desk[o].step = "loaded" /\ desk[o] # Idle
      /\ who \in People /\ kind \in Kinds
  BY DEF AccountsInv, OfficeTypeOK, Busy, Save, Idle
<1>2. /\ row \in Profile(kind) /\ row # NoProfile
      /\ desk[o].decision \in Offered(kind)
  BY <1>1 DEF AccountsInv, PeopleTypeOK, DeskInv
<1>3. /\ new \in Profile(kind) /\ new # NoProfile
      /\ new.verification # row.verification => desk[o].decision \in Verdicts
      /\ new.account # row.account => desk[o].decision \in Sanctions
  BY <1>1, <1>2, DecidedTyped
<1>4. /\ profile' = [profile EXCEPT ![who][kind] = new]
      /\ desk' = [desk EXCEPT ![o] = [desk[o] EXCEPT !.step = "saved"]]
      /\ UNCHANGED <<outbox, role, signingUp, made, audited>>
  BY DEF Save, SavedRow
<1>5. [desk[o] EXCEPT !.step = "saved"] \in Busy
  BY <1>1 DEF Busy
<1> HIDE DEF who, kind, row, new
<1>6. profile \in [People -> [Kinds -> Profile("SELLER") \cup Profile("BIDDER")]]
  BY DEF AccountsInv, PeopleTypeOK
<1>7. \A p \in People, k \in Kinds :
        profile'[p][k] = IF p = who /\ k = kind THEN new ELSE profile[p][k]
  BY <1>1, <1>4, <1>6
<1>8. new \in Profile("SELLER") \cup Profile("BIDDER")
  BY <1>1, <1>3 DEF Kinds
<1>9. PeopleTypeOK'
  BY <1>1, <1>3, <1>4, <1>6, <1>7, <1>8 DEF AccountsInv, PeopleTypeOK
<1>10. /\ desk \in [Staff -> Busy \cup {Idle}] /\ made' = made
       /\ UNCHANGED <<announced, audited>>
  BY <1>4 DEF AccountsInv, OfficeTypeOK, outbox
<1>11. \A q \in Staff :
         desk'[q] = IF q = o THEN [desk[o] EXCEPT !.step = "saved"] ELSE desk[q]
  BY <1>4, <1>10
<1>12. OfficeTypeOK'
  <2>1. Busy' = Busy
    BY <1>10 DEF Busy
  <2>2. desk' \in [Staff -> Busy \cup {Idle}]
    BY <1>4, <1>5, <1>10
  <2> QED
    BY <1>10, <2>1, <2>2 DEF AccountsInv, OfficeTypeOK
<1>13. ProfilesKept
  BY <1>3, <1>7 DEF ProfilesKept
<1>14. DeskInv'
  <2> SUFFICES ASSUME NEW q \in Staff, desk'[q] # Idle
               PROVE  /\ desk'[q].decision \in Offered(desk'[q].kind)
                      /\ profile'[desk'[q].who][desk'[q].kind] # NoProfile
                      /\ desk'[q].step = "audited" => AuditRow(q)' \in audited'
    BY DEF DeskInv
  <2>1. /\ desk[q] # Idle /\ desk[q] \in Busy
        /\ desk'[q].decision = desk[q].decision /\ desk'[q].kind = desk[q].kind
        /\ desk'[q].who = desk[q].who /\ desk'[q].number = desk[q].number
        /\ desk'[q].step = "audited" => desk[q].step = "audited"
    BY <1>1, <1>10, <1>11 DEF Busy
  <2>2. desk[q].who \in People /\ desk[q].kind \in Kinds
    BY <2>1 DEF Busy
  <2> QED
    BY <1>10, <1>13, <2>1, <2>2 DEF AccountsInv, DeskInv, ProfilesKept, AuditRow
<1>15. OutboxInv' /\ AboutInv'
  BY <1>4, <1>10, OutboxStutters DEF AccountsInv, AboutInv
<1>16. desk'[o].step = "saved"
  BY <1>1, <1>11 DEF Busy
<1> QED
  BY <1>1, <1>3, <1>7, <1>9, <1>12, <1>14, <1>15, <1>16 DEF AccountsInv, who, kind, row

(* A desk moves on, to a decision that DeskInv allows. *)
DeskMoves(o, d) ==
  /\ desk' = [desk EXCEPT ![o] = d]
  /\ d \in Busy' \cup {Idle}
  /\ d # Idle =>
       /\ d.decision \in Offered(d.kind)
       /\ profile[d.who][d.kind] # NoProfile
       /\ d.step = "audited" =>
            [number |-> d.number, who |-> d.who, decision |-> d.decision] \in audited'

LogGrows ==
  /\ made' \in {made, made + 1} /\ made' \in 0..MaxDecisions
  /\ audited \subseteq audited'
  /\ audited' \subseteq [number : 1..made', who : People, decision : Decisions]

LEMMA DeskMovesInv ==
  ASSUME PeopleTypeOK, OfficeTypeOK, DeskInv, NEW o \in Staff, NEW d, DeskMoves(o, d),
         LogGrows, UNCHANGED <<role, profile, signingUp>>
  PROVE  PeopleTypeOK' /\ OfficeTypeOK' /\ DeskInv'
<1>1. made \in Nat /\ desk \in [Staff -> Busy \cup {Idle}]
  BY AccountsAssumption DEF OfficeTypeOK
<1>2. Busy \subseteq Busy'
  BY <1>1 DEF LogGrows, Busy
<1>3. /\ desk' \in [Staff -> Busy' \cup {Idle}]
      /\ \A q \in Staff : desk'[q] = IF q = o THEN d ELSE desk[q]
  BY <1>1, <1>2 DEF DeskMoves
<1>4. OfficeTypeOK'
  BY <1>3 DEF OfficeTypeOK, LogGrows
<1>5. PeopleTypeOK'
  BY DEF PeopleTypeOK
<1>6. DeskInv'
  <2> SUFFICES ASSUME NEW q \in Staff, desk'[q] # Idle
               PROVE  /\ desk'[q].decision \in Offered(desk'[q].kind)
                      /\ profile[desk'[q].who][desk'[q].kind] # NoProfile
                      /\ desk'[q].step = "audited" => AuditRow(q)' \in audited'
    BY DEF DeskInv
  <2>1. CASE q = o
    BY <1>3, <2>1 DEF DeskMoves, AuditRow
  <2>2. CASE q # o
    BY <1>3, <2>2 DEF DeskInv, LogGrows, AuditRow
  <2> QED
    BY <2>1, <2>2
<1> QED
  BY <1>4, <1>5, <1>6

LEMMA AboutStays ==
  ASSUME AboutInv, audited \subseteq audited', DOMAIN announced' = DOMAIN announced,
         \A a \in DOMAIN announced :
           /\ announced'[a].event = announced[a].event
           /\ announced'[a].about = announced[a].about
           /\ announced'[a].to = announced[a].to
  PROVE  AboutInv'
BY DEF AboutInv

(* The steps of a decision that write neither a profile nor an             *)
(* announcement: the desk moves on, and the audit log may gain its row. *)
LEMMA DeskStep ==
  ASSUME AccountsInv, NEW o \in Staff,
         \/ \E p \in People, k \in Kinds, d \in Decisions : Load(o, p, k, d)
         \/ Audit(o)
         \/ Drop(o)
  PROVE  AccountsInv' /\ UNCHANGED profile
<1>1. /\ desk \in [Staff -> Busy \cup {Idle}] /\ made \in 0..MaxDecisions
      /\ audited \subseteq [number : 1..made, who : People, decision : Decisions]
      /\ MaxDecisions \in Nat
  BY AccountsAssumption DEF AccountsInv, OfficeTypeOK
<1>2. UNCHANGED <<outbox, role, profile, signingUp>>
  BY DEF Load, Audit, Drop
<1>3. LogGrows /\ \E d : DeskMoves(o, d)
  <2>1. ASSUME NEW p \in People, NEW k \in Kinds, NEW d \in Decisions, Load(o, p, k, d)
        PROVE  LogGrows /\ \E n : DeskMoves(o, n)
    <3> DEFINE n == [step |-> "loaded", who |-> p, kind |-> k, decision |-> d,
                     seen |-> profile[p][k], number |-> made + 1]
    <3>1. /\ made' = made + 1 /\ made < MaxDecisions /\ audited' = audited
          /\ desk' = [desk EXCEPT ![o] = n]
          /\ profile[p][k] # NoProfile /\ d \in Offered(k)
      BY <2>1 DEF Load
    <3>2. profile[p][k] \in Profile("SELLER") \cup Profile("BIDDER")
      BY DEF AccountsInv, PeopleTypeOK
    <3>3. n \in Busy'
      BY <1>1, <3>1, <3>2 DEF Busy
    <3>4. LogGrows
      <4>1. 1..made \subseteq 1..made' /\ made' \in 0..MaxDecisions
        BY <1>1, <3>1
      <4> QED
        BY <1>1, <3>1, <4>1 DEF LogGrows
    <3>5. DeskMoves(o, n)
      BY <3>1, <3>3 DEF DeskMoves
    <3> QED
      BY <3>4, <3>5
  <2>2. ASSUME Audit(o)
        PROVE  LogGrows /\ \E n : DeskMoves(o, n)
    <3> DEFINE n == [desk[o] EXCEPT !.step = "audited"]
    <3>1. /\ desk[o].step = "saved" /\ made' = made
          /\ audited' = audited \cup {AuditRow(o)}
          /\ desk' = [desk EXCEPT ![o] = n]
      BY <2>2 DEF Audit
    <3>2. desk[o] \in Busy /\ desk[o] # Idle
      BY <1>1, <3>1 DEF Idle
    <3>3. /\ n \in Busy' /\ n.decision = desk[o].decision /\ n.kind = desk[o].kind
          /\ n.who = desk[o].who /\ n.number = desk[o].number
          /\ AuditRow(o) \in [number : 1..made, who : People, decision : Decisions]
      BY <3>1, <3>2 DEF Busy, AuditRow
    <3>4. /\ desk[o].decision \in Offered(desk[o].kind)
          /\ profile[desk[o].who][desk[o].kind] # NoProfile
      BY <3>2 DEF AccountsInv, DeskInv
    <3> HIDE DEF n
    <3>5. LogGrows
      BY <1>1, <3>1, <3>3 DEF LogGrows
    <3>6. DeskMoves(o, n)
      BY <3>1, <3>3, <3>4 DEF DeskMoves, AuditRow
    <3> QED
      BY <3>5, <3>6
  <2>3. ASSUME Drop(o)
        PROVE  LogGrows /\ \E n : DeskMoves(o, n)
    <3>1. LogGrows
      BY <1>1, <2>3 DEF Drop, LogGrows
    <3>2. DeskMoves(o, Idle)
      BY <2>3 DEF Drop, DeskMoves
    <3> QED
      BY <3>1, <3>2
  <2> QED
    BY <2>1, <2>2, <2>3
<1>4. PeopleTypeOK' /\ OfficeTypeOK' /\ DeskInv'
  BY <1>2, <1>3, DeskMovesInv DEF AccountsInv
<1>5. OutboxInv' /\ AboutInv'
  <2>1. UNCHANGED announced
    BY <1>2 DEF outbox
  <2> QED
    BY <1>2, <1>3, <2>1, OutboxStutters, AboutStays DEF AccountsInv, LogGrows
<1> QED
  BY <1>2, <1>4, <1>5 DEF AccountsInv

(* A decision that is told is in the audit log already. *)
LEMMA TellStep ==
  ASSUME AccountsInv, NEW o \in Staff, Tell(o)
  PROVE  AccountsInv' /\ UNCHANGED profile
<1> DEFINE news == AccountNews(EventOf(desk[o].decision), desk[o].number, desk[o].who)
<1>1. /\ desk[o].step = "audited" /\ Announce(news)
      /\ desk' = [desk EXCEPT ![o] = Idle]
      /\ UNCHANGED <<role, profile, signingUp, made, audited>>
  BY DEF Tell, TellsAfter
<1>2. /\ desk \in [Staff -> Busy \cup {Idle}] /\ made \in Nat /\ made \in 0..MaxDecisions
      /\ audited \subseteq [number : 1..made, who : People, decision : Decisions]
  BY AccountsAssumption DEF AccountsInv, OfficeTypeOK
<1>3. /\ desk[o] \in Busy /\ AuditRow(o) \in audited
      /\ desk[o].who \in Users /\ desk[o].decision \in Decisions /\ desk[o].number \in Nat
  <2>1. desk[o] \in Busy /\ desk[o] # Idle
    BY <1>1, <1>2 DEF Idle
  <2>2. AuditRow(o) \in audited
    BY <1>1, <2>1 DEF AccountsInv, DeskInv
  <2> QED
    BY <1>2, <2>1, <2>2, AccountsAssumption DEF Busy
<1>4. EventOf(desk[o].decision) \in AccountEvents
  BY <1>3 DEF EventOf, Decisions, Verdicts, Sanctions, AccountEvents
<1>5. /\ news \in Announcement /\ news.told = {} /\ news.state = "open"
      /\ news.event = EventOf(desk[o].decision) /\ news.about = desk[o].number
      /\ news.to = {desk[o].who} /\ Single(news)
  BY <1>3, <1>4 DEF AccountNews, News, Announcement, Events, Single
<1> HIDE DEF news
<1>6. OutboxInv'
  BY <1>1, <1>5, AnnounceInv DEF AccountsInv
<1>7. PeopleTypeOK' /\ OfficeTypeOK' /\ DeskInv'
  <2>1. LogGrows
    BY <1>1, <1>2 DEF LogGrows
  <2>2. DeskMoves(o, Idle)
    BY <1>1 DEF DeskMoves
  <2> QED
    BY <1>1, <2>1, <2>2, DeskMovesInv DEF AccountsInv
<1>8. AboutInv'
  <2>1. /\ announced' = Append(announced, news) /\ announced \in Seq(Announcement)
    BY <1>1 DEF Announce, AccountsInv, OutboxInv, OutboxTypeOK
  <2>2. \A a \in DOMAIN announced' :
          \/ a \in DOMAIN announced /\ announced'[a] = announced[a]
          \/ announced'[a] = news
    BY <1>5, <2>1
  <2>3. \E row \in audited :
          /\ row.number = news.about /\ news.to = {row.who}
          /\ EventOf(row.decision) = news.event
    BY <1>3, <1>5 DEF AuditRow
  <2> QED
    BY <1>1, <2>2, <2>3 DEF AccountsInv, AboutInv
<1> QED
  BY <1>1, <1>6, <1>7, <1>8 DEF AccountsInv

(* The steps of the outbox itself, and the announcements of others. *)
LEMMA OutboxStep ==
  ASSUME AccountsInv, AnnounceAny \/ Post,
         UNCHANGED <<role, profile, signingUp, desk, made, audited>>
  PROVE  AccountsInv'
<1>1. PeopleTypeOK' /\ OfficeTypeOK' /\ DeskInv'
  <2>1. Busy' = Busy /\ \A o \in Staff : AuditRow(o)' = AuditRow(o)
    BY DEF Busy, AuditRow
  <2> QED
    BY <2>1 DEF AccountsInv, PeopleTypeOK, OfficeTypeOK, DeskInv
<1>2. CASE Post
  <2>1. OutboxInv'
    BY <1>2, PostInv DEF AccountsInv
  <2>2. AboutInv'
    BY <1>2, PostKeepsNews, AboutStays DEF AccountsInv, OutboxInv
  <2> QED
    BY <1>1, <2>1, <2>2 DEF AccountsInv
<1>3. CASE AnnounceAny
  <2>1. PICK news \in AllNews : Announce(news)
    BY <1>3 DEF AnnounceAny
  <2>2. /\ news \in Announcement /\ news.told = {} /\ news.state = "open"
        /\ news.event \notin AccountEvents
        /\ ~InTransaction(news.event) => Single(news)
    BY AnnouncedTyped
  <2>3. OutboxInv'
    BY <2>1, <2>2, AnnounceInv DEF AccountsInv
  <2>4. /\ announced' = Append(announced, news) /\ announced \in Seq(Announcement)
    BY <2>1 DEF Announce, AccountsInv, OutboxInv, OutboxTypeOK
  <2>5. \A a \in DOMAIN announced' :
          \/ a \in DOMAIN announced /\ announced'[a] = announced[a]
          \/ announced'[a] = news
    BY <2>2, <2>4
  <2>6. AboutInv'
    BY <2>2, <2>5 DEF AccountsInv, AboutInv
  <2> QED
    BY <1>1, <2>3, <2>6 DEF AccountsInv
<1> QED
  BY <1>2, <1>3

LEMMA StepInv == AccountsInv /\ [Next]_vars => AccountsInv'
<1> SUFFICES ASSUME AccountsInv, [Next]_vars PROVE AccountsInv'
  OBVIOUS
<1>1. CASE UNCHANGED vars
  <2>1. UNCHANGED <<outbox, announced, role, profile, signingUp, desk, made, audited>>
    BY <1>1 DEF vars, outbox
  <2>2. OutboxInv' /\ AboutInv'
    BY <2>1, OutboxStutters DEF AccountsInv, AboutInv
  <2>3. Busy' = Busy /\ \A o \in Staff : AuditRow(o)' = AuditRow(o)
    BY <2>1 DEF Busy, AuditRow
  <2> QED
    BY <2>1, <2>2, <2>3 DEF AccountsInv, PeopleTypeOK, OfficeTypeOK, DeskInv
<1>2. CASE Membership
  <2>1. /\ PeopleTypeOK'
        /\ \A p \in People, k \in Kinds :
             profile[p][k] # NoProfile => profile'[p][k] = profile[p][k]
        /\ UNCHANGED <<outbox, announced, desk, made, audited>>
    BY <1>2, MembershipStep DEF outbox
  <2>2. OutboxInv' /\ AboutInv'
    BY <2>1, OutboxStutters DEF AccountsInv, AboutInv
  <2>3. Busy' = Busy /\ \A o \in Staff : AuditRow(o)' = AuditRow(o)
    BY <2>1 DEF Busy, AuditRow
  <2>4. OfficeTypeOK'
    BY <2>1, <2>3 DEF AccountsInv, OfficeTypeOK
  <2>5. \A o \in Staff : desk[o] # Idle => desk[o].who \in People /\ desk[o].kind \in Kinds
    BY DEF AccountsInv, OfficeTypeOK, Busy
  <2>6. DeskInv'
    BY <2>1, <2>3, <2>5 DEF AccountsInv, DeskInv
  <2> QED
    BY <2>1, <2>2, <2>4, <2>6 DEF AccountsInv
<1>3. CASE Office
  BY <1>3, SaveStep, DeskStep, TellStep DEF Office
<1> QED
  BY <1>1, <1>2, <1>3, OutboxStep DEF Next

(* The invariant behind the theorems below: what is written of an          *)
(* announcement is what it says, and what a desk holds fits the tables. *)
THEOREM AccountsCorrect == Spec => []AccountsInv
BY InitInv, StepInv, PTL DEF Spec

(* Type correctness of every reachable state. *)
THEOREM AccountsTypeCorrect == Spec => []TypeOK
<1>1. AccountsInv => TypeOK
  BY DEF AccountsInv, OutboxInv, PeopleTypeOK, OfficeTypeOK, TypeOK
<1> QED
  BY <1>1, AccountsCorrect, PTL

(* All the people an event concerns can see their notice, or none can. *)
THEOREM NobodyToldAloneCorrect == Spec => []NobodyToldAlone
<1>1. ASSUME AccountsInv PROVE NobodyToldAlone
  <2> SUFFICES ASSUME NEW n \in DOMAIN notices, Visible(n),
                      NEW u \in announced[notices[n].of].to
               PROVE  \E m \in DOMAIN notices :
                        notices[m].of = notices[n].of /\ notices[m].to = u
    BY DEF NobodyToldAlone
  <2> DEFINE a == notices[n].of
  <2>1. a \in DOMAIN announced
    BY <1>1, RowsTyped DEF AccountsInv, OutboxInv
  <2>2. u \in announced[a].told
    <3>1. CASE InTransaction(announced[a].event)
      BY <1>1, <2>1, <3>1 DEF AccountsInv, OutboxInv, NewsInv, Visible, Committed
    <3>2. CASE ~InTransaction(announced[a].event)
      BY <1>1, <2>1, <3>2 DEF AccountsInv, OutboxInv, NewsInv, RowsInv, Single
    <3> QED
      BY <3>1, <3>2
  <2> QED
    BY <1>1, <2>1, <2>2 DEF AccountsInv, OutboxInv, RowsInv
<1> QED
  BY <1>1, AccountsCorrect, PTL

(* Whoever has a notice of a decision has it in the audit log as well. *)
THEOREM ToldIsAuditedCorrect == Spec => []ToldIsAudited
<1>1. ASSUME AccountsInv PROVE ToldIsAudited
  <2> SUFFICES ASSUME NEW n \in DOMAIN notices,
                      announced[notices[n].of].event \in AccountEvents
               PROVE  \E row \in audited :
                        /\ row.number = announced[notices[n].of].about
                        /\ row.who = notices[n].to
                        /\ EventOf(row.decision) = announced[notices[n].of].event
    BY DEF ToldIsAudited
  <2>1. notices[n].of \in DOMAIN announced
    BY <1>1, RowsTyped DEF AccountsInv, OutboxInv
  <2>2. notices[n].to \in announced[notices[n].of].to
    BY <1>1, <2>1 DEF AccountsInv, OutboxInv, RowsInv, NewsInv
  <2> QED
    BY <1>1, <2>1, <2>2 DEF AccountsInv, AboutInv
<1> QED
  BY <1>1, AccountsCorrect, PTL

(* Suspensions and verdicts last until somebody decides otherwise. *)
THEOREM DecisionsStickCorrect == Spec => DecisionsStick
<1> DEFINE By(p, k, decisions) ==
             \E o \in Staff :
               /\ desk[o].step = "loaded" /\ desk'[o].step = "saved"
               /\ desk[o].who = p /\ desk[o].kind = k /\ desk[o].decision \in decisions
           Sticks == \A p \in People, k \in Kinds : profile[p][k] # NoProfile =>
             /\ profile'[p][k].verification # profile[p][k].verification => By(p, k, Verdicts)
             /\ profile'[p][k].account # profile[p][k].account => By(p, k, Sanctions)
<1>1. ASSUME AccountsInv, [Next]_vars
      PROVE  [Sticks]_vars
  <2>1. CASE UNCHANGED vars
    BY <2>1
  <2>2. CASE Membership
    BY <1>1, <2>2, MembershipStep
  <2>3. CASE Office
    <3>1. PICK o \in Staff :
            \/ \E p \in People, k \in Kinds, d \in Decisions : Load(o, p, k, d)
            \/ Save(o) \/ Audit(o) \/ Tell(o) \/ Drop(o)
      BY <2>3 DEF Office
    <3>2. CASE Save(o)
      <4>1. ASSUME NEW p \in People, NEW k \in Kinds, profile[p][k] # NoProfile
            PROVE  /\ profile'[p][k].verification # profile[p][k].verification =>
                        By(p, k, Verdicts)
                   /\ profile'[p][k].account # profile[p][k].account =>
                        By(p, k, Sanctions)
        BY <1>1, <3>2, <4>1, SaveStep
      <4> QED
        BY <4>1
    <3>3. CASE UNCHANGED profile
      BY <3>3
    <3> QED
      BY <1>1, <3>1, <3>2, <3>3, DeskStep, TellStep
  <2>4. CASE UNCHANGED profile
    BY <2>4
  <2> QED
    BY <1>1, <2>1, <2>2, <2>3, <2>4 DEF Next
<1> QED
  BY <1>1, AccountsCorrect, PTL DEF Spec, DecisionsStick

----------------------------------------------------------------------------
(***************************************************************************)
(*                  The outbox implements the board                        *)
(***************************************************************************)
Audience  == [a \in DOMAIN announced |-> announced[a].to]
Posted    == Pairs({n \in DOMAIN notices : Visible(n)})
Sent      == Pairs(delivered)
ReadPairs == Pairs({n \in DOMAIN notices : notices[n].read})

Shown == <<Audience, Posted, Sent, ReadPairs>>

(* Nobody has two rows of one announcement, and a request to mark a row    *)
(* read has loaded one of its user's. *)
OneEach == \A m, n \in DOMAIN notices :
             notices[m].of = notices[n].of /\ notices[m].to = notices[n].to => m = n

OwnOpened == \A u \in Users : opened[u] # 0 => notices[opened[u]].to = u

BoardInv == OneEach /\ OwnOpened

(* What the outbox can see of a step of any component. *)
LEMMA OutboxKinds ==
  ASSUME AccountsInv, [Next]_vars
  PROVE  \/ UNCHANGED outbox
         \/ Post
         \/ \E news \in Announcement : Announce(news)
<1>1. CASE Membership
  BY <1>1 DEF Membership, SignUp, CreateProfile, SignUpDies, Provision, ChangeRole
<1>2. ASSUME NEW o \in Staff, Tell(o)
      PROVE  \E news \in Announcement : Announce(news)
  <2> DEFINE news == AccountNews(EventOf(desk[o].decision), desk[o].number, desk[o].who)
  <2>1. Announce(news) /\ desk[o].step = "audited"
    BY <1>2 DEF Tell, TellsAfter
  <2>2. desk[o] \in Busy
    BY <2>1 DEF AccountsInv, OfficeTypeOK, Idle
  <2>3. /\ EventOf(desk[o].decision) \in AccountEvents
        /\ desk[o].who \in Users /\ desk[o].number \in Nat
    BY <2>2, AccountsAssumption
    DEF AccountsInv, OfficeTypeOK, Busy, EventOf, Decisions, Verdicts, Sanctions, AccountEvents
  <2>4. news \in Announcement
    BY <2>3 DEF AccountNews, News, Announcement, Events
  <2> QED
    BY <2>1, <2>4
<1>3. CASE Office
  BY <1>2, <1>3 DEF Office, Load, Save, Audit, Drop
<1>4. CASE AnnounceAny
  BY <1>4, AnnouncedTyped DEF AnnounceAny
<1> QED
  BY <1>1, <1>3, <1>4 DEF Next, vars

(* What writing a row and ending an announcement leave as they were. *)
LEMMA WriteRows ==
  ASSUME OutboxInv, NEW a \in DOMAIN announced, NEW u \in Users,
         NEW state \in {"open", "done", "undone"}, WriteRow(a, u, state)
  PROVE  /\ announced[a].state = "open" /\ u \in announced[a].to
         /\ \A n \in DOMAIN notices : ~(notices[n].of = a /\ notices[n].to = u)
         /\ DOMAIN announced' = DOMAIN announced /\ announced'[a].state = state
         /\ \A b \in DOMAIN announced :
              /\ announced'[b].to = announced[b].to
              /\ announced'[b].event = announced[b].event
              /\ b # a => announced'[b].state = announced[b].state
         /\ DOMAIN notices' = DOMAIN notices \cup {Len(notices) + 1}
         /\ Len(notices) + 1 \notin DOMAIN notices
         /\ \A n \in DOMAIN notices : notices'[n] = notices[n]
         /\ notices'[Len(notices) + 1] = [of |-> a, to |-> u, read |-> FALSE]
         /\ UNCHANGED <<delivered, opened>>
<1> DEFINE old == announced[a]
           new == [old EXCEPT !.told = @ \cup {u}, !.state = state]
<1>1. /\ old.state = "open" /\ u \in old.to /\ u \notin old.told
      /\ announced' = [announced EXCEPT ![a] = new]
      /\ notices' = Append(notices, [of |-> a, to |-> u, read |-> FALSE])
      /\ UNCHANGED <<delivered, opened>>
  BY DEF WriteRow
<1>2. announced \in Seq(Announcement) /\ notices \in Seq(Notice) /\ old \in Announcement
  BY DEF OutboxInv, OutboxTypeOK
<1>3. new.event = old.event /\ new.to = old.to /\ new.state = state
  BY <1>2 DEF Announcement
<1> HIDE DEF new
<1>4. /\ DOMAIN announced' = DOMAIN announced
      /\ \A b \in DOMAIN announced : announced'[b] = IF b = a THEN new ELSE announced[b]
  BY <1>1, <1>2
<1>5. /\ DOMAIN notices' = DOMAIN notices \cup {Len(notices) + 1}
      /\ Len(notices) + 1 \notin DOMAIN notices
      /\ \A n \in DOMAIN notices : notices'[n] = notices[n]
      /\ notices'[Len(notices) + 1] = [of |-> a, to |-> u, read |-> FALSE]
  BY <1>1, <1>2
<1>6. \A n \in DOMAIN notices : ~(notices[n].of = a /\ notices[n].to = u)
  BY <1>1 DEF OutboxInv, RowsInv
<1> QED
  BY <1>1, <1>3, <1>4, <1>5, <1>6

LEMMA EndRows ==
  ASSUME OutboxInv, NEW a \in DOMAIN announced, NEW state, End(a, state)
  PROVE  /\ announced[a].state = "open"
         /\ DOMAIN announced' = DOMAIN announced /\ announced'[a].state = state
         /\ \A b \in DOMAIN announced :
              /\ announced'[b].to = announced[b].to
              /\ announced'[b].event = announced[b].event
              /\ b # a => announced'[b].state = announced[b].state
         /\ UNCHANGED <<notices, delivered, opened>>
<1> DEFINE new == [announced[a] EXCEPT !.state = state]
<1>1. /\ announced[a].state = "open" /\ announced' = [announced EXCEPT ![a] = new]
      /\ UNCHANGED <<notices, delivered, opened>>
  BY DEF End
<1>2. announced \in Seq(Announcement) /\ announced[a] \in Announcement
  BY DEF OutboxInv, OutboxTypeOK
<1>3. new.event = announced[a].event /\ new.to = announced[a].to /\ new.state = state
  BY <1>2 DEF Announcement
<1> HIDE DEF new
<1>4. /\ DOMAIN announced' = DOMAIN announced
      /\ \A b \in DOMAIN announced : announced'[b] = IF b = a THEN new ELSE announced[b]
  BY <1>1, <1>2
<1> QED
  BY <1>1, <1>3, <1>4

(* Reading touches rows of its own user only, and only those on the board. *)
LEMMA ReadsOwn ==
  ASSUME OutboxInv, OwnOpened, NEW u \in Users,
         OpenNotice(u) \/ MarkRead(u) \/ MarkAllRead(u)
  PROVE  /\ \A v \in Users : opened'[v] # 0 => notices[opened'[v]].to = v
         /\ \A n \in DOMAIN notices :
              /\ notices[n].read => notices'[n].read
              /\ notices'[n].read => \/ notices[n].read
                                     \/ Visible(n) /\ notices[n].to = u
<1>1. /\ notices \in Seq(Notice)
      /\ opened \in [Users -> DOMAIN notices \cup {0}]
      /\ \A v \in Users : opened[v] # 0 => Visible(opened[v]) /\ notices[opened[v]].to = v
  BY DEF OutboxInv, OutboxTypeOK, OpenedInv, OwnOpened
<1>2. CASE OpenNotice(u)
  <2>1. PICK n \in Inbox(u) : opened' = [opened EXCEPT ![u] = n]
    BY <1>2 DEF OpenNotice
  <2>2. notices[n].to = u /\ notices' = notices
    BY <1>2 DEF Inbox, OpenNotice
  <2> QED
    BY <1>1, <2>1, <2>2
<1>3. CASE MarkRead(u)
  <2> DEFINE m == opened[u]
             new == [notices[m] EXCEPT !.read = TRUE]
  <2>1. m \in DOMAIN notices /\ Visible(m) /\ notices[m].to = u /\ notices[m] \in Notice
    BY <1>1, <1>3 DEF MarkRead
  <2>2. notices' = [notices EXCEPT ![m] = new] /\ opened' = [opened EXCEPT ![u] = 0]
    BY <1>3 DEF MarkRead
  <2>3. new.read = TRUE
    BY <2>1 DEF Notice
  <2> HIDE DEF m, new
  <2>4. \A n \in DOMAIN notices : notices'[n] = IF n = m THEN new ELSE notices[n]
    BY <1>1, <2>2
  <2>5. \A v \in Users : opened'[v] # 0 => notices[opened'[v]].to = v
    BY <1>1, <2>2
  <2> QED
    BY <2>1, <2>3, <2>4, <2>5
<1>4. CASE MarkAllRead(u)
  <2>1. /\ notices' = [n \in DOMAIN notices |->
                        [notices[n] EXCEPT !.read = @ \/ n \in Unread(u)]]
        /\ opened' = opened
    BY <1>4 DEF MarkAllRead
  <2>2. \A n \in DOMAIN notices : notices'[n].read = (notices[n].read \/ n \in Unread(u))
    <3> TAKE n \in DOMAIN notices
    <3>1. notices[n] \in Notice
      BY <1>1
    <3>2. notices'[n] = [notices[n] EXCEPT !.read = notices[n].read \/ n \in Unread(u)]
      BY <2>1
    <3> QED
      BY <3>1, <3>2 DEF Notice
  <2>3. \A n \in Unread(u) : Visible(n) /\ notices[n].to = u
    BY DEF Unread, Inbox
  <2>4. \A n \in DOMAIN notices :
          /\ notices[n].read => notices'[n].read
          /\ notices'[n].read => notices[n].read \/ n \in Unread(u)
    BY <2>2
  <2> QED
    BY <1>1, <2>1, <2>3, <2>4
<1> QED
  BY <1>2, <1>3, <1>4

LEMMA BoardInvStep ==
  ASSUME AccountsInv, BoardInv, [Next]_vars
  PROVE  BoardInv'
<1>1. /\ OutboxInv
      /\ \A u \in Users : opened[u] \in DOMAIN notices \cup {0}
  BY DEF AccountsInv, OutboxInv, OutboxTypeOK
<1>2. CASE UNCHANGED <<notices, opened>>
  BY <1>2 DEF BoardInv, OneEach, OwnOpened
<1>3. ASSUME NEW a \in DOMAIN announced, NEW u \in Users,
             NEW state \in {"open", "done", "undone"}, WriteRow(a, u, state)
      PROVE  BoardInv'
  <2>1. /\ \A n \in DOMAIN notices : ~(notices[n].of = a /\ notices[n].to = u)
        /\ DOMAIN notices' = DOMAIN notices \cup {Len(notices) + 1}
        /\ \A n \in DOMAIN notices : notices'[n] = notices[n]
        /\ notices'[Len(notices) + 1] = [of |-> a, to |-> u, read |-> FALSE]
        /\ opened' = opened
    BY <1>1, <1>3, WriteRows DEF WriteRow
  <2>2. /\ notices'[Len(notices) + 1].of = a
        /\ notices'[Len(notices) + 1].to = u
    BY <2>1
  <2>3. OneEach'
    <3> SUFFICES ASSUME NEW m \in DOMAIN notices', NEW n \in DOMAIN notices',
                        notices'[m].of = notices'[n].of, notices'[m].to = notices'[n].to
                 PROVE  m = n
      BY DEF OneEach
    <3>1. CASE m \in DOMAIN notices /\ n \in DOMAIN notices
      BY <2>1, <3>1 DEF BoardInv, OneEach
    <3> QED
      BY <2>1, <2>2, <3>1
  <2>4. OwnOpened'
    BY <1>1, <2>1 DEF BoardInv, OwnOpened
  <2> QED
    BY <2>3, <2>4 DEF BoardInv
<1>4. CASE Read
  <2>1. PICK u \in Users : OpenNotice(u) \/ MarkRead(u) \/ MarkAllRead(u)
    BY <1>4 DEF Read
  <2>2. \A v \in Users : opened'[v] # 0 => notices[opened'[v]].to = v
    BY <1>1, <2>1, ReadsOwn DEF BoardInv
  <2>3. /\ DOMAIN notices' = DOMAIN notices
        /\ \A n \in DOMAIN notices :
             notices'[n].of = notices[n].of /\ notices'[n].to = notices[n].to
        /\ \A v \in Users : opened'[v] # 0 => opened'[v] \in DOMAIN notices
    BY <1>1, <1>4, ReadRows
  <2> QED
    BY <2>2, <2>3 DEF BoardInv, OneEach, OwnOpened
<1>5. CASE Post
  BY <1>2, <1>3, <1>4, <1>5
  DEF Post, Notify, BrokerDown, AfterError, Commit, CallerDies, End, Deliver, LoseTask
<1>6. ASSUME NEW news \in Announcement, Announce(news)
      PROVE  UNCHANGED <<notices, opened>>
  BY <1>6 DEF Announce
<1>7. UNCHANGED outbox => UNCHANGED <<notices, opened>>
  BY DEF outbox
<1> QED
  BY <1>2, <1>5, <1>6, <1>7, OutboxKinds

(* Rows are never doubled, and a mark-read request holds its user's own.   *)
THEOREM BoardInvCorrect == Spec => []BoardInv
<1>1. Init => BoardInv
  BY DEF Init, OutboxInit, BoardInv, OneEach, OwnOpened
<1> QED
  BY <1>1, BoardInvStep, AccountsCorrect, PTL DEF Spec

LEMMA AudienceStays ==
  ASSUME DOMAIN announced' = DOMAIN announced,
         \A a \in DOMAIN announced : announced'[a].to = announced[a].to
  PROVE  Audience' = Audience
BY DEF Audience

(* Announcing puts nothing on the board yet. *)
LEMMA AnnounceShown ==
  ASSUME AccountsInv, NEW news \in Announcement, Announce(news)
  PROVE  Board!Next
<1>1. /\ announced' = Append(announced, news)
      /\ UNCHANGED <<notices, queue, delivered, opened>>
      /\ announced \in Seq(Announcement) /\ news.to \in SUBSET Users
  BY DEF Announce, AccountsInv, OutboxInv, OutboxTypeOK, Announcement
<1>2. /\ DOMAIN announced = 1..Len(announced) /\ Len(announced) \in Nat
      /\ DOMAIN announced' = 1..(Len(announced) + 1)
      /\ \A a \in DOMAIN announced : announced'[a] = announced[a]
      /\ announced'[Len(announced) + 1] = news
  BY <1>1
<1>3. Audience' = Append(Audience, news.to)
  <2>1. \A a \in DOMAIN announced : announced[a].to \in SUBSET Users
    <3>1. \A a \in DOMAIN announced : announced[a] \in Announcement
      BY <1>1
    <3>2. \A any \in Announcement : any.to \in SUBSET Users
      BY DEF Announcement
    <3> QED
      BY <3>1, <3>2
  <2>2. Audience \in Seq(SUBSET Users) /\ Len(Audience) = Len(announced)
    <3>1. Audience \in [1..Len(announced) -> SUBSET Users]
      BY <1>2, <2>1 DEF Audience
    <3> QED
      BY <1>2, <3>1
  <2>3. /\ Audience' \in [1..(Len(announced) + 1) -> SUBSET Users]
        /\ \A a \in 1..Len(announced) : Audience'[a] = Audience[a]
        /\ Audience'[Len(announced) + 1] = news.to
    BY <1>1, <1>2, <2>1 DEF Audience
  <2>4. Audience' \in Seq(SUBSET Users) /\ Len(Audience') = Len(announced) + 1
    BY <1>2, <2>3
  <2> DEFINE more == Append(Audience, news.to)
  <2>5. /\ more \in Seq(SUBSET Users) /\ Len(more) = Len(announced) + 1
        /\ \A a \in 1..Len(announced) : more[a] = Audience[a]
        /\ more[Len(announced) + 1] = news.to
    BY <1>1, <2>2, AppendProperties
  <2>6. \A a \in 1..Len(Audience') : Audience'[a] = more[a]
    BY <1>2, <2>3, <2>4, <2>5
  <2> HIDE DEF more
  <2> QED
    BY <2>4, <2>5, <2>6, SeqEqual DEF more
<1>4. \A n \in DOMAIN notices : notices[n].of \in DOMAIN announced
  BY RowsTyped DEF AccountsInv, OutboxInv
<1>5. \A n \in DOMAIN notices : Visible(n)' <=> Visible(n)
  BY <1>1, <1>2, <1>4 DEF Visible, Committed
<1>6. UNCHANGED <<Posted, Sent, ReadPairs>>
  BY <1>1, <1>5 DEF Posted, Sent, ReadPairs, Pairs
<1>7. Board!Call(news.to)
  BY <1>3, <1>6 DEF Board!Call, Audience, Posted, Sent, ReadPairs
<1> QED
  BY <1>1, <1>7 DEF Board!Next

(* A row goes up by itself if nothing protects it, and else stays unseen.  *)
LEMMA WriteShown ==
  ASSUME AccountsInv, NEW a \in DOMAIN announced, NEW u \in Users,
         NEW state \in {"open", "done", "undone"},
         state = "done" => ~InTransaction(announced[a].event),
         WriteRow(a, u, state)
  PROVE  UNCHANGED Shown \/ Board!Next
<1>0. PICK last : last = Len(notices) + 1
  OBVIOUS
<1>1. /\ announced[a].state = "open" /\ u \in announced[a].to
      /\ \A n \in DOMAIN notices : ~(notices[n].of = a /\ notices[n].to = u)
      /\ DOMAIN announced' = DOMAIN announced /\ announced'[a].state = state
      /\ \A b \in DOMAIN announced :
           /\ announced'[b].to = announced[b].to
           /\ announced'[b].event = announced[b].event
           /\ b # a => announced'[b].state = announced[b].state
      /\ DOMAIN notices' = DOMAIN notices \cup {last}
      /\ last \notin DOMAIN notices
      /\ \A n \in DOMAIN notices : notices'[n] = notices[n]
      /\ notices'[last] = [of |-> a, to |-> u, read |-> FALSE]
      /\ UNCHANGED <<delivered, opened>>
  BY <1>0, WriteRows DEF WriteRow, AccountsInv
<1>2. /\ notices'[last].of = a /\ notices'[last].to = u /\ ~notices'[last].read
      /\ delivered \subseteq DOMAIN notices
      /\ \A n \in DOMAIN notices : notices[n].of \in DOMAIN announced
  BY <1>1, RowsTyped DEF AccountsInv, OutboxInv, OutboxTypeOK
<1>3. Audience' = Audience
  BY <1>1, AudienceStays
<1>4. Sent' = Sent
  BY <1>1, <1>2 DEF Sent, Pairs
<1>5. ReadPairs' = ReadPairs
  <2>1. {n \in DOMAIN notices : notices[n].read}'
          = {n \in DOMAIN notices : notices[n].read}
    BY <1>1, <1>2
  <2> QED
    BY <2>1, <1>1 DEF ReadPairs, Pairs
<1>6. \A n \in DOMAIN notices : Visible(n)' <=> Visible(n)
  BY <1>1, <1>2 DEF Visible, Committed
<1>7. CASE InTransaction(announced[a].event)
  <2>1. ~Visible(last)'
    BY <1>1, <1>2, <1>7 DEF Visible, Committed, InTransaction
  <2>2. {n \in DOMAIN notices : Visible(n)}' = {n \in DOMAIN notices : Visible(n)}
    BY <1>1, <1>6, <2>1
  <2>3. Posted' = Posted
    BY <2>2, <1>1 DEF Posted, Pairs
  <2> QED
    BY <1>3, <1>4, <1>5, <2>3 DEF Shown
<1>8. CASE ~InTransaction(announced[a].event)
  <2>1. announced[a].to = {u}
    BY <1>1, <1>8 DEF AccountsInv, OutboxInv, NewsInv, Single
  <2>2. Visible(last)'
    BY <1>1, <1>2, <1>8 DEF Visible, Committed, InTransaction
  <2>3. {n \in DOMAIN notices : Visible(n)}'
          = {n \in DOMAIN notices : Visible(n)} \cup {last}
    BY <1>1, <1>6, <2>2
  <2>4. Posted' = Posted \cup {<<a, u>>}
    BY <2>3, <1>1, <1>2 DEF Posted, Pairs
  <2>5. Audience[a] = {u} /\ a \in DOMAIN Audience
    BY <2>1 DEF Audience
  <2>6. {a} \X Audience[a] = {<<a, u>>}
    BY <2>5
  <2>7. \A n \in DOMAIN notices : notices[n].of # a
    <3>1. \A n \in DOMAIN notices : notices[n].of = a => notices[n].to \in announced[a].to
      BY DEF AccountsInv, OutboxInv, RowsInv, NewsInv
    <3> QED
      BY <3>1, <2>1, <1>1
  <2>8. \A v \in Users : <<a, v>> \notin Posted
    BY <2>7 DEF Posted, Pairs
  <2>9. Board!Put(a)
    <3>1. Posted' = Posted \cup ({a} \X Audience[a])
      BY <2>4, <2>6
    <3> QED
      BY <1>3, <1>4, <1>5, <2>8, <3>1
      DEF Board!Put, Audience, Posted, Sent, ReadPairs
  <2> QED
    BY <2>5, <2>9 DEF Board!Next, Audience
<1> QED
  BY <1>7, <1>8

(* A commit puts up the rows of everybody concerned.  Any other end of an  *)
(* announcement changes nothing that can be seen. *)
LEMMA EndShown ==
  ASSUME AccountsInv, NEW a \in DOMAIN announced, NEW state \in {"done", "undone"},
         End(a, state),
         state = "done" /\ InTransaction(announced[a].event)
           => announced[a].told = announced[a].to
  PROVE  UNCHANGED Shown \/ Board!Next
<1>1. /\ announced[a].state = "open"
      /\ DOMAIN announced' = DOMAIN announced /\ announced'[a].state = state
      /\ \A b \in DOMAIN announced :
           /\ announced'[b].to = announced[b].to
           /\ announced'[b].event = announced[b].event
           /\ b # a => announced'[b].state = announced[b].state
      /\ UNCHANGED <<notices, delivered, opened>>
  BY EndRows DEF End, AccountsInv
<1>2. \A n \in DOMAIN notices : notices[n].of \in DOMAIN announced
  BY RowsTyped DEF AccountsInv, OutboxInv
<1>3. UNCHANGED <<Audience, Sent, ReadPairs>>
  BY <1>1, AudienceStays DEF Sent, ReadPairs, Pairs
<1>4. CASE ~(state = "done" /\ InTransaction(announced[a].event))
  <2>1. \A n \in DOMAIN notices : Visible(n)' <=> Visible(n)
    BY <1>1, <1>2, <1>4 DEF Visible, Committed, InTransaction
  <2>2. Posted' = Posted
    BY <2>1, <1>1 DEF Posted, Pairs
  <2> QED
    BY <1>3, <2>2 DEF Shown
<1>5. CASE state = "done" /\ InTransaction(announced[a].event)
  <2>1. \A n \in DOMAIN notices :
          /\ Visible(n)' <=> Visible(n) \/ notices[n].of = a
          /\ notices[n].of = a => ~Visible(n)
    BY <1>1, <1>2, <1>5 DEF Visible, Committed, InTransaction
  <2>2. \A u : u \in announced[a].to <=>
          \E n \in DOMAIN notices : notices[n].of = a /\ notices[n].to = u
    BY <1>5 DEF AccountsInv, OutboxInv, RowsInv
  <2>3. a \in DOMAIN Audience /\ Audience[a] = announced[a].to
    BY DEF Audience
  <2>4. \A v \in Users : <<a, v>> \notin Posted
    BY <2>1 DEF Posted, Pairs
  <2>5. Posted' = Posted \cup ({a} \X Audience[a])
    <3>1. ASSUME NEW p \in Posted'
          PROVE  p \in Posted \cup ({a} \X Audience[a])
      <4>1. PICK n \in DOMAIN notices :
              Visible(n)' /\ p = <<notices[n].of, notices[n].to>>
        BY <1>1, <3>1 DEF Posted, Pairs
      <4>2. CASE Visible(n)
        BY <4>1, <4>2 DEF Posted, Pairs
      <4>3. CASE notices[n].of = a
        BY <4>1, <4>3, <2>2, <2>3
      <4> QED
        BY <4>1, <4>2, <4>3, <2>1
    <3>2. ASSUME NEW p \in Posted
          PROVE  p \in Posted'
      <4>1. PICK n \in DOMAIN notices :
              Visible(n) /\ p = <<notices[n].of, notices[n].to>>
        BY <3>2 DEF Posted, Pairs
      <4>2. Visible(n)'
        BY <4>1, <2>1
      <4> QED
        BY <1>1, <4>1, <4>2 DEF Posted, Pairs
    <3>3. ASSUME NEW u \in Audience[a]
          PROVE  <<a, u>> \in Posted'
      <4>1. PICK n \in DOMAIN notices : notices[n].of = a /\ notices[n].to = u
        BY <2>2, <2>3, <3>3
      <4>2. Visible(n)'
        BY <4>1, <2>1
      <4> QED
        BY <1>1, <4>1, <4>2 DEF Posted, Pairs
    <3> QED
      BY <3>1, <3>2, <3>3
  <2>6. Board!Put(a)
    BY <1>3, <2>4, <2>5 DEF Board!Put, Audience, Posted, Sent, ReadPairs
  <2> QED
    BY <2>3, <2>6 DEF Board!Next, Audience
<1> QED
  BY <1>4, <1>5

(* A task sends its row once, and only if it finds it. *)
LEMMA DeliverShown ==
  ASSUME AccountsInv, BoardInv, NEW n \in queue, Deliver(n) \/ LoseTask(n)
  PROVE  UNCHANGED Shown \/ Board!Next
<1>1. UNCHANGED <<announced, notices, opened>>
  BY DEF Deliver, LoseTask
<1>2. UNCHANGED <<Audience, Posted, ReadPairs>>
  BY <1>1 DEF Audience, Posted, ReadPairs, Pairs, Visible, Committed
<1>3. CASE delivered' = delivered
  BY <1>1, <1>2, <1>3 DEF Shown, Sent, Pairs
<1>4. CASE Visible(n) /\ delivered' = delivered \cup {n}
  <2> DEFINE p == <<notices[n].of, notices[n].to>>
  <2>1. n \in DOMAIN notices /\ n \notin delivered /\ delivered \subseteq DOMAIN notices
    BY DEF AccountsInv, OutboxInv, OutboxTypeOK
  <2>2. p \in Posted
    BY <1>4, <2>1 DEF Posted, Pairs
  <2>3. p \notin Sent
    BY <2>1 DEF Sent, Pairs, BoardInv, OneEach
  <2>4. Sent' = Sent \cup {p}
    BY <1>1, <1>4 DEF Sent, Pairs
  <2> HIDE DEF p
  <2>5. Board!Send(p)
    BY <1>2, <2>2, <2>3, <2>4 DEF Board!Send, Audience, Posted, Sent, ReadPairs
  <2> QED
    BY <2>2, <2>5 DEF Board!Next, Posted
<1> QED
  BY <1>3, <1>4 DEF Deliver, LoseTask

LEMMA ReadShown ==
  ASSUME AccountsInv, BoardInv, Read
  PROVE  Board!Next
<1>1. PICK u \in Users : OpenNotice(u) \/ MarkRead(u) \/ MarkAllRead(u)
  BY DEF Read
<1>2. /\ DOMAIN notices' = DOMAIN notices
      /\ \A n \in DOMAIN notices :
           notices'[n].of = notices[n].of /\ notices'[n].to = notices[n].to
      /\ UNCHANGED <<announced, delivered>>
      /\ delivered \subseteq DOMAIN notices
  BY ReadRows DEF AccountsInv, OutboxInv, OutboxTypeOK
<1>3. \A n \in DOMAIN notices :
        /\ notices[n].read => notices'[n].read
        /\ notices'[n].read => \/ notices[n].read
                               \/ Visible(n) /\ notices[n].to = u
  BY <1>1, ReadsOwn DEF AccountsInv, BoardInv
<1>4. \A n \in DOMAIN notices : Visible(n)' <=> Visible(n)
  BY <1>2 DEF Visible, Committed
<1>5. UNCHANGED <<Audience, Posted, Sent>>
  BY <1>2, <1>4 DEF Audience, Posted, Sent, Pairs
<1>6. ReadPairs \subseteq ReadPairs'
  BY <1>2, <1>3 DEF ReadPairs, Pairs
<1>7. ReadPairs' \ ReadPairs \subseteq {p \in Posted : p[2] = u}
  <2> SUFFICES ASSUME NEW p \in ReadPairs', p \notin ReadPairs
               PROVE  p \in Posted /\ p[2] = u
    OBVIOUS
  <2>1. PICK n \in DOMAIN notices :
          notices'[n].read /\ p = <<notices[n].of, notices[n].to>>
    BY <1>2 DEF ReadPairs, Pairs
  <2>2. ~notices[n].read
    BY <2>1 DEF ReadPairs, Pairs
  <2>3. Visible(n) /\ notices[n].to = u
    BY <1>3, <2>1, <2>2
  <2> QED
    BY <2>1, <2>3 DEF Posted, Pairs
<1>8. Board!ReadSome(u)
  BY <1>5, <1>6, <1>7 DEF Board!ReadSome, Audience, Posted, Sent, ReadPairs
<1> QED
  BY <1>8 DEF Board!Next

LEMMA BoardStep ==
  ASSUME AccountsInv, BoardInv, [Next]_vars
  PROVE  UNCHANGED Shown \/ Board!Next
<1>1. CASE UNCHANGED outbox
  <2>1. UNCHANGED <<announced, notices, delivered>>
    BY <1>1 DEF outbox
  <2> QED
    BY <2>1 DEF Shown, Audience, Posted, Sent, ReadPairs, Pairs, Visible, Committed
<1>2. ASSUME NEW a \in DOMAIN announced, NEW u \in Users, Notify(a, u) \/ BrokerDown(a, u)
      PROVE  UNCHANGED Shown \/ Board!Next
  BY <1>2, WriteShown DEF Notify, BrokerDown, AfterError
<1>3. ASSUME NEW a \in DOMAIN announced, Commit(a) \/ CallerDies(a)
      PROVE  UNCHANGED Shown \/ Board!Next
  BY <1>3, EndShown DEF Commit, CallerDies, AfterError
<1>4. CASE Post
  BY <1>2, <1>3, <1>4, DeliverShown, ReadShown DEF Post
<1> QED
  BY <1>1, <1>4, AnnounceShown, OutboxKinds

(* The outbox of rows, transactions and tasks implements the board: news   *)
(* go up for everybody or nobody, are sent at most once and only when they *)
(* are up, and are read by those they are for.                             *)
THEOREM BulletinRefinement == Spec => RefinesBulletin
<1>1. Init => Board!Init
  <2> SUFFICES ASSUME Init PROVE Board!Init
    OBVIOUS
  <2>1. announced = <<>> /\ notices = <<>> /\ delivered = {}
    BY DEF Init, OutboxInit
  <2>2. Audience = <<>>
    BY <2>1 DEF Audience
  <2>3. Posted = {} /\ Sent = {} /\ ReadPairs = {}
    BY <2>1 DEF Posted, Sent, ReadPairs, Pairs
  <2> QED
    BY <2>2, <2>3 DEF Board!Init, Audience, Posted, Sent, ReadPairs
<1>2. ASSUME AccountsInv, BoardInv, [Next]_vars
      PROVE  [Board!Next]_(Board!bulletinVars)
  <2>1. CASE UNCHANGED Shown
    BY <2>1 DEF Shown, Board!bulletinVars, Audience, Posted, Sent, ReadPairs
  <2> QED
    BY <1>2, <2>1, BoardStep
<1> QED
  BY <1>1, <1>2, AccountsCorrect, BoardInvCorrect, PTL
  DEF Spec, RefinesBulletin, Board!Spec

=============================================================================
