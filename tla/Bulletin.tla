------------------------------ MODULE Bulletin ------------------------------
(***************************************************************************)
(* What the notifications promise to the people they are about, with no    *)
(* rows, transactions, tasks or brokers in it.  News go up on a board all  *)
(* at once, for everybody they concern or for nobody, and never twice.     *)
(* Only what is up is sent, and at most once; only what is up is read, by  *)
(* the person it is for, and nothing that was read is unread again.        *)
(***************************************************************************)
EXTENDS Naturals, Sequences

CONSTANT Users

VARIABLES
  audience,  \* the people each of the news concerns, in order of calling
  posted,    \* pairs <<a, u>>: user u can see the a-th news
  sent,      \* pairs that went out to the user
  read       \* pairs the user has read

bulletinVars == <<audience, posted, sent, read>>

Init == audience = <<>> /\ posted = {} /\ sent = {} /\ read = {}

Call(people) ==
  /\ audience' = Append(audience, people)
  /\ UNCHANGED <<posted, sent, read>>

Put(a) ==
  /\ \A u \in Users : <<a, u>> \notin posted
  /\ posted' = posted \cup ({a} \X audience[a])
  /\ UNCHANGED <<audience, sent, read>>

Send(p) ==
  /\ p \in posted \ sent
  /\ sent' = sent \cup {p}
  /\ UNCHANGED <<audience, posted, read>>

(* One of the news, or all that are there. *)
ReadSome(u) ==
  /\ read \subseteq read' /\ read' \ read \subseteq {p \in posted : p[2] = u}
  /\ UNCHANGED <<audience, posted, sent>>

Next ==
  \/ \E u \in Users : ReadSome(u)
  \/ \E people \in SUBSET Users : Call(people)
  \/ \E a \in DOMAIN audience : Put(a)
  \/ \E p \in posted : Send(p)

Spec == Init /\ [][Next]_bulletinVars
=============================================================================
