------------------------------- MODULE Mailbox -------------------------------
(***************************************************************************)
(* What the thread-safe function bridge promises its users, without        *)
(* reference counts or N-API internals: an owner opens a mailbox; while    *)
(* the owner holds it, native threads may take a slot (accept) and then    *)
(* post a call; the host thread delivers posted calls one at a time in the *)
(* order they were posted; once the owner has let go and no call is        *)
(* accepted or waiting, the mailbox closes, and nothing is posted or       *)
(* delivered after that.                                                   *)
(***************************************************************************)
EXTENDS Naturals, Sequences, SequencesExt

CONSTANT Calls   \* identities of calls

VARIABLES
  mbox,       \* "unborn", "open", "closed"
  owned,      \* the owner still holds the mailbox
  accepted,   \* calls that took a slot and are not yet posted
  inbox,      \* posted calls awaiting delivery, oldest first
  delivered   \* calls delivered so far, in delivery order

vars == <<mbox, owned, accepted, inbox, delivered>>

Seen == accepted \cup ToSet(inbox) \cup ToSet(delivered)

Init ==
  /\ mbox = "unborn" /\ owned = FALSE
  /\ accepted = {} /\ inbox = <<>> /\ delivered = <<>>

Open ==
  /\ mbox = "unborn"
  /\ mbox' = "open" /\ owned' = TRUE
  /\ UNCHANGED <<accepted, inbox, delivered>>

Accept(c) ==
  /\ mbox = "open" /\ owned /\ c \notin Seen
  /\ accepted' = accepted \cup {c}
  /\ UNCHANGED <<mbox, owned, inbox, delivered>>

Post(c) ==
  /\ c \in accepted
  /\ accepted' = accepted \ {c}
  /\ inbox' = Append(inbox, c)
  /\ UNCHANGED <<mbox, owned, delivered>>

Deliver ==
  /\ mbox = "open" /\ inbox # <<>>
  /\ delivered' = Append(delivered, Head(inbox))
  /\ inbox' = Tail(inbox)
  /\ UNCHANGED <<mbox, owned, accepted>>

Release ==
  /\ owned
  /\ owned' = FALSE
  /\ UNCHANGED <<mbox, accepted, inbox, delivered>>

Close ==
  /\ mbox = "open" /\ ~owned /\ accepted = {} /\ inbox = <<>>
  /\ mbox' = "closed"
  /\ UNCHANGED <<owned, accepted, inbox, delivered>>

Next ==
  \/ Open \/ Release \/ Deliver \/ Close
  \/ \E c \in Calls : Accept(c) \/ Post(c)

\* A posting thread finishes; the host delivers what is posted; a mailbox
\* nobody holds or uses is closed.
Spec ==
  /\ Init /\ [][Next]_vars
  /\ \A c \in Calls : WF_vars(Post(c))
  /\ WF_vars(Deliver)
  /\ WF_vars(Close)
=============================================================================
