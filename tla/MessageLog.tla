----------------------------- MODULE MessageLog -----------------------------
(***************************************************************************)
(* What the server of RoomDate promises about one conversation: a message  *)
(* sent again within a day, identical, is neither stored nor announced a   *)
(* second time; only a stored message is announced, and an announcement    *)
(* that is not made is lost, never made up later.                          *)
(***************************************************************************)
EXTENDS Naturals

CONSTANTS
  Texts,      \* ciphertexts, each random and of one author
  Days,       \* days on which a message may be stored
  Instants,   \* instants within them
  Users,      \* whom a message may be announced to
  Channels    \* the ways of announcing it

VARIABLES
  log,        \* the messages stored
  owed,       \* announcements still to be made
  told        \* announcements made

logVars == <<log, owed, told>>

Entry == [text : Texts, day : Days, at : Instants]

LogInit == log = {} /\ owed = {} /\ told = {}

\* The text is there already, since the day of this entry or later.
Repeats(e) == \E f \in log : f.text = e.text /\ f.day >= e.day

Post(e, others) ==
  /\ ~Repeats(e)
  /\ \A f \in log : f.at # e.at
  /\ log' = log \cup {e}
  /\ owed' = owed \cup ({e} \X (others \X Channels))
  /\ UNCHANGED told

Tell(N) ==
  /\ owed' = owed \ N
  /\ told' = told \cup N
  /\ UNCHANGED log

Lose(N) == owed' = owed \ N /\ UNCHANGED <<log, told>>

\* Both participants are gone, and the conversation with them.
Drop == log' = {} /\ UNCHANGED <<owed, told>>

LogNext ==
  \/ \E e \in Entry, others \in SUBSET Users : Post(e, others)
  \/ \E N \in SUBSET owed : Tell(N) \/ Lose(N)
  \/ Drop

LogSpec == LogInit /\ [][LogNext]_logVars
=============================================================================
