----------------------------- MODULE ChatProofs -----------------------------
(***************************************************************************)
(* What holds of the three parts of the chat page for any values of their  *)
(* constants: the messages waiting to be sent (Outbox), the thread of the  *)
(* open conversation (Thread) and what is unread (Reading).  The parts     *)
(* share no state and each has its own invariant.                          *)
(***************************************************************************)
EXTENDS Outbox, Thread, Reading, Integers, FiniteSetTheorems, SequenceTheorems, TLAPS

-----------------------------------------------------------------------------
(***************************************************************************)
(* What holds of Outbox for any messages and bounds.  A message is         *)
(* encrypted anew only after a refusal of its last ciphertext, and a       *)
(* delivery outlives the page that started it, so the invariant ties the   *)
(* number of encryptions to the payload kept, to the post a delivery waits *)
(* for and to what the server may still get.                               *)
(***************************************************************************)

\* The next encryption makes no second copy of what was not refused.
Renewable(i) == made[i] = 0 \/ Text(i, made[i]) \in rejected

InLog(t) == \E e \in log : e.text = t

\* A message and its delivery.
Kept(i) ==
  /\ item[i].status = "unwritten" => delivery[i] = "idle" /\ made[i] = 0 /\ item[i].payload = 0
  /\ Waiting(i) => item[i].payload \in {0, made[i]}
  /\ Waiting(i) /\ item[i].payload = 0 => Renewable(i)
  /\ Waiting(i) /\ delivery[i] = "posting" => item[i].payload # 0
  /\ delivery[i] = "encrypting" => Renewable(i)
  /\ delivery[i] = "posting" => Last(i) > 0 /\ posts[i][Last(i)].payload = made[i]
  /\ \A n \in 1 .. MaxMade : n < made[i] => Text(i, n) \in rejected

\* What was posted was encrypted, and what was answered as saved is there.
PostsFit(i) ==
  \A k \in 1 .. Last(i) :
    /\ posts[i][k].payload <= made[i]
    /\ posts[i][k].stage = "saved" => InLog(Text(i, posts[i][k].payload))

ItemsKept == \A i \in Items : Kept(i)
AllPostsFit == \A i \in Items : PostsFit(i)

\* What the server and the page have comes from posts.
LogFits ==
  /\ \A e \in log : e.text[2] <= made[e.text[1]]
  /\ \A t \in cache : InLog(t)

OutboxInv == OutboxTypeOK /\ ItemsKept /\ AllPostsFit /\ LogFits /\ StatusHonest

-----------------------------------------------------------------------------
(* The posts.                                                              *)

Stamp(i, k, a) == posts' = [posts EXCEPT ![i][k].stage = a]

\* A post that is answered, or given up.
LEMMA Stamped ==
  ASSUME OutboxTypeOK, NEW i \in Items, NEW k \in 1 .. Last(i),
         NEW a \in {"travelling", "over"} \cup Answers, Stamp(i, k, a)
  PROVE  /\ posts' \in [Items -> Seq(Attempt)]
         /\ \A j \in Items : Len(posts'[j]) = Len(posts[j])
         /\ \A j \in Items : \A n \in 1 .. Len(posts[j]) :
              /\ posts'[j][n].payload = posts[j][n].payload
              /\ posts'[j][n].stage = IF j = i /\ n = k THEN a ELSE posts[j][n].stage
<1>1. posts[i] \in Seq(Attempt) /\ k \in 1 .. Len(posts[i]) /\ posts[i][k] \in Attempt
  BY DEF OutboxTypeOK, Last
<1>2. PICK x : x = [posts[i][k] EXCEPT !.stage = a]
  OBVIOUS
<1>3. x \in Attempt /\ x.stage = a /\ x.payload = posts[i][k].payload
  BY <1>1, <1>2 DEF Attempt
<1>4. PICK s : s = [posts[i] EXCEPT ![k] = x]
  OBVIOUS
<1>5. s \in Seq(Attempt) /\ Len(s) = Len(posts[i]) /\ s[k] = x
      /\ \A n \in 1 .. Len(posts[i]) : n # k => s[n] = posts[i][n]
  BY <1>1, <1>3, <1>4
<1>6. posts' = [posts EXCEPT ![i] = s]
  BY <1>2, <1>4 DEF Stamp
<1>7. posts'[i] = s /\ \A j \in Items \ {i} : posts'[j] = posts[j]
  BY <1>6 DEF OutboxTypeOK
<1>. QED
  BY <1>3, <1>5, <1>6, <1>7 DEF OutboxTypeOK

\* A new post is the last.
LEMMA PostedLast ==
  ASSUME OutboxTypeOK, NEW i \in Items, NEW n \in 1 .. MaxMade
  PROVE  LET s == Append(posts[i], [stage |-> "travelling", payload |-> n]) IN
         /\ s \in Seq(Attempt) /\ Len(s) = Last(i) + 1 /\ Last(i) \in Nat
         /\ s[Last(i) + 1].payload = n /\ s[Last(i) + 1].stage = "travelling"
         /\ \A k \in 1 .. Last(i) : s[k] = posts[i][k]
<1>1. PICK x : x = [stage |-> "travelling", payload |-> n]
  OBVIOUS
<1>2. x \in Attempt /\ x.payload = n /\ x.stage = "travelling"
  BY <1>1 DEF Attempt
<1>3. posts[i] \in Seq(Attempt)
  BY DEF OutboxTypeOK
<1>4. PICK s : s = Append(posts[i], x)
  OBVIOUS
<1>5. /\ s \in Seq(Attempt) /\ Len(s) = Last(i) + 1 /\ Last(i) \in Nat
      /\ s[Last(i) + 1] = x /\ \A k \in 1 .. Last(i) : s[k] = posts[i][k]
  BY <1>2, <1>3, <1>4, AppendProperties DEF Last
<1>. QED
  BY <1>1, <1>2, <1>4, <1>5

-----------------------------------------------------------------------------
(* The steps.                                                              *)

\* Deliveries that start, of messages that have none.
LEMMA DeliverKeeps ==
  ASSUME OutboxInv, NEW I \in SUBSET Items, Deliver(I),
         \A i \in I : item[i].status \in {"unwritten", "failed"}
  PROVE  OutboxInv'
<1>1. PICK posting : posting = {i \in I : item[i].payload # 0}
  OBVIOUS
<1>2. /\ \A i \in I : delivery[i] = "idle"
      /\ item' = [i \in Items |-> IF i \in I THEN
                   [item[i] EXCEPT !.status = "sending", !.network = FALSE] ELSE item[i]]
      /\ delivery' = [i \in Items |-> CASE i \in posting -> "posting"
                                       [] i \in I \ posting -> "encrypting"
                                       [] OTHER -> delivery[i]]
      /\ posts' = [i \in Items |-> IF i \in posting
                    THEN Append(posts[i], [stage |-> "travelling", payload |-> item[i].payload])
                    ELSE posts[i]]
      /\ UNCHANGED <<made, log, accepts, session, day, cache, rejected>>
  BY <1>1 DEF Deliver, serverVars
<1>3. ASSUME NEW i \in Items \ I
      PROVE  /\ item'[i] = item[i] /\ delivery'[i] = delivery[i] /\ posts'[i] = posts[i]
  BY <1>1, <1>2, <1>3
<1>4. ASSUME NEW i \in I
      PROVE  /\ item'[i] \in Item /\ item'[i].status = "sending" /\ item'[i].payload = item[i].payload
             /\ item[i].status # "saved"
  <2>1. item[i] \in Item
    BY DEF OutboxInv, OutboxTypeOK
  <2>2. item'[i] = [item[i] EXCEPT !.status = "sending", !.network = FALSE]
    BY <1>2, <1>4
  <2>. QED
    BY <2>1, <2>2 DEF Item
<1>5. ASSUME NEW i \in posting
      PROVE  /\ item[i].payload = made[i] /\ made[i] \in 1 .. MaxMade /\ delivery'[i] = "posting"
             /\ posts'[i] \in Seq(Attempt) /\ Len(posts'[i]) = Last(i) + 1 /\ Last(i) \in Nat
             /\ posts'[i][Last(i) + 1].payload = made[i] /\ posts'[i][Last(i) + 1].stage = "travelling"
             /\ \A k \in 1 .. Last(i) : posts'[i][k] = posts[i][k]
  <2>1. i \in I /\ i \in Items /\ item[i].payload # 0 /\ Kept(i)
    BY <1>1, <1>5 DEF OutboxInv, ItemsKept
  <2>2. item[i].payload = made[i] /\ made[i] \in 1 .. MaxMade
    BY <2>1, OutboxAssumption DEF Kept, Waiting, OutboxInv, OutboxTypeOK
  <2>3. PICK s : s = Append(posts[i], [stage |-> "travelling", payload |-> made[i]])
    OBVIOUS
  <2>4. posts'[i] = s
    BY <1>2, <1>5, <2>1, <2>2, <2>3
  <2>5. delivery'[i] = "posting"
    BY <1>2, <1>5, <2>1
  <2>6. /\ s \in Seq(Attempt) /\ Len(s) = Last(i) + 1 /\ Last(i) \in Nat
        /\ s[Last(i) + 1].payload = made[i] /\ s[Last(i) + 1].stage = "travelling"
        /\ \A k \in 1 .. Last(i) : s[k] = posts[i][k]
    BY <2>1, <2>2, <2>3, PostedLast DEF OutboxInv
  <2>. QED
    BY <2>2, <2>4, <2>5, <2>6
<1>6. ASSUME NEW i \in I \ posting
      PROVE  item[i].payload = 0 /\ delivery'[i] = "encrypting" /\ posts'[i] = posts[i]
  BY <1>1, <1>2, <1>6
<1>7. OutboxTypeOK'
  <2>1. \A i \in Items : /\ item'[i] \in Item /\ posts'[i] \in Seq(Attempt)
                         /\ delivery'[i] \in {"idle", "encrypting", "posting"}
    BY <1>3, <1>4, <1>5, <1>6 DEF OutboxInv, OutboxTypeOK
  <2>2. item' \in [Items -> Item] /\ posts' \in [Items -> Seq(Attempt)]
        /\ delivery' \in [Items -> {"idle", "encrypting", "posting"}]
    BY <1>2, <2>1
  <2>. QED
    BY <1>2, <2>2 DEF OutboxInv, OutboxTypeOK
<1>8. ItemsKept'
  <2>1. ASSUME NEW i \in Items \ I
        PROVE  Kept(i)'
    BY <1>2, <1>3 DEF OutboxInv, ItemsKept, Kept, Waiting, Renewable, Last, Text
  <2>2. ASSUME NEW i \in posting, i \in Items
        PROVE  Kept(i)'
    <3>1. i \in I /\ Kept(i)
      BY <1>1, <2>2 DEF OutboxInv, ItemsKept
    <3>2. Last(i)' = Last(i) + 1 /\ Last(i) \in Nat /\ posts'[i][Last(i)'].payload = made[i]
      BY <1>5, <2>2 DEF Last
    <3>3. /\ item'[i].status = "sending" /\ item'[i].payload = made[i] /\ made[i] # 0
          /\ delivery'[i] = "posting" /\ UNCHANGED <<made, rejected>> /\ Last(i)' > 0
      <4>1. item'[i].status = "sending" /\ item'[i].payload = made[i]
        BY <1>4, <1>5, <2>2, <3>1
      <4>2. made[i] # 0 /\ delivery'[i] = "posting"
        BY <1>5, <2>2, OutboxAssumption
      <4>3. Last(i)' > 0
        BY <3>2
      <4>4. UNCHANGED <<made, rejected>>
        BY <1>2
      <4>. QED
        BY <4>1, <4>2, <4>3, <4>4
    <3>. QED
      BY <3>1, <3>2, <3>3 DEF Kept, Waiting, Text
  <2>3. ASSUME NEW i \in I \ posting
        PROVE  Kept(i)'
    <3>1. Kept(i) /\ item[i].payload = 0 /\ item[i].status \in {"unwritten", "failed"}
      BY <1>6 DEF OutboxInv, ItemsKept
    <3>2. Renewable(i)
      BY <3>1 DEF Kept, Waiting, Renewable
    <3>. QED
      BY <1>2, <1>4, <1>6, <3>1, <3>2 DEF Kept, Waiting, Text, Renewable
  <2>. QED
    BY <1>1, <2>1, <2>2, <2>3 DEF ItemsKept
<1>9. AllPostsFit'
  <2>1. ASSUME NEW i \in posting, i \in Items
        PROVE  PostsFit(i)'
    <3>1. PostsFit(i) /\ Last(i)' = Last(i) + 1
      BY <1>5, <2>1 DEF OutboxInv, AllPostsFit, Last
    <3>2. ASSUME NEW k \in 1 .. Last(i) + 1
          PROVE  posts'[i][k].payload <= made[i] /\ (posts'[i][k].stage = "saved" => InLog(Text(i, posts'[i][k].payload)))
      <4>1. CASE k \in 1 .. Last(i)
        BY <1>5, <2>1, <3>1, <4>1 DEF PostsFit
      <4>2. CASE k = Last(i) + 1
        BY <1>5, <2>1, <4>2
      <4>. QED
        BY <1>5, <2>1, <4>1, <4>2
    <3>. QED
      BY <1>2, <3>1, <3>2 DEF PostsFit, InLog, Text
  <2>2. ASSUME NEW i \in Items \ posting
        PROVE  PostsFit(i)'
    <3>1. posts'[i] = posts[i] /\ PostsFit(i)
      BY <1>3, <1>6 DEF OutboxInv, AllPostsFit
    <3>. QED
      BY <1>2, <3>1 DEF PostsFit, InLog, Text, Last
  <2>. QED
    BY <2>1, <2>2 DEF AllPostsFit
<1>10. LogFits'
  BY <1>2 DEF OutboxInv, LogFits, InLog
<1>11. StatusHonest'
  <2>1. \A i \in I : delivery'[i] # "idle"
    BY <1>1, <1>5, <1>6
  <2>. QED
    BY <1>2, <1>3, <1>4, <2>1 DEF OutboxInv, StatusHonest, Waiting
<1>. QED
  BY <1>7, <1>8, <1>9, <1>10, <1>11 DEF OutboxInv
\* What becomes of one message, while its encryptions, the log and what was
\* refused stay or grow.
LEMMA OneItem ==
  ASSUME OutboxInv, NEW i \in Items,
         item' \in [Items -> Item], delivery' \in [Items -> {"idle", "encrypting", "posting"}],
         posts' \in [Items -> Seq(Attempt)],
         \A j \in Items \ {i} : item'[j] = item[j] /\ delivery'[j] = delivery[j],
         \A j \in Items : Last(j)' = Last(j),
         \A j \in Items : \A k \in 1 .. Last(j) :
           /\ posts'[j][k].payload = posts[j][k].payload
           /\ posts'[j][k].stage = "saved" => posts[j][k].stage = "saved",
         UNCHANGED <<made, log, accepts, session, day>>,
         rejected \subseteq rejected', rejected' \subseteq Texts,
         cache' \subseteq Texts, \A t \in cache' : InLog(t),
         Kept(i)',
         Waiting(i)' => (item'[i].status = "sending" <=> delivery'[i] # "idle"),
         item'[i].status = "saved" => \E e \in log : e.text[1] = i
  PROVE  OutboxInv'
<1>1. OutboxTypeOK'
  BY DEF OutboxInv, OutboxTypeOK
<1>2. ItemsKept'
  <2>1. ASSUME NEW j \in Items \ {i}
        PROVE  Kept(j)'
    <3>1. Kept(j) /\ Last(j)' = Last(j) /\ item'[j] = item[j] /\ delivery'[j] = delivery[j]
      BY DEF OutboxInv, ItemsKept
    <3>2. Last(j) > 0 => posts'[j][Last(j)].payload = posts[j][Last(j)].payload
      <4>1. Last(j) \in Nat
        BY DEF OutboxInv, OutboxTypeOK, Last
      <4>. QED
        BY <4>1
    <3>. QED
      BY <3>1, <3>2 DEF Kept, Waiting, Renewable, Text
  <2>. QED
    BY <2>1 DEF ItemsKept
<1>3. AllPostsFit'
  <2>1. ASSUME NEW j \in Items, NEW k \in 1 .. Last(j)
        PROVE  /\ posts'[j][k].payload <= made[j]
               /\ posts'[j][k].stage = "saved" => InLog(Text(j, posts'[j][k].payload))
    BY DEF OutboxInv, AllPostsFit, PostsFit
  <2>2. ASSUME NEW j \in Items, NEW k \in 1 .. Last(j)
        PROVE  (/\ posts[j][k].payload <= made[j]
                /\ posts[j][k].stage = "saved" => InLog(Text(j, posts[j][k].payload)))'
    BY <2>1 DEF InLog, Text
  <2>3. ASSUME NEW j \in Items
        PROVE  PostsFit(j)'
    <3>1. Last(j)' = Last(j)
      OBVIOUS
    <3>. QED
      BY <2>2, <3>1 DEF PostsFit
  <2>. QED
    BY <2>3 DEF AllPostsFit
<1>4. LogFits'
  BY DEF OutboxInv, LogFits, InLog
<1>5. StatusHonest'
  BY DEF OutboxInv, StatusHonest, Waiting
<1>. QED
  BY <1>1, <1>2, <1>3, <1>4, <1>5 DEF OutboxInv

LEMMA DiscardKeeps ==
  ASSUME OutboxInv, NEW i \in Items, Discard(i)
  PROVE  OutboxInv'
<1>1. PICK x : x = [item[i] EXCEPT !.status = "discarded"]
  OBVIOUS
<1>2. item[i] \in Item /\ item[i].status = "failed" /\ delivery[i] = "idle" /\ Kept(i)
  BY DEF Discard, OutboxInv, OutboxTypeOK, StatusHonest, Waiting, ItemsKept
<1>3. x \in Item /\ x.status = "discarded"
  BY <1>1, <1>2 DEF Item
<1>4. item' = [item EXCEPT ![i] = x]
  BY <1>1 DEF Discard
<1>5. UNCHANGED <<made, delivery, posts, log, accepts, session, day, cache, rejected>>
  BY DEF Discard, serverVars
<1>6. Kept(i)'
  BY <1>2, <1>3, <1>4, <1>5 DEF Kept, Waiting, Renewable, Text, Last, OutboxInv, OutboxTypeOK
<1>7. /\ item' \in [Items -> Item] /\ delivery' \in [Items -> {"idle", "encrypting", "posting"}]
      /\ posts' \in [Items -> Seq(Attempt)] /\ rejected' \subseteq Texts /\ cache' \subseteq Texts
      /\ item'[i] = x /\ \A j \in Items \ {i} : item'[j] = item[j]
  BY <1>3, <1>4, <1>5 DEF OutboxInv, OutboxTypeOK
<1>8. \A t \in cache' : InLog(t)
  BY <1>5 DEF OutboxInv, LogFits
<1>9. ~Waiting(i)'
  BY <1>3, <1>7 DEF Waiting
<1>10. \A j \in Items : Last(j)' = Last(j)
  BY <1>5 DEF Last
<1>. QED
  BY <1>3, <1>5, <1>6, <1>7, <1>8, <1>9, <1>10, OneItem

\* A delivery that is over.
LEMMA SettleKeeps ==
  ASSUME OutboxInv, NEW i \in Items, NEW c \in Item, Settle(i, c), delivery[i] # "idle",
         posts' \in [Items -> Seq(Attempt)],
         \A j \in Items : Last(j)' = Last(j),
         \A j \in Items : \A k \in 1 .. Last(j) :
           /\ posts'[j][k].payload = posts[j][k].payload
           /\ posts'[j][k].stage = "saved" => posts[j][k].stage = "saved",
         UNCHANGED <<made, log, accepts, session, day>>,
         rejected \subseteq rejected', rejected' \subseteq Texts,
         cache' \subseteq Texts, \A t \in cache' : InLog(t),
         Waiting(i) => c.status \in {"failed", "saved"} /\ c.payload \in {0, made[i]},
         Waiting(i) /\ c.status = "failed" /\ c.payload = 0 => Renewable(i)',
         c.status = "saved" => \E e \in log : e.text[1] = i
  PROVE  OutboxInv'
<1>1. PICK x : x = Changed(i, c)
  OBVIOUS
<1>2. item[i] \in Item /\ Kept(i)
  BY DEF OutboxInv, OutboxTypeOK, ItemsKept
<1>3. x \in Item /\ item' = [item EXCEPT ![i] = x] /\ delivery' = [delivery EXCEPT ![i] = "idle"]
  BY <1>1, <1>2 DEF Settle, Changed
<1>4. /\ item' \in [Items -> Item] /\ delivery' \in [Items -> {"idle", "encrypting", "posting"}]
      /\ item'[i] = x /\ delivery'[i] = "idle"
      /\ \A j \in Items \ {i} : item'[j] = item[j] /\ delivery'[j] = delivery[j]
  BY <1>3 DEF OutboxInv, OutboxTypeOK
<1>5. \A n \in 1 .. MaxMade : n < made[i] => Text(i, n) \in rejected
  BY <1>2 DEF Kept
<1>6. CASE Waiting(i)
  <2>1. x = c
    BY <1>1, <1>6 DEF Changed
  <2>2. Kept(i)'
    BY <1>4, <1>5, <1>6, <2>1 DEF Kept, Waiting, Text
  <2>3. Waiting(i)' => (item'[i].status = "sending" <=> delivery'[i] # "idle")
    BY <1>4, <1>6, <2>1
  <2>4. item'[i].status = "saved" => \E e \in log : e.text[1] = i
    BY <1>4, <2>1
  <2>. QED
    BY <1>4, <2>2, <2>3, <2>4, OneItem
<1>7. CASE ~Waiting(i)
  <2>1. x = item[i]
    BY <1>1, <1>7 DEF Changed
  <2>2. Kept(i)'
    BY <1>2, <1>4, <1>5, <1>7, <2>1 DEF Kept, Waiting, Text
  <2>3. ~Waiting(i)'
    BY <1>4, <1>7, <2>1 DEF Waiting
  <2>4. item'[i].status = "saved" => \E e \in log : e.text[1] = i
    BY <1>4, <2>1 DEF OutboxInv, StatusHonest
  <2>. QED
    BY <1>4, <2>2, <2>3, <2>4, OneItem
<1>. QED
  BY <1>6, <1>7

LEMMA FailedIs ==
  ASSUME OutboxTypeOK, NEW i \in Items, NEW n \in BOOLEAN
  PROVE  /\ Failed(i, n) \in Item /\ Failed(i, n).status = "failed"
         /\ Failed(i, n).payload = IF n THEN item[i].payload ELSE 0
<1>1. PICK p : p = IF n THEN item[i].payload ELSE 0
  OBVIOUS
<1>2. p \in 0 .. MaxMade
  BY <1>1, OutboxAssumption DEF OutboxTypeOK, Item
<1>3. PICK x : x = [status |-> "failed", network |-> n, payload |-> p]
  OBVIOUS
<1>4. Failed(i, n) = x
  BY <1>1, <1>3 DEF Failed
<1>5. x \in Item
  BY <1>2, <1>3 DEF Item
<1>. QED
  BY <1>1, <1>3, <1>4, <1>5

\* Posts of which one is not waited for any more.
LEMMA OverPosts ==
  ASSUME OutboxInv, NEW i \in Items, delivery[i] = "posting",
         NEW a \in {"travelling", "over"}, Stamp(i, Last(i), a)
  PROVE  /\ posts' \in [Items -> Seq(Attempt)]
         /\ \A j \in Items : Last(j)' = Last(j)
         /\ \A j \in Items : \A k \in 1 .. Last(j) :
              /\ posts'[j][k].payload = posts[j][k].payload
              /\ posts'[j][k].stage = "saved" => posts[j][k].stage = "saved"
<1>1. Last(i) \in 1 .. Last(i)
  BY DEF OutboxInv, ItemsKept, Kept, OutboxTypeOK, Last
<1>2. PICK k \in 1 .. Last(i) : k = Last(i)
  BY <1>1
<1>3. Stamp(i, k, a)
  BY <1>2 DEF Stamp
<1>4. OutboxTypeOK /\ a \in {"travelling", "over"} \cup Answers
  BY DEF OutboxInv
<1>5. posts' \in [Items -> Seq(Attempt)]
  BY <1>3, <1>4, Stamped
<1>6. \A j \in Items : Len(posts'[j]) = Len(posts[j])
  BY <1>3, <1>4, Stamped
<1>7. \A j \in Items : \A n \in 1 .. Len(posts[j]) : posts'[j][n].payload = posts[j][n].payload
  BY <1>3, <1>4, Stamped
<1>8. \A j \in Items : \A n \in 1 .. Len(posts[j]) :
         posts'[j][n].stage = IF j = i /\ n = k THEN a ELSE posts[j][n].stage
  BY <1>3, <1>4, Stamped
<1>. QED
  BY <1>5, <1>6, <1>7, <1>8 DEF Last

\* A ciphertext that was answered, or given up, is the last one made.
LEMMA LastText ==
  ASSUME OutboxInv, NEW i \in Items, delivery[i] = "posting"
  PROVE  /\ Last(i) \in 1 .. Last(i) /\ posts[i][Last(i)].payload = made[i]
         /\ made[i] \in 1 .. MaxMade /\ Text(i, made[i]) \in Texts
         /\ posts[i][Last(i)].stage = "saved" => InLog(Text(i, made[i]))
<1>1. Last(i) \in 1 .. Last(i) /\ posts[i][Last(i)].payload = made[i]
  BY DEF OutboxInv, ItemsKept, Kept, OutboxTypeOK, Last
<1>2. posts[i][Last(i)] \in Attempt
  BY <1>1 DEF OutboxInv, OutboxTypeOK, Last
<1>3. made[i] \in 1 .. MaxMade
  BY <1>1, <1>2 DEF Attempt
<1>4. Text(i, made[i]) \in Texts
  BY <1>3 DEF Text, Texts
<1>5. posts[i][Last(i)].stage = "saved" => InLog(Text(i, made[i]))
  BY <1>1 DEF OutboxInv, AllPostsFit, PostsFit
<1>. QED
  BY <1>1, <1>3, <1>4, <1>5

\* The delivery fails and nothing but its post changes.
LEMMA FailKeeps ==
  ASSUME OutboxInv, NEW i \in Items, NEW n \in BOOLEAN, delivery[i] # "idle", Settle(i, Failed(i, n)),
         \/ posts' = posts
         \/ delivery[i] = "posting" /\ \E a \in {"travelling", "over"} : Stamp(i, Last(i), a),
         n = FALSE => Renewable(i)',
         n = TRUE => delivery[i] = "posting",
         rejected \subseteq rejected', rejected' \subseteq Texts,
         UNCHANGED <<made, log, accepts, session, day, cache>>
  PROVE  OutboxInv'
<1>1. PICK c : c = Failed(i, n)
  OBVIOUS
<1>2. c \in Item /\ c.status = "failed" /\ c.payload = IF n THEN item[i].payload ELSE 0
  BY <1>1, FailedIs DEF OutboxInv
<1>3. Kept(i) /\ (Waiting(i) => item[i].payload \in {0, made[i]})
  BY DEF OutboxInv, ItemsKept, Kept
<1>4. /\ posts' \in [Items -> Seq(Attempt)]
      /\ \A j \in Items : Last(j)' = Last(j)
      /\ \A j \in Items : \A k \in 1 .. Last(j) :
           /\ posts'[j][k].payload = posts[j][k].payload
           /\ posts'[j][k].stage = "saved" => posts[j][k].stage = "saved"
  <2>1. CASE posts' = posts
    BY <2>1 DEF OutboxInv, OutboxTypeOK, Last
  <2>2. CASE delivery[i] = "posting" /\ \E a \in {"travelling", "over"} : Stamp(i, Last(i), a)
    BY <2>2, OverPosts
  <2>. QED
    BY <2>1, <2>2
<1>5. Waiting(i) => c.status \in {"failed", "saved"} /\ c.payload \in {0, made[i]}
  BY <1>2, <1>3
<1>6. cache' \subseteq Texts /\ \A t \in cache' : InLog(t)
  BY DEF OutboxInv, OutboxTypeOK, LogFits
<1>7. Waiting(i) /\ c.status = "failed" /\ c.payload = 0 => Renewable(i)'
  BY <1>2, <1>3 DEF Kept
<1>8. c.status = "saved" => \E e \in log : e.text[1] = i
  BY <1>2
<1>9. Settle(i, c)
  BY <1>1
<1>. QED
  BY <1>2, <1>4, <1>5, <1>6, <1>7, <1>8, <1>9, SettleKeeps

LEMMA LoseKeeps ==
  ASSUME OutboxInv, NEW i \in Items, Lose(i)
  PROVE  OutboxInv'
<1>1. /\ delivery[i] = "posting" /\ Settle(i, Failed(i, TRUE))
      /\ UNCHANGED <<made, log, accepts, session, day, cache, rejected>>
  BY DEF Lose, serverVars
<1>2. \E a \in {"travelling", "over"} : Stamp(i, Last(i), a)
  <2>1. PICK s : s = posts[i][Last(i)].stage
    OBVIOUS
  <2>2. posts' = [posts EXCEPT ![i][Last(i)].stage = IF s = "travelling" THEN s ELSE "over"]
    BY <2>1 DEF Lose
  <2>3. PICK a \in {"travelling", "over"} : a = IF s = "travelling" THEN s ELSE "over"
    OBVIOUS
  <2>. QED
    BY <2>2, <2>3 DEF Stamp
<1>3. rejected \subseteq rejected' /\ rejected' \subseteq Texts
  BY <1>1 DEF OutboxInv, OutboxTypeOK
<1>4. PICK n \in BOOLEAN : n = TRUE
  OBVIOUS
<1>. QED
  BY <1>1, <1>2, <1>3, <1>4, FailKeeps

\* The messages of a page that goes, or that turn out to be saved, leave the
\* outbox; the deliveries may go on.
LEMMA GoneKeep ==
  ASSUME OutboxInv, item' \in [Items -> Item], delivery' \in [Items -> {"idle", "encrypting", "posting"}],
         posts' \in [Items -> Seq(Attempt)],
         \A j \in Items : Last(j)' = Last(j),
         \A j \in Items : \A k \in 1 .. Last(j) :
           /\ posts'[j][k].payload = posts[j][k].payload
           /\ posts'[j][k].stage = "saved" => posts[j][k].stage = "saved",
         UNCHANGED <<made, log, accepts, session, day, rejected>>,
         cache' \subseteq Texts, \A t \in cache' : InLog(t),
         \A j \in Items : delivery'[j] \in {delivery[j], "idle"},
         \A j \in Items :
           \/ item'[j] = item[j] /\ (~Waiting(j) \/ delivery'[j] = delivery[j])
           \/ /\ Waiting(j) /\ item'[j].status \in {"left", "saved"}
              /\ item'[j].status = "saved" => \E e \in log : e.text[1] = j
  PROVE  OutboxInv'
<1>1. OutboxTypeOK'
  BY DEF OutboxInv, OutboxTypeOK
<1>2. ItemsKept'
  <2>1. ASSUME NEW j \in Items
        PROVE  Kept(j)'
    <3>1. /\ Kept(j) /\ Last(j)' = Last(j) /\ Last(j) \in Nat /\ delivery'[j] \in {delivery[j], "idle"}
          /\ made'[j] = made[j] /\ rejected' = rejected
      BY DEF OutboxInv, ItemsKept, OutboxTypeOK, Last
    <3>2. Last(j) > 0 => posts'[j][Last(j)].payload = posts[j][Last(j)].payload
      <4>1. Last(j) \in Nat
        BY <3>1
      <4>. QED
        BY <4>1
    <3>3. delivery'[j] = "posting" => Last(j)' > 0 /\ posts'[j][Last(j)'].payload = made'[j]
      BY <3>1, <3>2 DEF Kept
    <3>4. CASE item'[j] = item[j] /\ ~Waiting(j)
      BY <3>1, <3>3, <3>4 DEF Kept, Waiting, Renewable, Text
    <3>5. CASE item'[j] = item[j] /\ delivery'[j] = delivery[j]
      BY <3>1, <3>3, <3>5 DEF Kept, Waiting, Renewable, Text
    <3>6. CASE item'[j].status \in {"left", "saved"}
      BY <3>1, <3>3, <3>6 DEF Kept, Waiting, Renewable, Text
    <3>. QED
      BY <3>4, <3>5, <3>6
  <2>. QED
    BY <2>1 DEF ItemsKept
<1>3. AllPostsFit'
  <2>1. ASSUME NEW j \in Items, NEW k \in 1 .. Last(j)
        PROVE  /\ posts'[j][k].payload <= made[j]
               /\ posts'[j][k].stage = "saved" => InLog(Text(j, posts'[j][k].payload))
    BY DEF OutboxInv, AllPostsFit, PostsFit
  <2>2. ASSUME NEW j \in Items, NEW k \in 1 .. Last(j)
        PROVE  (/\ posts[j][k].payload <= made[j]
                /\ posts[j][k].stage = "saved" => InLog(Text(j, posts[j][k].payload)))'
    BY <2>1 DEF InLog, Text
  <2>3. ASSUME NEW j \in Items
        PROVE  PostsFit(j)'
    <3>1. Last(j)' = Last(j)
      OBVIOUS
    <3>. QED
      BY <2>2, <3>1 DEF PostsFit
  <2>. QED
    BY <2>3 DEF AllPostsFit
<1>4. LogFits'
  BY DEF OutboxInv, LogFits, InLog
<1>5. StatusHonest'
  <2>1. ASSUME NEW j \in Items
        PROVE  /\ Waiting(j)' => (item'[j].status = "sending" <=> delivery'[j] # "idle")
               /\ item'[j].status = "saved" => \E e \in log : e.text[1] = j
    <3>1. /\ Waiting(j) => (item[j].status = "sending" <=> delivery[j] # "idle")
          /\ item[j].status = "saved" => \E e \in log : e.text[1] = j
      BY DEF OutboxInv, StatusHonest
    <3>2. CASE item'[j] = item[j] /\ (~Waiting(j) \/ delivery'[j] = delivery[j])
      BY <3>1, <3>2 DEF Waiting
    <3>3. CASE /\ item'[j].status \in {"left", "saved"}
               /\ item'[j].status = "saved" => \E e \in log : e.text[1] = j
      BY <3>1, <3>3 DEF Waiting
    <3>. QED
      BY <3>2, <3>3
  <2>. QED
    BY <2>1 DEF StatusHonest
<1>. QED
  BY <1>1, <1>2, <1>3, <1>4, <1>5 DEF OutboxInv

LEMMA LeftItems ==
  ASSUME OutboxTypeOK, item' = [j \in Items |-> Changed(j, [item[j] EXCEPT !.status = "left"])]
  PROVE  /\ item' \in [Items -> Item]
         /\ \A j \in Items : IF Waiting(j) THEN item'[j].status = "left" ELSE item'[j] = item[j]
<1>1. ASSUME NEW j \in Items
      PROVE  /\ item'[j] \in Item
             /\ IF Waiting(j) THEN item'[j].status = "left" ELSE item'[j] = item[j]
  <2>1. PICK x : x = [item[j] EXCEPT !.status = "left"]
    OBVIOUS
  <2>2. item[j] \in Item
    BY DEF OutboxTypeOK
  <2>3. x \in Item /\ x.status = "left"
    BY <2>1, <2>2 DEF Item
  <2>4. item'[j] = IF Waiting(j) THEN x ELSE item[j]
    BY <2>1 DEF Changed
  <2>. QED
    BY <2>2, <2>3, <2>4
<1>. QED
  BY <1>1

LEMMA LeavePageKeeps ==
  ASSUME OutboxInv, LeavePage
  PROVE  OutboxInv'
<1>1. /\ item' = [j \in Items |-> Changed(j, [item[j] EXCEPT !.status = "left"])]
      /\ UNCHANGED <<made, delivery, posts, log, accepts, session, day, cache, rejected>>
  BY DEF LeavePage, serverVars
<1>2. /\ item' \in [Items -> Item]
      /\ \A j \in Items : IF Waiting(j) THEN item'[j].status = "left" ELSE item'[j] = item[j]
  BY <1>1, LeftItems DEF OutboxInv
<1>3. /\ delivery' \in [Items -> {"idle", "encrypting", "posting"}]
      /\ posts' \in [Items -> Seq(Attempt)] /\ cache' \subseteq Texts /\ \A t \in cache' : InLog(t)
  BY <1>1 DEF OutboxInv, OutboxTypeOK, LogFits
<1>4. \A j \in Items : Last(j)' = Last(j)
  BY <1>1 DEF Last
<1>. QED
  BY <1>1, <1>2, <1>3, <1>4, GoneKeep

LEMMA AnswerKeeps ==
  ASSUME OutboxInv, NEW i \in Items, Answer(i)
  PROVE  OutboxInv'
<1>1. PICK t, s : t = Text(i, posts[i][Last(i)].payload) /\ s = posts[i][Last(i)].stage
  OBVIOUS
<1>2. /\ delivery[i] = "posting" /\ UNCHANGED <<made, log, accepts, session, day>>
      /\ \E a \in {"travelling", "over"} : Stamp(i, Last(i), a)
  <2>1. PICK a \in {"travelling", "over"} : a = "over"
    OBVIOUS
  <2>. QED
    BY <2>1 DEF Answer, serverVars, Stamp
<1>3. /\ posts' \in [Items -> Seq(Attempt)]
      /\ \A j \in Items : Last(j)' = Last(j)
      /\ \A j \in Items : \A k \in 1 .. Last(j) :
           /\ posts'[j][k].payload = posts[j][k].payload
           /\ posts'[j][k].stage = "saved" => posts[j][k].stage = "saved"
  BY <1>2, OverPosts
<1>4. /\ t = Text(i, made[i]) /\ t \in Texts
      /\ s = "saved" => InLog(t)
  BY <1>1, <1>2, LastText
<1>5. item[i] \in Item /\ Kept(i) /\ (\A y \in cache : InLog(y)) /\ cache \subseteq Texts /\ rejected \subseteq Texts
  BY DEF OutboxInv, OutboxTypeOK, ItemsKept, LogFits
<1>6. CASE /\ s = "saved" /\ Settle(i, [item[i] EXCEPT !.status = "saved"])
           /\ cache' \in {cache, cache \cup {t}} /\ UNCHANGED rejected
  <2>1. PICK c : c = [item[i] EXCEPT !.status = "saved"]
    OBVIOUS
  <2>2. c \in Item /\ c.status = "saved" /\ c.payload = item[i].payload
    BY <1>5, <2>1 DEF Item
  <2>3. \E e \in log : e.text[1] = i
    BY <1>4, <1>6 DEF InLog, Text
  <2>4. Waiting(i) => c.status \in {"failed", "saved"} /\ c.payload \in {0, made[i]}
    BY <1>5, <2>2 DEF Kept
  <2>5. cache' \subseteq Texts /\ \A y \in cache' : InLog(y)
    BY <1>4, <1>5, <1>6
  <2>6. rejected \subseteq rejected' /\ rejected' \subseteq Texts /\ Settle(i, c)
    BY <1>5, <1>6, <2>1
  <2>. QED
    BY <1>2, <1>3, <2>2, <2>3, <2>4, <2>5, <2>6, SettleKeeps
<1>7. CASE Settle(i, Failed(i, FALSE)) /\ rejected' = rejected \cup {t} /\ UNCHANGED cache
  <2>1. Renewable(i)'
    BY <1>2, <1>4, <1>7 DEF Renewable, Text
  <2>2. PICK n \in BOOLEAN : n = FALSE
    OBVIOUS
  <2>3. rejected \subseteq rejected' /\ rejected' \subseteq Texts
    BY <1>4, <1>5, <1>7
  <2>. QED
    BY <1>2, <1>7, <2>1, <2>2, <2>3, FailKeeps
<1>8. CASE Settle(i, Failed(i, TRUE)) /\ UNCHANGED <<cache, rejected>>
  <2>1. PICK n \in BOOLEAN : n = TRUE
    OBVIOUS
  <2>2. rejected \subseteq rejected' /\ rejected' \subseteq Texts
    BY <1>5, <1>8
  <2>. QED
    BY <1>2, <1>8, <2>1, <2>2, FailKeeps
<1>9. CASE /\ item' = [j \in Items |-> Changed(j, [item[j] EXCEPT !.status = "left"])]
           /\ delivery' = [delivery EXCEPT ![i] = "idle"] /\ cache' = {} /\ UNCHANGED rejected
  <2>1. /\ item' \in [Items -> Item]
        /\ \A j \in Items : IF Waiting(j) THEN item'[j].status = "left" ELSE item'[j] = item[j]
    BY <1>9, LeftItems DEF OutboxInv
  <2>2. /\ delivery' \in [Items -> {"idle", "encrypting", "posting"}]
        /\ \A j \in Items : delivery'[j] \in {delivery[j], "idle"}
    BY <1>9 DEF OutboxInv, OutboxTypeOK
  <2>3. cache' \subseteq Texts /\ \A y \in cache' : InLog(y)
    BY <1>9
  <2>. QED
    BY <1>2, <1>3, <1>9, <2>1, <2>2, <2>3, GoneKeep
<1>. QED
  BY <1>1, <1>6, <1>7, <1>8, <1>9 DEF Answer

LEMMA OutboxFetchKeeps ==
  ASSUME OutboxInv, Fetch
  PROVE  OutboxInv'
<1>1. PICK texts \in SUBSET {e.text : e \in log} :
        /\ cache' = cache \cup texts
        /\ item' = [i \in Items |->
             IF Waiting(i) /\ Text(i, item[i].payload) \in cache'
               THEN [item[i] EXCEPT !.status = "saved"] ELSE item[i]]
        /\ UNCHANGED <<made, delivery, posts, log, accepts, session, day, rejected>>
  BY DEF Fetch, serverVars
<1>2. cache' \subseteq Texts /\ \A t \in cache' : InLog(t)
  <2>1. \A t \in texts : t \in Texts /\ InLog(t)
    BY <1>1 DEF InLog, OutboxInv, OutboxTypeOK, Entry
  <2>. QED
    BY <1>1, <2>1 DEF OutboxInv, OutboxTypeOK, LogFits
<1>3. ASSUME NEW j \in Items
      PROVE  /\ item'[j] \in Item
             /\ \/ item'[j] = item[j]
                \/ /\ Waiting(j) /\ item'[j].status = "saved"
                   /\ \E e \in log : e.text[1] = j
  <2>1. PICK x : x = [item[j] EXCEPT !.status = "saved"]
    OBVIOUS
  <2>2. item[j] \in Item
    BY DEF OutboxInv, OutboxTypeOK
  <2>3. x \in Item /\ x.status = "saved"
    BY <2>1, <2>2 DEF Item
  <2>4. CASE Waiting(j) /\ Text(j, item[j].payload) \in cache'
    <3>1. item'[j] = x
      BY <1>1, <2>1, <2>4
    <3>2. InLog(Text(j, item[j].payload))
      BY <1>2, <2>4
    <3>. QED
      BY <2>3, <2>4, <3>1, <3>2 DEF InLog, Text
  <2>5. CASE ~(Waiting(j) /\ Text(j, item[j].payload) \in cache')
    BY <1>1, <2>2, <2>5
  <2>. QED
    BY <2>4, <2>5
<1>4. item' \in [Items -> Item]
  BY <1>1, <1>3
<1>5. /\ delivery' \in [Items -> {"idle", "encrypting", "posting"}]
      /\ posts' \in [Items -> Seq(Attempt)]
  BY <1>1 DEF OutboxInv, OutboxTypeOK
<1>6. \A j \in Items : Last(j)' = Last(j)
  BY <1>1 DEF Last
<1>. QED
  BY <1>1, <1>2, <1>3, <1>4, <1>5, <1>6, GoneKeep

LEMMA EncryptedKeeps ==
  ASSUME OutboxInv, NEW i \in Items, delivery[i] = "encrypting", made[i] < MaxMade,
         made' = [made EXCEPT ![i] = @ + 1],
         item' = [item EXCEPT ![i] = Changed(i, [@ EXCEPT !.payload = made[i] + 1])],
         delivery' = [delivery EXCEPT ![i] = "posting"],
         Posted(i, made[i] + 1),
         UNCHANGED <<log, accepts, session, day, cache, rejected>>
  PROVE  OutboxInv'
<1>1. PICK n : n = made[i] + 1
  OBVIOUS
<1>2. n \in 1 .. MaxMade /\ made[i] \in Nat /\ made[i] < n /\ n # 0 /\ n - 1 = made[i]
  <2>1. made[i] \in 0 .. MaxMade /\ MaxMade \in Nat
    BY OutboxAssumption DEF OutboxInv, OutboxTypeOK
  <2>2. ASSUME NEW y \in 0 .. MaxMade, y < MaxMade, NEW z, z = y + 1
        PROVE  z \in 1 .. MaxMade /\ y \in Nat /\ y < z /\ z # 0 /\ z - 1 = y
    BY <2>1, <2>2
  <2>. QED
    BY <1>1, <2>1, <2>2
<1>3. item[i] \in Item /\ Kept(i) /\ Renewable(i) /\ PostsFit(i)
  BY DEF OutboxInv, OutboxTypeOK, ItemsKept, AllPostsFit, Kept
<1>4. PICK x : x = [item[i] EXCEPT !.payload = n]
  OBVIOUS
<1>5. x \in Item /\ x.payload = n /\ x.status = item[i].status
  BY <1>2, <1>3, <1>4 DEF Item
<1>6. PICK y : y = IF Waiting(i) THEN x ELSE item[i]
  OBVIOUS
<1>7. item' = [item EXCEPT ![i] = y]
  BY <1>1, <1>4, <1>6 DEF Changed
<1>8. y \in Item /\ y.status = item[i].status /\ (Waiting(i) => y.payload = n)
  BY <1>3, <1>5, <1>6
<1>9. PICK s : s = Append(posts[i], [stage |-> "travelling", payload |-> n])
  OBVIOUS
<1>10. /\ s \in Seq(Attempt) /\ Len(s) = Last(i) + 1 /\ Last(i) \in Nat
       /\ s[Last(i) + 1].payload = n /\ s[Last(i) + 1].stage = "travelling"
       /\ \A k \in 1 .. Last(i) : s[k] = posts[i][k]
  BY <1>2, <1>9, PostedLast DEF OutboxInv
<1>11. posts' = [posts EXCEPT ![i] = s] /\ made' = [made EXCEPT ![i] = n]
  BY <1>1, <1>9 DEF Posted
<1>12. /\ item'[i] = y /\ delivery'[i] = "posting" /\ posts'[i] = s /\ made'[i] = n
       /\ \A j \in Items \ {i} : /\ item'[j] = item[j] /\ delivery'[j] = delivery[j]
                                 /\ posts'[j] = posts[j] /\ made'[j] = made[j]
  BY <1>7, <1>11 DEF OutboxInv, OutboxTypeOK
<1>13. OutboxTypeOK'
  <2>1. item' \in [Items -> Item] /\ posts' \in [Items -> Seq(Attempt)]
    BY <1>7, <1>8, <1>10, <1>11 DEF OutboxInv, OutboxTypeOK
  <2>2. delivery' \in [Items -> {"idle", "encrypting", "posting"}]
    BY DEF OutboxInv, OutboxTypeOK
  <2>3. made' \in [Items -> 0 .. MaxMade]
    <3>1. n \in 0 .. MaxMade
      BY <1>2
    <3>. QED
      BY <1>11, <3>1 DEF OutboxInv, OutboxTypeOK
  <2>. QED
    BY <2>1, <2>2, <2>3 DEF OutboxInv, OutboxTypeOK
<1>14. ItemsKept'
  <2>1. ASSUME NEW j \in Items \ {i}
        PROVE  Kept(j)'
    BY <1>12 DEF OutboxInv, ItemsKept, Kept, Waiting, Renewable, Last, Text
  <2>2. Kept(i)'
    <3>1. item[i].status # "unwritten"
      BY <1>3 DEF Kept
    <3>2. \A m \in 1 .. MaxMade : m < n => Text(i, m) \in rejected
      <4>1. ASSUME NEW m \in 1 .. MaxMade, m < n
            PROVE  Text(i, m) \in rejected
        <5>1. CASE m < made[i]
          BY <1>3, <5>1 DEF Kept
        <5>2. CASE m = made[i]
          <6>1. made[i] # 0
            BY <5>2
          <6>. QED
            BY <1>3, <5>2, <6>1 DEF Renewable
        <5>. QED
          BY <1>2, <4>1, <5>1, <5>2
      <4>. QED
        BY <4>1
    <3>3. Waiting(i)' => Waiting(i)
      BY <1>8, <1>12 DEF Waiting
    <3>4. Last(i)' = Last(i) + 1 /\ Last(i)' > 0
      BY <1>10, <1>12 DEF Last
    <3>5. posts'[i][Last(i)'].payload = n
      BY <1>10, <1>12, <3>4
    <3>6. Waiting(i)' => item'[i].payload = n
      BY <1>8, <1>12, <3>3
    <3>. QED
      BY <1>2, <1>8, <1>12, <3>1, <3>2, <3>4, <3>5, <3>6 DEF Kept, Text
  <2>. QED
    BY <2>1, <2>2 DEF ItemsKept
<1>15. AllPostsFit'
  <2>1. ASSUME NEW j \in Items \ {i}
        PROVE  PostsFit(j)'
    <3>1. PostsFit(j) /\ posts'[j] = posts[j] /\ made'[j] = made[j] /\ log' = log
      BY <1>12 DEF OutboxInv, AllPostsFit
    <3>. QED
      BY <3>1 DEF PostsFit, InLog, Text, Last
  <2>2. ASSUME NEW k \in 1 .. Last(i) + 1
        PROVE  s[k].payload <= n /\ (s[k].stage = "saved" => InLog(Text(i, s[k].payload)))
    <3>1. CASE k \in 1 .. Last(i)
      <4>1. posts[i][k].payload <= made[i] /\ posts[i][k] \in Attempt
        BY <1>3, <3>1 DEF PostsFit, OutboxInv, OutboxTypeOK, Last
      <4>2. posts[i][k].payload \in Nat
        BY <4>1 DEF Attempt
      <4>3. s[k] = posts[i][k] /\ posts[i][k].payload <= n
        BY <1>2, <1>10, <3>1, <4>1, <4>2
      <4>. QED
        BY <1>3, <3>1, <4>3 DEF PostsFit
    <3>2. CASE k = Last(i) + 1
      BY <1>2, <1>10, <3>2
    <3>. QED
      BY <1>10, <3>1, <3>2
  <2>3. PostsFit(i)'
    <3>1. Last(i)' = Last(i) + 1
      BY <1>10, <1>12 DEF Last
    <3>. QED
      BY <1>12, <2>2, <3>1 DEF PostsFit, InLog, Text
  <2>. QED
    BY <2>1, <2>3 DEF AllPostsFit
<1>16. LogFits'
  <2>1. ASSUME NEW e \in log
        PROVE  e.text[2] <= made'[e.text[1]]
    <3>1. e.text[1] \in Items /\ e.text[2] \in Nat /\ e.text[2] <= made[e.text[1]]
      BY DEF OutboxInv, LogFits, OutboxTypeOK, Entry, Texts
    <3>2. CASE e.text[1] = i
      BY <1>2, <1>12, <3>1, <3>2
    <3>. QED
      BY <1>12, <3>1, <3>2
  <2>. QED
    BY <2>1 DEF OutboxInv, LogFits, InLog
<1>17. StatusHonest'
  BY <1>8, <1>12 DEF OutboxInv, StatusHonest, Waiting
<1>. QED
  BY <1>13, <1>14, <1>15, <1>16, <1>17 DEF OutboxInv

LEMMA EncryptKeeps ==
  ASSUME OutboxInv, NEW i \in Items, Encrypt(i)
  PROVE  OutboxInv'
<1>1. delivery[i] = "encrypting" /\ UNCHANGED <<log, accepts, session, day, cache, rejected>>
  BY DEF Encrypt, serverVars
<1>2. CASE Settle(i, Failed(i, FALSE)) /\ UNCHANGED <<made, posts>>
  <2>1. PICK n \in BOOLEAN : n = FALSE
    OBVIOUS
  <2>2. Renewable(i)'
    BY <1>1, <1>2 DEF OutboxInv, ItemsKept, Kept, Renewable, Text
  <2>3. rejected \subseteq rejected' /\ rejected' \subseteq Texts
    BY <1>1 DEF OutboxInv, OutboxTypeOK
  <2>. QED
    BY <1>1, <1>2, <2>1, <2>2, <2>3, FailKeeps
<1>. QED
  BY <1>1, <1>2, EncryptedKeeps DEF Encrypt

\* The server's answer to a post, which the browser may have given up.
LEMMA ReplyKeeps ==
  ASSUME OutboxInv, NEW i \in Items, NEW k \in 1 .. Last(i),
         NEW a \in {"travelling", "over"} \cup Answers, Stamp(i, k, a),
         log' \subseteq Entry, log \subseteq log',
         \A e \in log' \ log : e.text = Text(i, posts[i][k].payload),
         a = "saved" => \E e \in log' : e.text = Text(i, posts[i][k].payload),
         UNCHANGED <<item, made, delivery, accepts, session, day, cache, rejected>>
  PROVE  OutboxInv'
<1>0. OutboxTypeOK
  BY DEF OutboxInv
<1>1. /\ posts' \in [Items -> Seq(Attempt)]
      /\ \A j \in Items : Len(posts'[j]) = Len(posts[j])
      /\ \A j \in Items : \A n \in 1 .. Len(posts[j]) :
           /\ posts'[j][n].payload = posts[j][n].payload
           /\ posts'[j][n].stage = IF j = i /\ n = k THEN a ELSE posts[j][n].stage
  <2>1. posts' \in [Items -> Seq(Attempt)]
    BY <1>0, Stamped
  <2>2. ASSUME NEW j \in Items
        PROVE  Len(posts'[j]) = Len(posts[j])
    BY <1>0, Stamped
  <2>3. ASSUME NEW j \in Items, NEW n \in 1 .. Len(posts[j])
        PROVE  /\ posts'[j][n].payload = posts[j][n].payload
               /\ posts'[j][n].stage = IF j = i /\ n = k THEN a ELSE posts[j][n].stage
    BY <1>0, Stamped
  <2>. QED
    BY <2>1, <2>2, <2>3
<1>2. OutboxTypeOK'
  BY <1>1 DEF OutboxInv, OutboxTypeOK
<1>3. \A j \in Items : Last(j)' = Last(j)
  BY <1>1 DEF Last
<1>4. ItemsKept'
  <2>1. ASSUME NEW j \in Items
        PROVE  Kept(j)'
    <3>1. Kept(j) /\ Last(j)' = Last(j) /\ Last(j) = Len(posts[j]) /\ Last(j) \in Nat
      BY <1>3 DEF OutboxInv, ItemsKept, OutboxTypeOK, Last
    <3>2. Last(j) > 0 => posts'[j][Last(j)].payload = posts[j][Last(j)].payload
      BY <1>1, <3>1
    <3>. QED
      BY <3>1, <3>2 DEF Kept, Waiting, Renewable, Text
  <2>. QED
    BY <2>1 DEF ItemsKept
<1>5. \A t : InLog(t) => InLog(t)'
  BY DEF InLog
<1>6. AllPostsFit'
  <2>1. ASSUME NEW j \in Items, NEW n \in 1 .. Last(j)
        PROVE  /\ posts'[j][n].payload <= made[j]
               /\ posts'[j][n].stage = "saved" => \E e \in log' : e.text = Text(j, posts'[j][n].payload)
    <3>1. /\ posts[j][n].payload <= made[j] /\ posts'[j][n].payload = posts[j][n].payload
          /\ posts[j][n].stage = "saved" => InLog(Text(j, posts[j][n].payload))
          /\ posts'[j][n].stage = IF j = i /\ n = k THEN a ELSE posts[j][n].stage
      BY <1>1 DEF OutboxInv, AllPostsFit, PostsFit, Last
    <3>2. CASE j = i /\ n = k
      BY <3>1, <3>2
    <3>3. CASE ~(j = i /\ n = k)
      BY <3>1, <3>3 DEF InLog
    <3>. QED
      BY <3>2, <3>3
  <2>2. ASSUME NEW j \in Items
        PROVE  PostsFit(j)'
    BY <1>3, <2>1 DEF PostsFit, InLog, Text
  <2>. QED
    BY <2>2 DEF AllPostsFit
<1>7. LogFits'
  <2>1. posts[i][k].payload <= made[i]
    BY DEF OutboxInv, AllPostsFit, PostsFit
  <2>2. \A e \in log' : e.text[2] <= made[e.text[1]]
    <3>1. ASSUME NEW e \in log' \ log
          PROVE  e.text[2] <= made[e.text[1]]
      BY <2>1, <3>1 DEF Text
    <3>. QED
      BY <3>1 DEF OutboxInv, LogFits
  <2>3. \A t \in cache' : InLog(t)'
    BY <1>5 DEF OutboxInv, LogFits
  <2>. QED
    BY <2>2, <2>3 DEF LogFits, InLog
<1>8. StatusHonest'
  BY DEF OutboxInv, StatusHonest, Waiting
<1>. QED
  BY <1>2, <1>4, <1>6, <1>7, <1>8 DEF OutboxInv

LEMMA HandleKeeps ==
  ASSUME OutboxInv, NEW i \in Items, NEW k \in 1 .. Last(i), Handle(i, k)
  PROVE  OutboxInv'
<1>1. PICK e : e = [text |-> Text(i, posts[i][k].payload), day |-> day]
  OBVIOUS
<1>2. e \in Entry /\ e.text = Text(i, posts[i][k].payload) /\ log \subseteq Entry
  <2>1. posts[i][k] \in Attempt /\ day \in 0 .. MaxDay /\ log \subseteq Entry
    BY DEF OutboxInv, OutboxTypeOK, Last
  <2>2. Text(i, posts[i][k].payload) \in Texts
    BY <2>1 DEF Attempt, Texts, Text
  <2>. QED
    BY <1>1, <2>1, <2>2 DEF Entry
<1>3. UNCHANGED <<item, made, delivery, accepts, session, day, cache, rejected>>
  BY DEF Handle
<1>4. PICK r \in {"saved", "refused", "expired", "error"} :
        /\ posts' = [posts EXCEPT ![i][k].stage =
             IF delivery[i] = "posting" /\ k = Last(i) THEN r ELSE "over"]
        /\ log' = IF r = "saved" /\ ~Server!Repeats(e) THEN log \cup {e} ELSE log
  <2>1. CASE /\ session /\ accepts
             /\ log' = IF Server!Repeats(e) THEN log ELSE log \cup {e}
             /\ posts' = [posts EXCEPT ![i][k].stage =
                  IF delivery[i] = "posting" /\ k = Last(i) THEN "saved" ELSE "over"]
    <3>1. PICK r \in {"saved", "refused", "expired", "error"} : r = "saved"
      OBVIOUS
    <3>. QED
      BY <2>1, <3>1
  <2>2. CASE /\ log' = log
             /\ posts' = [posts EXCEPT ![i][k].stage =
                  IF delivery[i] = "posting" /\ k = Last(i) THEN "refused" ELSE "over"]
    <3>1. PICK r \in {"saved", "refused", "expired", "error"} : r = "refused"
      OBVIOUS
    <3>. QED
      BY <2>2, <3>1
  <2>3. CASE /\ log' = log
             /\ posts' = [posts EXCEPT ![i][k].stage =
                  IF delivery[i] = "posting" /\ k = Last(i) THEN "expired" ELSE "over"]
    <3>1. PICK r \in {"saved", "refused", "expired", "error"} : r = "expired"
      OBVIOUS
    <3>. QED
      BY <2>3, <3>1
  <2>4. CASE /\ log' = log
             /\ posts' = [posts EXCEPT ![i][k].stage =
                  IF delivery[i] = "posting" /\ k = Last(i) THEN "error" ELSE "over"]
    <3>1. PICK r \in {"saved", "refused", "expired", "error"} : r = "error"
      OBVIOUS
    <3>. QED
      BY <2>4, <3>1
  <2>. QED
    BY <1>1, <2>1, <2>2, <2>3, <2>4 DEF Handle
<1>5. PICK a \in {"travelling", "over"} \cup Answers :
        a = IF delivery[i] = "posting" /\ k = Last(i) THEN r ELSE "over"
  BY DEF Answers
<1>6. Stamp(i, k, a)
  BY <1>4, <1>5 DEF Stamp
<1>7. log' \subseteq Entry /\ log \subseteq log' /\ \A f \in log' \ log : f.text = Text(i, posts[i][k].payload)
  BY <1>2, <1>4
<1>8. a = "saved" => \E f \in log' : f.text = Text(i, posts[i][k].payload)
  <2>1. Server!Repeats(e) => \E f \in log : f.text = e.text
    BY DEF Server!Repeats
  <2>. QED
    BY <1>2, <1>4, <1>5, <2>1
<1>. QED
  BY <1>3, <1>6, <1>7, <1>8, ReplyKeeps

LEMMA SameKeeps ==
  ASSUME OutboxInv, UNCHANGED <<item, made, delivery, posts, log, cache, rejected>>,
         accepts' \in BOOLEAN, session' \in BOOLEAN, day' \in 0 .. MaxDay
  PROVE  OutboxInv'
<1>1. OutboxTypeOK'
  BY DEF OutboxInv, OutboxTypeOK
<1>2. ItemsKept'
  BY DEF OutboxInv, ItemsKept, Kept, Waiting, Renewable, Last, Text
<1>3. AllPostsFit' /\ LogFits'
  BY DEF OutboxInv, AllPostsFit, PostsFit, LogFits, InLog, Text, Last
<1>4. StatusHonest'
  BY DEF OutboxInv, StatusHonest, Waiting
<1>. QED
  BY <1>1, <1>2, <1>3, <1>4 DEF OutboxInv

-----------------------------------------------------------------------------
LEMMA OutboxInitInv == OutboxInit => OutboxInv
<1>. SUFFICES ASSUME OutboxInit PROVE OutboxInv
  OBVIOUS
<1>1. /\ \A i \in Items : /\ item[i] = [status |-> "unwritten", payload |-> 0, network |-> FALSE]
                          /\ made[i] = 0 /\ delivery[i] = "idle" /\ posts[i] = <<>>
      /\ log = {} /\ cache = {} /\ rejected = {} /\ accepts = TRUE /\ session = TRUE /\ day = 0
  BY DEF OutboxInit
<1>2. OutboxTypeOK
  <2>1. [status |-> "unwritten", payload |-> 0, network |-> FALSE] \in Item
    BY OutboxAssumption DEF Item
  <2>2. item \in [Items -> Item]
    BY <2>1 DEF OutboxInit
  <2>3. made \in [Items -> 0 .. MaxMade] /\ posts \in [Items -> Seq(Attempt)] /\ day \in 0 .. MaxDay
    <3>1. <<>> \in Seq(Attempt)
      OBVIOUS
    <3>. QED
      BY <3>1, OutboxAssumption DEF OutboxInit
  <2>. QED
    BY <2>2, <2>3 DEF OutboxInit, OutboxTypeOK
<1>3. ItemsKept
  BY <1>1, OutboxAssumption DEF ItemsKept, Kept, Waiting, Renewable
<1>4. AllPostsFit /\ LogFits
  BY <1>1 DEF AllPostsFit, PostsFit, Last, LogFits
<1>5. StatusHonest
  BY <1>1 DEF StatusHonest, Waiting
<1>. QED
  BY <1>2, <1>3, <1>4, <1>5 DEF OutboxInv

LEMMA OutboxNextInv == OutboxInv /\ [OutboxNext]_outboxVars => OutboxInv'
<1>. SUFFICES ASSUME OutboxInv, [OutboxNext]_outboxVars PROVE OutboxInv'
  OBVIOUS
<1>1. ASSUME NEW i \in Items, Enqueue(i) \/ Retry(i)
      PROVE  OutboxInv'
  <2>1. PICK I \in SUBSET Items : I = {i}
    OBVIOUS
  <2>2. Deliver(I) /\ \A j \in I : item[j].status \in {"unwritten", "failed"}
    BY <1>1, <2>1 DEF Enqueue, Retry, InField
  <2>. QED
    BY <2>2, DeliverKeeps
<1>2. ASSUME Online
      PROVE  OutboxInv'
  <2>1. PICK I \in SUBSET Items : I = {i \in Items : item[i].status = "failed" /\ item[i].network}
    OBVIOUS
  <2>2. Deliver(I) /\ \A j \in I : item[j].status \in {"unwritten", "failed"}
    BY <1>2, <2>1 DEF Online
  <2>. QED
    BY <2>2, DeliverKeeps
<1>3. ASSUME NEW i \in Items, NEW k \in 1 .. Last(i), Handle(i, k)
      PROVE  OutboxInv'
  BY <1>3, HandleKeeps
<1>4. ASSUME Toggle \/ ExpireOrSignIn
      PROVE  OutboxInv'
  BY <1>4, SameKeeps DEF Toggle, ExpireOrSignIn, OutboxInv, OutboxTypeOK
<1>5. ASSUME NextDay
      PROVE  OutboxInv'
  <2>1. day' \in 0 .. MaxDay
    BY <1>5, OutboxAssumption DEF NextDay, OutboxInv, OutboxTypeOK
  <2>. QED
    BY <1>5, <2>1, SameKeeps DEF NextDay, OutboxInv, OutboxTypeOK
<1>6. ASSUME UNCHANGED outboxVars
      PROVE  OutboxInv'
  BY <1>6, SameKeeps DEF outboxVars, serverVars, OutboxInv, OutboxTypeOK
<1>. QED
  BY <1>1, <1>2, <1>3, <1>4, <1>5, <1>6, EncryptKeeps, AnswerKeeps, LoseKeeps, DiscardKeeps,
     OutboxFetchKeeps, LeavePageKeeps DEF OutboxNext

\* The messages, their deliveries and posts and the conversation are at every
\* moment as the invariant relates them, whatever is lost, late or refused.
THEOREM OutboxInvariant == OutboxSpec => []OutboxInv
<1>. QED
  BY OutboxInitInv, OutboxNextInv, PTL DEF OutboxSpec

\* The outbox, its deliveries and the conversation have the declared shapes.
THEOREM OutboxTyping == OutboxSpec => []OutboxTypeOK
<1>1. OutboxInv => OutboxTypeOK
  BY DEF OutboxInv
<1>. QED
  BY <1>1, OutboxInvariant, PTL

\* "Invio..." is shown exactly while a delivery is under way, and what leaves
\* the outbox as saved is in the conversation.
THEOREM StatusesHonest == OutboxSpec => []StatusHonest
<1>1. OutboxInv => StatusHonest
  BY DEF OutboxInv
<1>. QED
  BY <1>1, OutboxInvariant, PTL

\* However many answers are lost, posts given up and pages left, a message is
\* stored under two ciphertexts only when the first was refused.
THEOREM DuplicatesHadRefusals == OutboxSpec => []DuplicatesWereRefused
<1>1. OutboxInv => DuplicatesWereRefused
  <2>. SUFFICES ASSUME OutboxInv, NEW i \in Items, NEW n \in 1 .. MaxMade, NEW m \in 1 .. MaxMade,
                       n < m, Stored(i, m)
                PROVE  Text(i, n) \in rejected
    BY DEF DuplicatesWereRefused
  <2>1. PICK e \in log : e.text = Text(i, m)
    BY DEF Stored
  <2>2. m <= made[i]
    BY <2>1 DEF OutboxInv, LogFits, Text
  <2>3. n < made[i]
    BY <2>2, OutboxAssumption DEF OutboxInv, OutboxTypeOK
  <2>. QED
    BY <2>3 DEF OutboxInv, ItemsKept, Kept
<1>. QED
  BY <1>1, OutboxInvariant, PTL

-----------------------------------------------------------------------------
(***************************************************************************)
(* What holds of Thread for pages of any size and any bounds.  Nothing is  *)
(* known of the messages saved late.  Without them the loaded messages     *)
(* reach from the newest to the cursor, except for the holes that an own   *)
(* message shown early explains; so do those that a load has gathered, and *)
(* a latest page leaves nothing out among its messages.                    *)
(***************************************************************************)

\* These messages, down to a cursor, leave out only what is accounted for.
Explained(ids, c) ==
  \A x \in stored \ late :
    c <= x /\ x \notin ids /\ (\E y \in ids : y > x) => \E m \in alone : m > x

\* Each page has a message at least.
PagesFit == HasData => low >= 1 /\ pages + low <= Top /\ Explained(shown, low)

\* What a load has read has all it cannot do without, down to its cursor.
LoadFits ==
  Loading =>
    /\ load.low >= 1 /\ load.pages + load.low <= Top
    /\ IF load.left = 0 THEN load.pages > 0 ELSE load.low > 1
    /\ load.at \subseteq stored
    /\ load.pages > 0 => \A x \in load.at : load.low <= x => x \in load.shown
    /\ load.pages = 0 => load.kind = "all" /\ load.shown = {} /\ load.low = Top
    /\ load.kind = "older" => load.at \subseteq load.shown
    /\ Explained(load.shown, load.low)

\* What a latest page does not have is below it.
LatestFits ==
  \A l \in pulled, x \in stored \ late :
    x \notin l.items /\ (\E y \in l.items : y > x) => l.more /\ \A k \in l.items : k > x

ThreadInv == ThreadTypeOK /\ PagesFit /\ LoadFits /\ LatestFits

\* A message that is new and not saved late is above all those before it.
Grows ==
  /\ stored \subseteq stored' /\ alone \subseteq alone'
  /\ \A x \in stored' \ late' : x \in stored \ late \/ \A y \in stored : ~(y > x)

-----------------------------------------------------------------------------
(* Pages.                                                                  *)

LEMMA SmallestOf ==
  ASSUME NEW S \in SUBSET Nat, S # {}
  PROVE  \E x \in S : \A y \in S : x <= y
<1>1. IsWellFoundedOn({p \in Nat \X Nat : p[1] < p[2]}, Nat)
  BY NatLessThanWellFounded, Zenon DEF OpToRel
<1>2. PICK R : R = {p \in Nat \X Nat : p[1] < p[2]}
  OBVIOUS
<1>3. IsWellFoundedOn(R, Nat)
  BY <1>1, <1>2, Zenon
<1>4. PICK x \in S : \A y \in S : ~(<<y, x>> \in R)
  BY <1>3, WFMin, Zenon
<1>5. ASSUME NEW y \in S
      PROVE  x <= y
  <2>1. x \in Nat /\ y \in Nat
    OBVIOUS
  <2>2. ~(y < x)
    BY <1>2, <1>4, <2>1
  <2>. QED
    BY <2>1, <2>2
<1>. QED
  BY <1>5

LEMMA LargestOf ==
  ASSUME NEW b \in Nat, NEW S \in SUBSET (1 .. b), S # {}
  PROVE  \E x \in S : \A y \in S : y <= x
<1>1. PICK T : T = {n \in Nat : b - n \in S}
  OBVIOUS
<1>2. PICK s \in S : TRUE
  OBVIOUS
<1>3. s \in Nat /\ s <= b /\ b - s \in Nat /\ b - (b - s) = s
  OBVIOUS
<1>4. b - s \in T
  BY <1>1, <1>3
<1>5. PICK t \in T : \A u \in T : t <= u
  BY <1>1, <1>4, SmallestOf
<1>6. t \in Nat /\ b - t \in S
  BY <1>1, <1>5
<1>7. ASSUME NEW y \in S
      PROVE  y <= b - t
  <2>1. y \in Nat /\ y <= b /\ b - y \in Nat /\ b - (b - y) = y
    OBVIOUS
  <2>2. b - y \in T
    BY <1>1, <2>1
  <2>3. t <= b - y
    BY <1>5, <2>2
  <2>. QED
    BY <1>6, <2>1, <2>3
<1>. QED
  BY <1>6, <1>7

LEMMA BelowFinite ==
  ASSUME NEW ids \in SUBSET Ids, NEW c
  PROVE  Below(ids, c) \in SUBSET (1 .. MaxStored) /\ IsFiniteSet(Below(ids, c)) /\ Below(ids, c) \subseteq Nat
<1>1. MaxStored \in Nat /\ IsFiniteSet(1 .. MaxStored) /\ 1 .. MaxStored \subseteq Nat
  BY ThreadAssumption, FS_Interval
<1>2. PICK B : B = Below(ids, c)
  OBVIOUS
<1>3. B \in SUBSET (1 .. MaxStored)
  BY <1>2 DEF Below, Ids
<1>4. IsFiniteSet(B)
  BY <1>1, <1>3, FS_Subset
<1>. QED
  BY <1>1, <1>2, <1>3, <1>4

\* A page has everything from its oldest message to the cursor it is read at.
LEMMA PageFull ==
  ASSUME NEW ids \in SUBSET Ids, NEW c \in 0 .. Top,
         NEW x \in ids, x < c, NEW y \in PageBelow(ids, c), y <= x
  PROVE  x \in PageBelow(ids, c)
<1>1. MaxStored \in Nat /\ P \in Nat
  BY ThreadAssumption
<1>2. PICK B : B = Below(ids, c)
  OBVIOUS
<1>3. IsFiniteSet(B) /\ B \subseteq Nat
  BY <1>2, BelowFinite
<1>4. x \in B /\ y \in B /\ B \subseteq Nat
  BY <1>2, <1>3 DEF Below, PageBelow
<1>5. PICK X, Y : X = {z \in B : x < z} /\ Y = {z \in B : y < z}
  OBVIOUS
<1>6. X \in SUBSET Y /\ Y \in SUBSET B
  <2>1. ASSUME NEW z \in B, x < z
        PROVE  y < z
    <3>1. x \in Nat /\ y \in Nat /\ z \in Nat
      BY <1>4
    <3>. QED
      BY <2>1, <3>1
  <2>. QED
    BY <1>5, <2>1
<1>7. Cardinality(X) <= Cardinality(Y) /\ Cardinality(X) \in Nat /\ Cardinality(Y) \in Nat
  BY <1>3, <1>6, FS_Subset, FS_CardinalityType
<1>8. Cardinality(Y) < P
  BY <1>2, <1>5 DEF PageBelow
<1>9. Cardinality(X) < P
  BY <1>1, <1>7, <1>8
<1>. QED
  BY <1>2, <1>4, <1>5, <1>9 DEF PageBelow

\* The last page has everything that is below its cursor.
LEMMA LastPageFull ==
  ASSUME NEW ids \in SUBSET Ids, NEW c \in 0 .. Top, ~More(ids, c)
  PROVE  Below(ids, c) \subseteq PageBelow(ids, c)
<1>1. MaxStored \in Nat /\ P \in Nat
  BY ThreadAssumption
<1>2. PICK B : B = Below(ids, c)
  OBVIOUS
<1>3. IsFiniteSet(B) /\ B \subseteq Nat
  BY <1>2, BelowFinite
<1>4. ASSUME NEW x \in B
      PROVE  x \in PageBelow(ids, c)
  <2>1. PICK X : X = {z \in B : x < z}
    OBVIOUS
  <2>2. X \in SUBSET (B \ {x})
    BY <1>3, <2>1
  <2>3. /\ IsFiniteSet(B \ {x}) /\ Cardinality(B \ {x}) = Cardinality(B) - 1 /\ Cardinality(B) \in Nat
    BY <1>3, <1>4, FS_RemoveElement, FS_CardinalityType
  <2>4. IsFiniteSet(X) /\ Cardinality(X) <= Cardinality(B \ {x})
    BY <2>2, <2>3, FS_Subset
  <2>5. Cardinality(X) \in Nat
    BY <2>4, FS_CardinalityType
  <2>6. Cardinality(B) <= P
    BY <1>1, <1>2, <2>3 DEF More
  <2>7. Cardinality(X) < P
    BY <1>1, <2>3, <2>4, <2>5, <2>6
  <2>. QED
    BY <1>2, <1>4, <2>1, <2>7 DEF PageBelow
<1>. QED
  BY <1>2, <1>4

\* With more below it, a page has an oldest message, and it is not the oldest.
LEMMA CursorFits ==
  ASSUME NEW ids \in SUBSET Ids, NEW c \in 0 .. Top, More(ids, c)
  PROVE  /\ Cursor(ids, c) \in PageBelow(ids, c)
         /\ \A y \in PageBelow(ids, c) : Cursor(ids, c) <= y
         /\ Cursor(ids, c) \in Nat /\ Cursor(ids, c) > 1 /\ Cursor(ids, c) < c
<1>1. MaxStored \in Nat /\ P \in Nat /\ P > 0
  BY ThreadAssumption
<1>2. PICK B : B = Below(ids, c)
  OBVIOUS
<1>3. PICK slice : slice = PageBelow(ids, c)
  OBVIOUS
<1>4. B \in SUBSET (1 .. MaxStored) /\ IsFiniteSet(B)
  BY <1>2, BelowFinite
<1>5. Cardinality(B) > P /\ Cardinality(B) \in Nat
  BY <1>2, <1>4, FS_CardinalityType DEF More
<1>6. B # {}
  BY <1>1, <1>5, FS_EmptySet
<1>7. slice \subseteq B /\ B \subseteq Nat
  BY <1>2, <1>3, <1>4 DEF PageBelow
<1>8. PICK top \in B : \A y \in B : y <= top
  BY <1>1, <1>4, <1>6, LargestOf
<1>9. top \in slice
  <2>1. {z \in B : top < z} = {}
    <3>1. ASSUME NEW z \in B
          PROVE  ~(top < z)
      <4>1. z \in Nat /\ top \in Nat /\ z <= top
        BY <1>7, <1>8
      <4>. QED
        BY <4>1
    <3>. QED
      BY <3>1
  <2>2. Cardinality({z \in B : top < z}) < P
    BY <1>1, <2>1, FS_EmptySet
  <2>. QED
    BY <1>2, <1>3, <1>8, <2>2 DEF PageBelow
<1>10. \E x \in slice : \A y \in slice : x <= y
  BY <1>7, <1>9, SmallestOf
<1>11. PICK k : k = Cursor(ids, c)
  OBVIOUS
<1>12. k \in slice /\ \A y \in slice : k <= y
  BY <1>3, <1>10, <1>11 DEF Cursor
<1>13. k \in Nat /\ k < c
  BY <1>2, <1>7, <1>12 DEF Below
<1>14. k > 1
  <2>1. PICK z \in B : \A y \in B : z <= y
    BY <1>6, <1>7, SmallestOf
  <2>2. {y \in B : z < y} = B \ {z}
    <3>1. ASSUME NEW y \in B
          PROVE  z < y <=> y # z
      <4>1. y \in Nat /\ z \in Nat /\ z <= y
        BY <1>7, <2>1
      <4>. QED
        BY <4>1
    <3>. QED
      BY <3>1
  <2>3. Cardinality({y \in B : z < y}) = Cardinality(B) - 1
    BY <1>4, <2>1, <2>2, FS_RemoveElement
  <2>4. ~(Cardinality({y \in B : z < y}) < P)
    BY <1>1, <1>5, <2>3
  <2>5. z \notin slice
    BY <1>2, <1>3, <2>4 DEF PageBelow
  <2>6. k \in B /\ z <= k /\ k # z /\ z \in 1 .. MaxStored
    BY <1>4, <1>7, <1>12, <2>1, <2>5
  <2>. QED
    BY <1>1, <1>13, <2>6
<1>. QED
  BY <1>3, <1>11, <1>12, <1>13, <1>14

\* A page leaves out nothing between its messages and its cursors.
LEMMA PageExact ==
  ASSUME NEW ids \in SUBSET Ids, NEW c \in 0 .. Top, c > 1
  PROVE  /\ PageBelow(ids, c) \subseteq ids
         /\ \A y \in PageBelow(ids, c) : y < c
         /\ Cursor(ids, c) \in Nat /\ Cursor(ids, c) >= 1 /\ Cursor(ids, c) < c
         /\ More(ids, c) => Cursor(ids, c) > 1
         /\ \A x \in ids : Cursor(ids, c) <= x /\ x < c => x \in PageBelow(ids, c)
<1>1. PageBelow(ids, c) \subseteq ids /\ \A y \in PageBelow(ids, c) : y < c
  BY DEF PageBelow, Below
<1>2. CASE More(ids, c)
  <2>1. ASSUME NEW x \in ids, Cursor(ids, c) <= x, x < c
        PROVE  x \in PageBelow(ids, c)
    BY <1>2, <2>1, CursorFits, PageFull
  <2>2. Cursor(ids, c) \in Nat /\ Cursor(ids, c) > 1 /\ Cursor(ids, c) < c
    BY <1>2, CursorFits
  <2>. QED
    BY <1>1, <2>1, <2>2
<1>3. CASE ~More(ids, c)
  <2>1. Cursor(ids, c) = 1
    BY <1>3 DEF Cursor
  <2>2. ASSUME NEW x \in ids, x < c
        PROVE  x \in PageBelow(ids, c)
    BY <1>3, <2>2, LastPageFull DEF Below
  <2>. QED
    BY <1>1, <1>3, <2>1, <2>2
<1>. QED
  BY <1>2, <1>3

-----------------------------------------------------------------------------
(* What goes on while messages are saved.                                  *)

LEMMA Numbers ==
  ASSUME ThreadTypeOK
  PROVE  /\ MaxStored \in Nat /\ MaxStored >= 1 /\ P \in Nat /\ P >= 1 /\ Top \in Nat /\ Top = MaxStored + 1
         /\ stored \subseteq Ids /\ dated \in Nat /\ dated <= MaxStored
         /\ pages \in Nat /\ pages <= MaxStored /\ low \in Nat /\ low <= MaxStored
         /\ load.left \in Nat /\ load.left <= MaxStored /\ load.pages \in Nat /\ load.low \in 0 .. Top
         /\ load.shown \subseteq Ids /\ load.at \subseteq Ids
<1>1. /\ MaxStored \in Nat /\ MaxStored >= 1 /\ P \in Nat /\ P >= 1
      /\ dated \in 0 .. MaxStored /\ stored \subseteq 1 .. dated
      /\ pages \in 0 .. MaxStored /\ low \in 0 .. MaxStored
  BY ThreadAssumption DEF ThreadTypeOK
<1>2. 1 .. dated \subseteq Ids
  BY <1>1 DEF Ids
<1>3. /\ load.left \in 0 .. MaxStored /\ load.pages \in 0 .. MaxStored /\ load.low \in 0 .. Top
      /\ load.shown \in SUBSET Ids /\ load.at \in SUBSET Ids
  BY DEF ThreadTypeOK, Load
<1>4. Top \in Nat /\ Top = MaxStored + 1
  BY <1>1 DEF Top
<1>. QED
  BY <1>1, <1>2, <1>3, <1>4

LEMMA StillExplained ==
  ASSUME Grows, NEW ids \in SUBSET stored, NEW c, Explained(ids, c)
  PROVE  Explained(ids, c)'
<1>1. ASSUME NEW x \in stored' \ late', c <= x, x \notin ids, NEW y \in ids, y > x
      PROVE  \E m \in alone' : m > x
  <2>1. x \in stored \ late
    BY <1>1 DEF Grows
  <2>. QED
    BY <1>1, <2>1 DEF Explained, Grows
<1>. QED
  BY <1>1 DEF Explained

LEMMA DataStays ==
  ASSUME ThreadInv, Grows, UNCHANGED threadData
  PROVE  PagesFit' /\ shown' \subseteq stored' /\ pages' \in 0 .. MaxStored /\ low' \in 0 .. MaxStored
<1>1. UNCHANGED <<shown, pages, low>> /\ shown \in SUBSET stored
  BY DEF threadData, ThreadInv, ThreadTypeOK
<1>2. PICK ids, c : ids = shown /\ c = low
  OBVIOUS
<1>3. HasData => Explained(ids, c)'
  <2>1. HasData => Explained(ids, c)
    BY <1>2 DEF ThreadInv, PagesFit
  <2>2. ids \in SUBSET stored
    BY <1>1, <1>2
  <2>. QED
    BY <2>1, <2>2, StillExplained
<1>4. HasData' => Explained(shown, low)'
  BY <1>1, <1>2, <1>3 DEF Explained, HasData
<1>5. HasData' => low' >= 1 /\ pages' + low' <= Top
  BY <1>1 DEF ThreadInv, PagesFit, HasData
<1>6. shown' \subseteq stored' /\ pages' \in 0 .. MaxStored /\ low' \in 0 .. MaxStored
  BY <1>1 DEF Grows, ThreadInv, ThreadTypeOK
<1>. QED
  BY <1>4, <1>5, <1>6 DEF PagesFit

LEMMA LoadGoesOn ==
  ASSUME ThreadInv, Grows, UNCHANGED load
  PROVE  LoadFits' /\ load' \in Load /\ load'.shown \subseteq stored'
<1>1. load' = load /\ load.shown \in SUBSET stored /\ load \in Load /\ stored \subseteq stored'
  BY DEF ThreadInv, ThreadTypeOK, Grows
<1>2. PICK ids, c : ids = load.shown /\ c = load.low
  OBVIOUS
<1>3. Loading => Explained(ids, c)'
  <2>1. Loading => Explained(ids, c)
    BY <1>2 DEF ThreadInv, LoadFits
  <2>2. ids \in SUBSET stored
    BY <1>1, <1>2
  <2>. QED
    BY <2>1, <2>2, StillExplained
<1>4. Loading' => Explained(load.shown, load.low)'
  BY <1>1, <1>2, <1>3 DEF Explained, Loading
<1>5. Loading =>
        /\ load.low >= 1 /\ load.pages + load.low <= Top
        /\ IF load.left = 0 THEN load.pages > 0 ELSE load.low > 1
        /\ load.at \subseteq stored
        /\ load.pages > 0 => \A x \in load.at : load.low <= x => x \in load.shown
        /\ load.pages = 0 => load.kind = "all" /\ load.shown = {} /\ load.low = Top
        /\ load.kind = "older" => load.at \subseteq load.shown
  BY DEF ThreadInv, LoadFits
<1>6. Loading => load.at \subseteq stored'
  BY <1>1, <1>5
<1>7. LoadFits'
  BY <1>1, <1>4, <1>5, <1>6 DEF LoadFits, Loading
<1>. QED
  BY <1>1, <1>7

LEMMA LatestGoesOn ==
  ASSUME ThreadInv, Grows, pulled' \subseteq pulled
  PROVE  LatestFits' /\ \A l \in pulled' : l \in [items : SUBSET stored', more : BOOLEAN]
<1>1. ASSUME NEW l \in pulled'
      PROVE  /\ l \in [items : SUBSET stored', more : BOOLEAN]
             /\ \A x \in stored' \ late' :
                  x \notin l.items /\ (\E y \in l.items : y > x) => l.more /\ \A k \in l.items : k > x
  <2>1. l \in pulled /\ l \in [items : SUBSET stored, more : BOOLEAN] /\ stored \subseteq stored'
    BY <1>1 DEF ThreadInv, ThreadTypeOK, Grows
  <2>2. l \in [items : SUBSET stored', more : BOOLEAN]
    BY <2>1
  <2>3. ASSUME NEW x \in stored' \ late', x \notin l.items, NEW y \in l.items, y > x
        PROVE  l.more /\ \A k \in l.items : k > x
    <3>1. y \in stored
      BY <2>1, <2>3
    <3>2. x \in stored \ late
      BY <2>3, <3>1 DEF Grows
    <3>. QED
      BY <2>1, <2>3, <3>2 DEF ThreadInv, LatestFits
  <2>. QED
    BY <2>2, <2>3
<1>. QED
  BY <1>1 DEF LatestFits

LEMMA LoadEnds ==
  ASSUME load' = NoLoad, ThreadTypeOK
  PROVE  LoadFits' /\ load' \in Load /\ load'.shown \subseteq stored'
<1>1. MaxStored \in Nat /\ Top \in Nat
  BY Numbers
<1>2. NoLoad.kind = "none" /\ NoLoad.shown = {}
  BY DEF NoLoad
<1>3. PICK s \in SUBSET Ids : s = {}
  OBVIOUS
<1>4. NoLoad = [kind |-> "none", left |-> 0, shown |-> s, pages |-> 0, low |-> 0, at |-> s]
  BY <1>3 DEF NoLoad
<1>5. NoLoad \in Load
  BY <1>1, <1>4 DEF Load
<1>. QED
  BY <1>2, <1>5 DEF LoadFits, Loading

LEMMA BeginFits ==
  ASSUME ThreadInv, UNCHANGED <<stored, late, alone>>,
         Begin("all") \/ (Begin("older") /\ HasData /\ low > 1)
  PROVE  LoadFits' /\ load' \in Load /\ load'.shown \subseteq stored'
<1>1. /\ MaxStored \in Nat /\ MaxStored >= 1 /\ Top \in Nat /\ Top = MaxStored + 1
      /\ pages \in Nat /\ pages <= MaxStored /\ low \in Nat /\ low <= MaxStored /\ stored \subseteq Ids
  BY Numbers DEF ThreadInv
<1>2. CASE load' = [NoLoad EXCEPT !.kind = "all", !.left = IF HasData THEN pages ELSE 1, !.low = Top]
  <2>1. PICK n : n = IF HasData THEN pages ELSE 1
    OBVIOUS
  <2>2. n \in 1 .. MaxStored
    BY <1>1, <2>1 DEF HasData
  <2>3. PICK s \in SUBSET Ids : s = {}
    OBVIOUS
  <2>4. load' = [kind |-> "all", left |-> n, shown |-> s, pages |-> 0, low |-> Top, at |-> s]
    BY <1>2, <2>1, <2>3 DEF NoLoad
  <2>5. load' \in Load
    BY <1>1, <2>2, <2>4 DEF Load
  <2>6. /\ load'.kind = "all" /\ load'.left = n /\ load'.shown = {} /\ load'.pages = 0
        /\ load'.low = Top /\ load'.at = {}
    BY <2>3, <2>4
  <2>7. LoadFits'
    BY <1>1, <2>2, <2>6 DEF LoadFits, Explained
  <2>. QED
    BY <2>5, <2>6, <2>7
<1>3. CASE /\ load' = [kind |-> "older", left |-> 1, shown |-> shown, pages |-> pages, low |-> low, at |-> shown]
           /\ HasData /\ low > 1
  <2>1. shown \subseteq stored /\ shown \in SUBSET Ids
    BY <1>1 DEF ThreadInv, ThreadTypeOK
  <2>2. /\ load'.kind = "older" /\ load'.left = 1 /\ load'.shown = shown /\ load'.pages = pages
        /\ load'.low = low /\ load'.at = shown
    BY <1>3
  <2>3. load' \in Load
    BY <1>1, <1>3, <2>1 DEF Load
  <2>4. low >= 1 /\ pages + low <= Top /\ Explained(shown, low) /\ pages > 0
    BY <1>3 DEF ThreadInv, PagesFit, HasData
  <2>5. Explained(load.shown, load.low)'
    BY <2>2, <2>4 DEF Explained
  <2>6. LoadFits'
    BY <1>1, <1>3, <2>1, <2>2, <2>4, <2>5 DEF LoadFits
  <2>. QED
    BY <2>1, <2>2, <2>3, <2>6
<1>. QED
  BY <1>2, <1>3 DEF Begin

-----------------------------------------------------------------------------
(* The steps.                                                              *)

\* The parts of the invariant, with what is left of the typing.
LEMMA Whole ==
  ASSUME /\ PagesFit' /\ shown' \subseteq stored' /\ pages' \in 0 .. MaxStored /\ low' \in 0 .. MaxStored,
         /\ LoadFits' /\ load' \in Load /\ load'.shown \subseteq stored',
         /\ LatestFits' /\ (\A l \in pulled' : l \in [items : SUBSET stored', more : BOOLEAN]),
         /\ dated' \in 0 .. MaxStored /\ stored' \subseteq 1 .. dated' /\ asked' \in BOOLEAN
         /\ own' \subseteq 1 .. dated' /\ late' \subseteq stored'
         /\ alone' \subseteq own' \cap stored' /\ sending' \subseteq own' \cap stored'
  PROVE  ThreadInv'
<1>1. ThreadTypeOK'
  BY DEF ThreadTypeOK
<1>. QED
  BY <1>1 DEF ThreadInv

LEMMA Histories ==
  ASSUME ThreadInv
  PROVE  /\ dated \in 0 .. MaxStored /\ stored \subseteq 1 .. dated /\ asked \in BOOLEAN
         /\ own \subseteq 1 .. dated /\ late \subseteq stored
         /\ alone \subseteq own \cap stored /\ sending \subseteq own \cap stored
<1>1. alone \cup sending \subseteq own \cap stored
  BY DEF ThreadInv, ThreadTypeOK
<1>2. alone \subseteq own \cap stored /\ sending \subseteq own \cap stored
  BY <1>1
<1>. QED
  BY <1>2 DEF ThreadInv, ThreadTypeOK

LEMMA ArrivalKeeps ==
  ASSUME ThreadInv, Arrive \/ Send
  PROVE  ThreadInv'
<1>1. /\ dated < MaxStored /\ dated' = dated + 1
      /\ own' = own \/ own' = own \cup {dated + 1}
      /\ UNCHANGED <<stored, sending, threadData, load, asked, pulled, late, alone>>
  BY DEF Arrive, Send, pulls, threadHistory
<1>2. Grows
  BY <1>1 DEF Grows
<1>3. /\ PagesFit' /\ shown' \subseteq stored' /\ pages' \in 0 .. MaxStored /\ low' \in 0 .. MaxStored
  BY <1>1, <1>2, DataStays
<1>4. LoadFits' /\ load' \in Load /\ load'.shown \subseteq stored'
  BY <1>1, <1>2, LoadGoesOn
<1>5. LatestFits' /\ \A l \in pulled' : l \in [items : SUBSET stored', more : BOOLEAN]
  BY <1>1, <1>2, LatestGoesOn
<1>6. dated' \in 0 .. MaxStored /\ dated + 1 \in 1 .. dated' /\ 1 .. dated \subseteq 1 .. dated'
  BY <1>1, Numbers DEF ThreadInv
<1>7. /\ stored' \subseteq 1 .. dated' /\ asked' \in BOOLEAN
      /\ own' \subseteq 1 .. dated' /\ late' \subseteq stored'
  BY <1>1, <1>6, Histories
<1>8. alone' \subseteq own' \cap stored' /\ sending' \subseteq own' \cap stored'
  BY <1>1, Histories
<1>. QED
  BY <1>3, <1>4, <1>5, <1>6, <1>7, <1>8, Whole

LEMMA CommitKeeps ==
  ASSUME ThreadInv, NEW m \in Ids, Commit(m)
  PROVE  ThreadInv'
<1>1. /\ m <= dated /\ m \notin stored /\ stored' = stored \cup {m}
      /\ sending' = (IF m \in own THEN sending \cup {m} ELSE sending)
      /\ late' = (IF \E y \in stored : y > m THEN late \cup {m} ELSE late)
      /\ UNCHANGED <<dated, threadData, load, asked, pulled, own, alone>>
  BY DEF Commit, pulls
<1>2. Grows
  <2>1. ASSUME NEW x \in stored' \ late'
        PROVE  x \in stored \ late \/ \A y \in stored : ~(y > x)
    <3>1. CASE x = m
      BY <1>1, <2>1, <3>1
    <3>2. CASE x # m
      BY <1>1, <2>1, <3>2
    <3>. QED
      BY <3>1, <3>2
  <2>. QED
    BY <1>1, <2>1 DEF Grows
<1>3. /\ PagesFit' /\ shown' \subseteq stored' /\ pages' \in 0 .. MaxStored /\ low' \in 0 .. MaxStored
  BY <1>1, <1>2, DataStays
<1>4. LoadFits' /\ load' \in Load /\ load'.shown \subseteq stored'
  BY <1>1, <1>2, LoadGoesOn
<1>5. LatestFits' /\ \A l \in pulled' : l \in [items : SUBSET stored', more : BOOLEAN]
  BY <1>1, <1>2, LatestGoesOn
<1>6. m \in 1 .. dated
  <2>1. dated \in Nat /\ m \in Nat /\ m >= 1
    BY Numbers DEF ThreadInv, Ids
  <2>. QED
    BY <1>1, <2>1
<1>7. /\ dated' \in 0 .. MaxStored /\ stored' \subseteq 1 .. dated' /\ asked' \in BOOLEAN
      /\ own' \subseteq 1 .. dated' /\ late' \subseteq stored'
  BY <1>1, <1>6, Histories
<1>8. alone' \subseteq own' \cap stored' /\ sending' \subseteq own' \cap stored'
  BY <1>1, Histories
<1>. QED
  BY <1>3, <1>4, <1>5, <1>7, <1>8, Whole

\* Messages are added above a cursor that stays; a hole that is new has an
\* explanation that is new.
LEMMA AddedFits ==
  ASSUME ThreadInv, Grows, NEW ids \in SUBSET stored, Add(ids), UNCHANGED <<pages, low, stored, late>>,
         \A x \in stored \ late :
           HasData /\ low <= x /\ x \notin shown /\ x \notin ids /\ (\E y \in ids : y > x)
             => (\E y \in shown : y > x) \/ (\E m \in alone' : m > x)
  PROVE  PagesFit' /\ shown' \subseteq stored' /\ pages' \in 0 .. MaxStored /\ low' \in 0 .. MaxStored
<1>1. shown' = IF HasData THEN shown \cup ids ELSE shown
  BY DEF Add
<1>2. shown \subseteq stored /\ pages \in 0 .. MaxStored /\ low \in 0 .. MaxStored
  BY DEF ThreadInv, ThreadTypeOK
<1>3. ASSUME HasData
      PROVE  Explained(shown, low)'
  <2>1. ASSUME NEW x \in stored \ late, low <= x, x \notin shown', NEW y \in shown', y > x
        PROVE  \E m \in alone' : m > x
    <3>1. x \notin shown /\ x \notin ids /\ (y \in shown \/ y \in ids)
      BY <1>1, <1>3, <2>1
    <3>2. (\E z \in shown : z > x) => \E m \in alone' : m > x
      BY <1>3, <2>1, <3>1 DEF ThreadInv, PagesFit, Explained, Grows
    <3>. QED
      BY <1>3, <2>1, <3>1, <3>2
  <2>. QED
    BY <2>1 DEF Explained
<1>4. HasData => low >= 1 /\ pages + low <= Top
  BY DEF ThreadInv, PagesFit
<1>5. PagesFit'
  BY <1>3, <1>4 DEF PagesFit, HasData
<1>. QED
  BY <1>1, <1>2, <1>5

LEMMA SendAnsweredKeeps ==
  ASSUME ThreadInv, NEW m \in Ids, SendAnswered(m)
  PROVE  ThreadInv'
<1>1. /\ m \in sending /\ sending' = sending \ {m} /\ Add({m})
      /\ alone' = (IF HasData /\ \E x \in stored \ late : low <= x /\ x < m /\ x \notin shown
                   THEN alone \cup {m} ELSE alone)
      /\ UNCHANGED <<dated, stored, pages, low, load, asked, pulled, own, late>>
  BY DEF SendAnswered, pulls
<1>2. m \in own /\ m \in stored
  BY <1>1, Histories
<1>3. Grows
  BY <1>1 DEF Grows
<1>4. \A x \in stored \ late :
        HasData /\ low <= x /\ x \notin shown /\ x \notin {m} /\ (\E y \in {m} : y > x)
          => (\E y \in shown : y > x) \/ (\E n \in alone' : n > x)
  <2>1. ASSUME NEW x \in stored \ late, HasData, low <= x, x \notin shown, m > x
        PROVE  m \in alone'
    <3>1. x < m
      BY <2>1, Numbers DEF ThreadInv, Ids
    <3>. QED
      BY <1>1, <2>1, <3>1
  <2>. QED
    BY <2>1
<1>5. PICK ids \in SUBSET stored : ids = {m}
  BY <1>2
<1>6. /\ PagesFit' /\ shown' \subseteq stored' /\ pages' \in 0 .. MaxStored /\ low' \in 0 .. MaxStored
  BY <1>1, <1>3, <1>4, <1>5, AddedFits
<1>7. LoadFits' /\ load' \in Load /\ load'.shown \subseteq stored'
  BY <1>1, <1>3, LoadGoesOn
<1>8. LatestFits' /\ \A l \in pulled' : l \in [items : SUBSET stored', more : BOOLEAN]
  BY <1>1, <1>3, LatestGoesOn
<1>9. /\ dated' \in 0 .. MaxStored /\ stored' \subseteq 1 .. dated' /\ asked' \in BOOLEAN
      /\ own' \subseteq 1 .. dated' /\ late' \subseteq stored'
  BY <1>1, Histories
<1>10. alone' \subseteq own' \cap stored' /\ sending' \subseteq own' \cap stored'
  BY <1>1, <1>2, Histories
<1>. QED
  BY <1>6, <1>7, <1>8, <1>9, <1>10, Whole

\* The next page goes on from the one before it.
LEMMA LoadReadFits ==
  ASSUME ThreadInv, LoadRead
  PROVE  LoadFits' /\ load' \in Load /\ load'.shown \subseteq stored'
<1>1. PICK c, slice, next, more :
        /\ c = load.low /\ slice = PageBelow(stored, c) /\ next = Cursor(stored, c) /\ more = More(stored, c)
  OBVIOUS
<1>2. /\ Loading /\ load.left > 0 /\ UNCHANGED <<stored, late, alone>>
      /\ load' = [load EXCEPT !.left = IF more THEN @ - 1 ELSE 0, !.shown = @ \cup slice,
                              !.pages = @ + 1, !.low = next,
                              !.at = IF load.pages = 0 THEN stored ELSE @]
  BY <1>1 DEF LoadRead, saved, threadHistory
<1>3. /\ load \in Load /\ load.shown \in SUBSET stored /\ stored \in SUBSET Ids
      /\ Top \in Nat /\ Top = MaxStored + 1 /\ MaxStored \in Nat /\ c \in 0 .. Top
      /\ load.left \in Nat /\ load.left <= MaxStored /\ load.pages \in Nat
      /\ load.at \in SUBSET Ids /\ load.shown \in SUBSET Ids
  BY <1>1, Numbers DEF ThreadInv, ThreadTypeOK
<1>4. /\ c > 1 /\ load.pages + c <= Top /\ load.at \subseteq stored
      /\ load.pages > 0 => \A x \in load.at : c <= x => x \in load.shown
      /\ load.pages = 0 => load.kind = "all" /\ load.shown = {} /\ load.low = Top
      /\ load.kind = "older" => load.at \subseteq load.shown
      /\ Explained(load.shown, c)
  BY <1>1, <1>2 DEF ThreadInv, LoadFits
<1>5. /\ slice \subseteq stored /\ (\A y \in slice : y < c)
      /\ next \in Nat /\ next >= 1 /\ next < c /\ (more => next > 1)
      /\ \A x \in stored : next <= x /\ x < c => x \in slice
  BY <1>1, <1>3, <1>4, PageExact
<1>6. PICK left, at :
        /\ left = IF more THEN load.left - 1 ELSE 0
        /\ at = IF load.pages = 0 THEN stored ELSE load.at
  OBVIOUS
<1>7. /\ left \in 0 .. MaxStored /\ left \in Nat /\ (left > 0 => next > 1)
  BY <1>2, <1>3, <1>5, <1>6
<1>8. at \in SUBSET Ids /\ at \subseteq stored
  BY <1>3, <1>4, <1>6
<1>9. load' = [kind |-> load.kind, left |-> left, shown |-> load.shown \cup slice,
               pages |-> load.pages + 1, low |-> next, at |-> at]
  BY <1>2, <1>3, <1>6 DEF Load
<1>10. /\ load'.kind = load.kind /\ load'.left = left /\ load'.shown = load.shown \cup slice
       /\ load'.pages = load.pages + 1 /\ load'.low = next /\ load'.at = at
  BY <1>9
<1>11. /\ load.pages + 1 + next <= Top /\ load.pages + 1 \in 0 .. MaxStored /\ load.pages + 1 > 0 /\ next \in 0 .. Top
  BY <1>3, <1>4, <1>5
<1>12. load.shown \cup slice \in SUBSET Ids /\ load.shown \cup slice \subseteq stored
  BY <1>3, <1>5
<1>13. load' \in Load
  <2>1. load.kind \in {"none", "all", "older"}
    BY <1>3 DEF Load
  <2>. QED
    BY <1>7, <1>8, <1>9, <1>11, <1>12, <2>1 DEF Load
<1>14. ASSUME NEW x \in at, next <= x
       PROVE  x \in load.shown \cup slice
  <2>1. x \in stored /\ x \in Nat
    BY <1>3, <1>8 DEF Ids
  <2>2. CASE x < c
    BY <1>5, <1>14, <2>1, <2>2
  <2>3. CASE ~(x < c)
    <3>1. c <= x
      BY <1>3, <2>1, <2>3
    <3>2. CASE load.pages = 0
      <4>1. c = Top
        BY <1>1, <1>3, <1>4, <3>2
      <4>. QED
        BY <1>3, <2>1, <2>3, <4>1 DEF Ids
    <3>3. CASE load.pages # 0
      BY <1>3, <1>4, <1>6, <1>14, <3>1, <3>3
    <3>. QED
      BY <3>2, <3>3
  <2>. QED
    BY <2>2, <2>3
<1>15. ASSUME NEW x \in stored \ late, next <= x, x \notin load.shown \cup slice,
              NEW y \in load.shown \cup slice, y > x
       PROVE  \E m \in alone : m > x
  <2>1. x \in Nat /\ y \in Nat
    BY <1>3, <1>12 DEF Ids
  <2>2. c <= x
    BY <1>3, <1>5, <1>15, <2>1
  <2>3. y \in load.shown
    <3>1. ~(y < c)
      BY <1>3, <1>15, <2>1, <2>2
    <3>. QED
      BY <1>5, <1>15, <3>1
  <2>. QED
    BY <1>4, <1>15, <2>2, <2>3 DEF Explained
<1>16. Explained(load.shown, load.low)'
  BY <1>2, <1>10, <1>15 DEF Explained
<1>17. load.kind = "older" => at \subseteq load.shown \cup slice
  <2>1. ASSUME load.kind = "older"
        PROVE  at = load.at /\ load.at \subseteq load.shown
    BY <1>4, <1>6, <2>1
  <2>. QED
    BY <2>1
<1>18. LoadFits'
  <2>1. stored' = stored
    BY <1>2
  <2>2. load'.low >= 1 /\ load'.pages + load'.low <= Top
    BY <1>5, <1>10, <1>11
  <2>3. IF load'.left = 0 THEN load'.pages > 0 ELSE load'.low > 1
    BY <1>7, <1>10, <1>11
  <2>4. load'.at \subseteq stored' /\ \A x \in load'.at : load'.low <= x => x \in load'.shown
    BY <1>8, <1>10, <1>14, <2>1
  <2>5. load'.pages # 0 /\ (load'.kind = "older" => load'.at \subseteq load'.shown)
    BY <1>10, <1>11, <1>17
  <2>. QED
    BY <1>16, <2>2, <2>3, <2>4, <2>5 DEF LoadFits
<1>. QED
  BY <1>2, <1>10, <1>12, <1>13, <1>18

LEMMA LoadStepsKeep ==
  ASSUME ThreadInv, Refetch \/ LoadOlder \/ LoadRead \/ LoadFailed
  PROVE  ThreadInv'
<1>1. UNCHANGED <<dated, stored, sending, threadData, asked, pulled, own, late, alone>>
  BY DEF Refetch, LoadOlder, LoadRead, LoadFailed, saved, pulls, threadHistory
<1>2. Grows
  BY <1>1 DEF Grows
<1>3. LoadFits' /\ load' \in Load /\ load'.shown \subseteq stored'
  <2>1. CASE Refetch \/ LoadOlder
    BY <1>1, <2>1, BeginFits DEF Refetch, LoadOlder
  <2>2. CASE LoadRead
    BY <2>2, LoadReadFits
  <2>3. CASE LoadFailed
    BY <2>3, LoadEnds DEF LoadFailed, ThreadInv
  <2>. QED
    BY <2>1, <2>2, <2>3
<1>4. /\ PagesFit' /\ shown' \subseteq stored' /\ pages' \in 0 .. MaxStored /\ low' \in 0 .. MaxStored
  BY <1>1, <1>2, DataStays
<1>5. LatestFits' /\ \A l \in pulled' : l \in [items : SUBSET stored', more : BOOLEAN]
  BY <1>1, <1>2, LatestGoesOn
<1>6. /\ dated' \in 0 .. MaxStored /\ stored' \subseteq 1 .. dated' /\ asked' \in BOOLEAN
      /\ own' \subseteq 1 .. dated' /\ late' \subseteq stored'
      /\ alone' \subseteq own' \cap stored' /\ sending' \subseteq own' \cap stored'
  BY <1>1, Histories
<1>. QED
  BY <1>3, <1>4, <1>5, <1>6, Whole

\* The data a load puts in place are what it has gathered.
LEMMA LoadDoneKeeps ==
  ASSUME ThreadInv, LoadDone
  PROVE  ThreadInv'
<1>1. /\ Loading /\ load.left = 0 /\ load' = NoLoad
      /\ shown' = load.shown /\ pages' = load.pages /\ low' = load.low
      /\ UNCHANGED <<dated, stored, sending, asked, pulled, own, late, alone>>
  BY DEF LoadDone, saved, pulls, threadHistory
<1>2. Grows
  BY <1>1 DEF Grows
<1>3. LoadFits' /\ load' \in Load /\ load'.shown \subseteq stored'
  BY <1>1, LoadEnds DEF ThreadInv
<1>4. /\ load.low >= 1 /\ load.pages + load.low <= Top /\ load.pages > 0 /\ Explained(load.shown, load.low)
      /\ load.shown \subseteq stored
  BY <1>1 DEF ThreadInv, LoadFits, ThreadTypeOK
<1>5. Explained(shown, low)'
  BY <1>1, <1>4 DEF Explained
<1>6. load.pages \in 0 .. MaxStored /\ load.low \in 0 .. MaxStored
  BY <1>4, Numbers DEF ThreadInv
<1>7. /\ PagesFit' /\ shown' \subseteq stored' /\ pages' \in 0 .. MaxStored /\ low' \in 0 .. MaxStored
  BY <1>1, <1>4, <1>5, <1>6 DEF PagesFit
<1>8. LatestFits' /\ \A l \in pulled' : l \in [items : SUBSET stored', more : BOOLEAN]
  BY <1>1, <1>2, LatestGoesOn
<1>9. /\ dated' \in 0 .. MaxStored /\ stored' \subseteq 1 .. dated' /\ asked' \in BOOLEAN
      /\ own' \subseteq 1 .. dated' /\ late' \subseteq stored'
      /\ alone' \subseteq own' \cap stored' /\ sending' \subseteq own' \cap stored'
  BY <1>1, Histories
<1>. QED
  BY <1>3, <1>7, <1>8, <1>9, Whole

LEMMA InvalidateFits ==
  ASSUME ThreadInv, UNCHANGED <<stored, late, alone>>, InvalidateThread \/ UNCHANGED load
  PROVE  LoadFits' /\ load' \in Load /\ load'.shown \subseteq stored'
<1>1. Grows
  BY DEF Grows
<1>2. Begin("all") \/ UNCHANGED load
  BY DEF InvalidateThread
<1>. QED
  BY <1>1, <1>2, BeginFits, LoadGoesOn

\* A page that has a message in common, or nothing below it, makes no hole.
LEMMA PullDoneKeeps ==
  ASSUME ThreadInv, NEW l \in pulled, PullDone(l)
  PROVE  ThreadInv'
<1>1. PICK ids : ids = l.items
  OBVIOUS
<1>2. /\ pulled' \subseteq pulled
      /\ UNCHANGED <<dated, stored, sending, pages, low, asked, own, late, alone>>
      /\ \/ InvalidateThread /\ UNCHANGED shown
         \/ ~(l.more /\ ids \cap shown = {}) /\ Add(ids) /\ UNCHANGED load
  BY <1>1 DEF PullDone, saved, threadHistory
<1>3. Grows
  BY <1>2 DEF Grows
<1>4. LoadFits' /\ load' \in Load /\ load'.shown \subseteq stored'
  BY <1>2, InvalidateFits
<1>5. /\ PagesFit' /\ shown' \subseteq stored' /\ pages' \in 0 .. MaxStored /\ low' \in 0 .. MaxStored
  <2>1. CASE UNCHANGED shown
    BY <1>2, <1>3, <2>1, DataStays DEF threadData
  <2>2. CASE ~(l.more /\ ids \cap shown = {}) /\ Add(ids)
    <3>1. ids \in SUBSET stored
      BY <1>1 DEF ThreadInv, ThreadTypeOK
    <3>2. ASSUME NEW x \in stored \ late, x \notin ids, NEW y \in ids, y > x
          PROVE  \E z \in shown : z > x
      <4>1. l.more /\ \A k \in ids : k > x
        BY <1>1, <3>2 DEF ThreadInv, LatestFits
      <4>. QED
        BY <2>2, <4>1
    <3>. QED
      BY <1>2, <1>3, <2>2, <3>1, <3>2, AddedFits
  <2>. QED
    BY <1>2, <2>1, <2>2
<1>6. LatestFits' /\ \A k \in pulled' : k \in [items : SUBSET stored', more : BOOLEAN]
  BY <1>2, <1>3, LatestGoesOn
<1>7. /\ dated' \in 0 .. MaxStored /\ stored' \subseteq 1 .. dated' /\ asked' \in BOOLEAN
      /\ own' \subseteq 1 .. dated' /\ late' \subseteq stored'
      /\ alone' \subseteq own' \cap stored' /\ sending' \subseteq own' \cap stored'
  BY <1>2, Histories
<1>. QED
  BY <1>4, <1>5, <1>6, <1>7, Whole

\* A latest page as it is read.
LEMMA LatestReadFits ==
  ASSUME ThreadInv, PullRead
  PROVE  LatestFits' /\ \A l \in pulled' : l \in [items : SUBSET stored', more : BOOLEAN]
<1>1. PICK slice, more : slice = PageBelow(stored, Top) /\ more = More(stored, Top)
  OBVIOUS
<1>2. PICK n : n = [items |-> slice, more |-> more]
  OBVIOUS
<1>3. pulled' = pulled \cup {n} /\ UNCHANGED <<stored, late>>
  BY <1>1, <1>2 DEF PullRead, saved, threadHistory
<1>4. stored \in SUBSET Ids /\ Top \in 0 .. Top /\ Top > 1 /\ Top = MaxStored + 1 /\ MaxStored \in Nat
  BY Numbers DEF ThreadInv
<1>5. slice \subseteq stored /\ more \in BOOLEAN
  BY <1>1, <1>4, PageExact DEF More
<1>6. n \in [items : SUBSET stored, more : BOOLEAN] /\ n.items = slice /\ n.more = more
  BY <1>2, <1>5
<1>7. ASSUME NEW x \in stored, x \notin slice
      PROVE  more /\ \A k \in slice : k > x
  <2>1. x \in Nat /\ x < Top
    BY <1>4 DEF Ids
  <2>2. more
    BY <1>1, <1>4, <1>7, <2>1, LastPageFull DEF Below
  <2>3. ASSUME NEW k \in slice
        PROVE  k > x
    <3>1. k \in Nat
      BY <1>4, <1>5 DEF Ids
    <3>2. ~(k <= x)
      BY <1>1, <1>4, <1>7, <2>1, PageFull
    <3>. QED
      BY <2>1, <3>1, <3>2
  <2>. QED
    BY <2>2, <2>3
<1>8. ASSUME NEW l \in pulled'
      PROVE  /\ l \in [items : SUBSET stored', more : BOOLEAN]
             /\ \A x \in stored' \ late' :
                  x \notin l.items /\ (\E y \in l.items : y > x) => l.more /\ \A k \in l.items : k > x
  <2>1. CASE l \in pulled
    BY <1>3, <2>1 DEF ThreadInv, ThreadTypeOK, LatestFits
  <2>2. CASE l = n
    BY <1>3, <1>6, <1>7, <2>2
  <2>. QED
    BY <1>3, <2>1, <2>2
<1>. QED
  BY <1>8 DEF LatestFits

LEMMA PullStepsKeep ==
  ASSUME ThreadInv, Pull \/ PullRead \/ \E l \in pulled : PullFailed(l)
  PROVE  ThreadInv'
<1>1. /\ UNCHANGED <<dated, stored, sending, threadData, own, late, alone>>
      /\ (UNCHANGED load \/ InvalidateThread) /\ (pulled' \subseteq pulled \/ PullRead)
  BY DEF Pull, PullRead, PullFailed, saved, threadHistory
<1>2. asked' \in BOOLEAN
  BY DEF Pull, PullRead, PullFailed, ThreadInv, ThreadTypeOK
<1>3. Grows
  BY <1>1 DEF Grows
<1>4. LoadFits' /\ load' \in Load /\ load'.shown \subseteq stored'
  BY <1>1, InvalidateFits
<1>5. /\ PagesFit' /\ shown' \subseteq stored' /\ pages' \in 0 .. MaxStored /\ low' \in 0 .. MaxStored
  BY <1>1, <1>3, DataStays
<1>6. LatestFits' /\ \A l \in pulled' : l \in [items : SUBSET stored', more : BOOLEAN]
  BY <1>1, <1>3, LatestGoesOn, LatestReadFits
<1>7. /\ dated' \in 0 .. MaxStored /\ stored' \subseteq 1 .. dated' /\ asked' \in BOOLEAN
      /\ own' \subseteq 1 .. dated' /\ late' \subseteq stored'
      /\ alone' \subseteq own' \cap stored' /\ sending' \subseteq own' \cap stored'
  BY <1>1, <1>2, Histories
<1>. QED
  BY <1>4, <1>5, <1>6, <1>7, Whole

-----------------------------------------------------------------------------
LEMMA ThreadInitInv == ThreadInit => ThreadInv
<1>. SUFFICES ASSUME ThreadInit PROVE ThreadInv
  OBVIOUS
<1>1. MaxStored \in Nat /\ MaxStored >= 1 /\ Top \in Nat /\ Top = MaxStored + 1
  BY ThreadAssumption DEF Top
<1>2. PICK s \in SUBSET Ids : s = {}
  OBVIOUS
<1>3. load = [kind |-> "all", left |-> 1, shown |-> s, pages |-> 0, low |-> Top, at |-> s]
  BY <1>2 DEF ThreadInit, NoLoad
<1>4. load \in Load
  BY <1>1, <1>3 DEF Load
<1>5. /\ load.kind = "all" /\ load.left = 1 /\ load.shown = {} /\ load.pages = 0
      /\ load.low = Top /\ load.at = {}
  BY <1>2, <1>3
<1>6. 0 \in 0 .. MaxStored
  BY <1>1
<1>7. ThreadTypeOK
  BY <1>4, <1>5, <1>6 DEF ThreadInit, ThreadTypeOK
<1>8. LoadFits
  BY <1>1, <1>5 DEF LoadFits, Explained
<1>9. PagesFit /\ LatestFits
  BY DEF ThreadInit, PagesFit, LatestFits, HasData
<1>. QED
  BY <1>7, <1>8, <1>9 DEF ThreadInv

LEMMA ThreadNextInv == ThreadInv /\ [ThreadNext]_threadVars => ThreadInv'
<1>. SUFFICES ASSUME ThreadInv, [ThreadNext]_threadVars PROVE ThreadInv'
  OBVIOUS
<1>1. ASSUME UNCHANGED threadVars
      PROVE  ThreadInv'
  <2>1. UNCHANGED <<dated, stored, sending, threadData, load, asked, pulled, own, late, alone>>
    BY <1>1 DEF threadVars, saved, pulls, threadHistory
  <2>2. Grows
    BY <2>1 DEF Grows
  <2>3. /\ PagesFit' /\ shown' \subseteq stored' /\ pages' \in 0 .. MaxStored /\ low' \in 0 .. MaxStored
    BY <2>1, <2>2, DataStays
  <2>4. LoadFits' /\ load' \in Load /\ load'.shown \subseteq stored'
    BY <2>1, <2>2, LoadGoesOn
  <2>5. LatestFits' /\ \A l \in pulled' : l \in [items : SUBSET stored', more : BOOLEAN]
    BY <2>1, <2>2, LatestGoesOn
  <2>6. /\ dated' \in 0 .. MaxStored /\ stored' \subseteq 1 .. dated' /\ asked' \in BOOLEAN
        /\ own' \subseteq 1 .. dated' /\ late' \subseteq stored'
        /\ alone' \subseteq own' \cap stored' /\ sending' \subseteq own' \cap stored'
    BY <2>1, Histories
  <2>. QED
    BY <2>3, <2>4, <2>5, <2>6, Whole
<1>. QED
  BY <1>1, ArrivalKeeps, CommitKeeps, SendAnsweredKeeps, LoadStepsKeep, LoadDoneKeeps,
     PullDoneKeeps, PullStepsKeep DEF ThreadNext

\* The data, the load under way, the latest pages on their way and the holes are
\* related as the invariant says.
THEOREM ThreadInvariant == ThreadSpec => []ThreadInv
<1>. QED
  BY ThreadInitInv, ThreadNextInv, PTL DEF ThreadSpec

\* The data, the load and the pulls have the declared shapes.
THEOREM ThreadTyping == ThreadSpec => []ThreadTypeOK
<1>1. ThreadInv => ThreadTypeOK
  BY DEF ThreadInv
<1>. QED
  BY <1>1, ThreadInvariant, PTL

\* However loads, pulls, answers and late commits overlap, what is missing in the
\* thread was saved after a message dated later, or is below an own message that
\* was shown before those that precede it.
THEOREM HolesAccountedFor == ThreadSpec => []HolesExplained
<1>1. ThreadInv => HolesExplained
  <2>1. ASSUME ThreadInv, NEW x \in stored, Hole(x), x \notin late
        PROVE  \E m \in alone : m > x
    BY <2>1 DEF ThreadInv, PagesFit, Explained, Hole
  <2>. QED
    BY <2>1 DEF HolesExplained
<1>. QED
  BY <1>1, ThreadInvariant, PTL

\* A message that was shown disappears only with a load that read its first page
\* before it was there, left out its page or began from older data.
Vanishing ==
  \A x \in shown : x \notin shown' =>
    /\ Loading /\ load.left = 0
    /\ x \notin load.at \/ (load.kind = "all" /\ x < low')

LEMMA VanishingSteps ==
  ASSUME ThreadInv, [ThreadNext]_threadVars
  PROVE  Vanishing
<1>1. \/ shown \subseteq shown'
      \/ LoadDone
  BY DEF ThreadNext, Arrive, Send, Commit, SendAnswered, Refetch, LoadOlder, LoadRead, LoadFailed, Pull,
         PullRead, PullDone, PullFailed, Add, threadVars, threadData
<1>2. ASSUME LoadDone, NEW x \in shown, x \notin shown', x \in load.at
      PROVE  load.kind = "all" /\ x < low'
  <2>1. Loading /\ load.left = 0 /\ shown' = load.shown /\ low' = load.low
    BY <1>2 DEF LoadDone
  <2>2. /\ load.pages > 0 /\ \A y \in load.at : load.low <= y => y \in load.shown
        /\ load.kind = "older" => load.at \subseteq load.shown
    BY <2>1 DEF ThreadInv, LoadFits
  <2>3. load.kind = "all"
    <3>1. load.kind \in {"none", "all", "older"} /\ load.kind # "none"
      BY <2>1 DEF ThreadInv, ThreadTypeOK, Load, Loading
    <3>. QED
      BY <1>2, <2>1, <2>2, <3>1
  <2>4. x \in Nat /\ load.low \in Nat /\ ~(load.low <= x)
    BY <1>2, <2>1, <2>2, Numbers DEF ThreadInv, Ids
  <2>. QED
    BY <2>1, <2>3, <2>4
<1>3. LoadDone => Loading /\ load.left = 0
  BY DEF LoadDone
<1>. QED
  BY <1>1, <1>2, <1>3 DEF Vanishing

\* A message once shown goes only when a load replaces the data.
THEOREM VanishingExplained == ThreadSpec => VanishOnlyByLoad
<1>1. ThreadInv /\ [ThreadNext]_threadVars => [Vanishing]_threadVars
  BY VanishingSteps
<1>2. VanishOnlyByLoad <=> [][Vanishing]_threadVars
  BY PTL DEF VanishOnlyByLoad, Vanishing
<1>. QED
  BY <1>1, <1>2, ThreadInvariant, PTL DEF ThreadSpec

-----------------------------------------------------------------------------
(***************************************************************************)
(* What holds of Reading for any queries and bounds.  A query that missed  *)
(* nothing shows what the server has, or something is on its way that will *)
(* make it read: a notice, the answer to a mark, its own request, or its   *)
(* next mounting.  And what the effect marked last, if no message came     *)
(* since, is read, or its mark is on its way or has failed.                *)
(***************************************************************************)

Pending == notices > 0 \/ marks.handled > 0

\* A query, and the answer on its way to it.
Covered(q) ==
  /\ Answered(q) => fetch[q].view = Now(q) \/ Pending
  /\ Loaded(q) => \/ data[q] = Now(q) \/ fetch[q] # Idle
                  \/ q \in stale /\ ~Active(q)
                  \/ Pending

Informing == \A q \in Queries \ missed : Covered(q)

\* Nothing shows a message that was not sent yet.
NotAhead ==
  /\ notices <= sent /\ acted.latest <= sent
  /\ \A q \in Queries : /\ Loaded(q) => data[q].latest <= sent
                        /\ Answered(q) => fetch[q].view.latest <= sent

Marked ==
  /\ marks.asked + marks.handled <= MaxMarks
  /\ acted.unread > 0 /\ acted.latest = sent
       => marks.asked > 0 \/ read = sent \/ refused = TRUE

ReadingInv == ReadingTypeOK /\ Informing /\ NotAhead /\ Marked

-----------------------------------------------------------------------------
(* Queries.                                                                *)

LEMMA Shapes ==
  /\ Idle \in FetchState /\ Asked \in FetchState /\ Asked # Idle
  /\ Asked.stage # "answered" /\ Idle.stage # "answered"
  /\ Zero \in View /\ NoData \notin View /\ Zero.latest = 0 /\ Zero.unread = 0
<1>1. Idle.stage = "idle" /\ Asked.stage = "asked"
  BY DEF Idle, Asked
<1>2. Idle \in FetchState /\ Asked \in FetchState
  BY DEF Idle, Asked, FetchState
<1>3. Zero \in View /\ NoData \notin View /\ Zero.latest = 0 /\ Zero.unread = 0
  BY ReadingAssumption DEF Zero, View
<1>. QED
  BY <1>1, <1>2, <1>3

LEMMA Types ==
  ASSUME ReadingTypeOK
  PROVE  /\ sent \in Nat /\ read \in Nat /\ read <= sent /\ sent <= MaxSent /\ MaxSent \in Nat
         /\ open \in BOOLEAN /\ visible \in BOOLEAN /\ ready \in BOOLEAN
         /\ before \in BOOLEAN /\ refused \in BOOLEAN
         /\ notices \in Nat /\ marks.asked \in Nat /\ marks.handled \in Nat /\ MaxMarks \in Nat
         /\ acted.latest \in Nat /\ acted.unread \in Nat
         /\ \A q \in Queries : /\ data[q] \in View \cup {NoData} /\ fetch[q] \in FetchState
                               /\ Loaded(q) => data[q].latest \in Nat /\ data[q] \in View
                               /\ Answered(q) => fetch[q].view.latest \in Nat /\ fetch[q].view \in View
<1>1. /\ sent \in Nat /\ read \in Nat /\ read <= sent /\ sent <= MaxSent /\ MaxSent \in Nat
      /\ notices \in Nat /\ MaxMarks \in Nat
  BY ReadingAssumption DEF ReadingTypeOK
<1>2. open \in BOOLEAN /\ visible \in BOOLEAN /\ ready \in BOOLEAN /\ before \in BOOLEAN /\ refused \in BOOLEAN
  BY DEF ReadingTypeOK
<1>3. marks.asked \in Nat /\ marks.handled \in Nat
  BY <1>1 DEF ReadingTypeOK
<1>4. acted.latest \in Nat /\ acted.unread \in Nat
  BY <1>1 DEF ReadingTypeOK, View
<1>5. ASSUME NEW q \in Queries
      PROVE  /\ data[q] \in View \cup {NoData} /\ fetch[q] \in FetchState
             /\ Loaded(q) => data[q].latest \in Nat /\ data[q] \in View
             /\ Answered(q) => fetch[q].view.latest \in Nat /\ fetch[q].view \in View
  <2>1. data[q] \in View \cup {NoData} /\ fetch[q] \in FetchState
    BY DEF ReadingTypeOK
  <2>2. Loaded(q) => data[q].latest \in Nat /\ data[q] \in View
    BY <1>1, <2>1 DEF Loaded, View
  <2>3. Answered(q) => fetch[q].view \in View
    BY <2>1 DEF Answered, FetchState
  <2>4. \A v \in View : v.latest \in Nat
    BY <1>1 DEF View
  <2>. QED
    BY <2>1, <2>2, <2>3, <2>4
<1>. QED
  BY <1>1, <1>2, <1>3, <1>4, <1>5

LEMMA NowIs ==
  ASSUME ReadingTypeOK, NEW q \in Queries
  PROVE  /\ Now(q) \in View /\ Now(q).latest <= sent
         /\ q \notin Timed => Now(q).unread = sent - read /\ Now(q).latest = sent
<1>1. sent \in Nat /\ read \in Nat /\ read <= sent /\ sent <= MaxSent /\ MaxSent \in Nat
  BY Types
<1>2. CASE q \in Timed
  <2>1. PICK u : u = IF sent > read THEN 1 ELSE 0
    OBVIOUS
  <2>2. u \in 0 .. MaxSent
    BY <1>1, <2>1
  <2>3. Now(q) = [Zero EXCEPT !.unread = u]
    BY <1>2, <2>1 DEF Now
  <2>4. Now(q) \in View /\ Now(q).latest = 0
    BY <1>1, <2>2, <2>3 DEF Zero, View
  <2>. QED
    BY <1>1, <1>2, <2>4
<1>3. CASE q \notin Timed
  <2>1. Now(q) = [unread |-> sent - read, latest |-> sent]
    BY <1>3 DEF Now
  <2>2. sent - read \in 0 .. MaxSent /\ sent \in 0 .. MaxSent
    BY <1>1
  <2>. QED
    BY <1>1, <2>1, <2>2 DEF View
<1>. QED
  BY <1>2, <1>3

\* After an invalidation nothing that has not missed something needs any news.
LEMMA InvalidateCovers ==
  ASSUME ReadingTypeOK, Invalidate, open' = open,
         \A q \in Queries : (data'[q] # NoData) <=> Loaded(q)
  PROVE  /\ fetch' \in [Queries -> FetchState] /\ stale' \subseteq Queries \ Timed /\ missed' \subseteq Queries
         /\ \A q \in Queries \ missed' : Covered(q)'
         /\ \A q \in Queries : Answered(q)' => Answered(q) /\ fetch'[q] = fetch[q]
<1>1. PICK again : again = {q \in Queries : Active(q) /\ (Loaded(q) \/ fetch[q] = Idle)}
  OBVIOUS
<1>2. /\ fetch' = [q \in Queries |-> IF q \in again THEN Asked ELSE fetch[q]]
      /\ stale' = {q \in Queries \ Timed : Loaded(q)}
      /\ missed' = missed \cup {q \in {p \in Queries \ again : Answered(p)} : Informed(q)}
  BY <1>1 DEF Invalidate, Miss
<1>3. fetch \in [Queries -> FetchState] /\ missed \subseteq Queries
  BY DEF ReadingTypeOK
<1>4. fetch' \in [Queries -> FetchState] /\ stale' \subseteq Queries \ Timed /\ missed' \subseteq Queries
  BY <1>2, <1>3, Shapes
<1>5. ASSUME NEW q \in Queries \ missed'
      PROVE  Covered(q)'
  <2>1. CASE q \in again
    <3>1. fetch'[q] = Asked
      BY <1>2, <2>1
    <3>. QED
      BY <3>1, Shapes DEF Covered, Answered
  <2>2. CASE q \notin again
    <3>1. fetch'[q] = fetch[q] /\ ~Answered(q)
      BY <1>2, <2>2 DEF Informed
    <3>2. Loaded(q) => ~Active(q)
      BY <1>1, <2>2
    <3>3. Loaded(q) => q \in stale' /\ ~Active(q)'
      BY <1>2, <3>2 DEF Active
    <3>. QED
      BY <3>1, <3>3 DEF Covered, Answered, Loaded
  <2>. QED
    BY <2>1, <2>2
<1>6. ASSUME NEW q \in Queries, Answered(q)'
      PROVE  Answered(q) /\ fetch'[q] = fetch[q]
  <2>1. q \notin again
    BY <1>2, <1>6, Shapes DEF Answered
  <2>2. fetch'[q] = fetch[q]
    BY <1>2, <2>1
  <2>. QED
    BY <1>6, <2>2 DEF Answered
<1>. QED
  BY <1>4, <1>5, <1>6

\* Nothing changes for who has missed nothing.
LEMMA StillInformed ==
  ASSUME ReadingInv, UNCHANGED <<sent, read, open, queries>>, missed \subseteq missed',
         \/ notices' = notices /\ marks'.handled = marks.handled
         \/ missed' = missed \cup {q \in Queries : Informed(q)}
  PROVE  Informing'
<1>1. ASSUME NEW q \in Queries \ missed'
      PROVE  Covered(q)'
  <2>1. Covered(q) /\ UNCHANGED <<data, fetch, stale>>
    BY DEF ReadingInv, Informing, queries
  <2>2. CASE Informed(q) /\ q \in Queries /\ missed' = missed \cup {p \in Queries : Informed(p)}
    BY <2>2
  <2>3. CASE ~Informed(q)
    BY <2>1, <2>3 DEF Informed, Covered, Loaded, Answered
  <2>4. CASE notices' = notices /\ marks'.handled = marks.handled
    BY <2>1, <2>4 DEF Covered, Loaded, Answered, Active, Now, Pending
  <2>. QED
    BY <2>2, <2>3, <2>4
<1>. QED
  BY <1>1 DEF Informing

\* The page and the marks are left alone.
LEMMA StillMarked ==
  ASSUME ReadingInv, UNCHANGED <<sent, read, acted, marks, refused>>
  PROVE  Marked' /\ acted'.latest <= sent' /\ acted' \in View
         /\ marks' \in [asked : 0 .. MaxMarks, handled : 0 .. MaxMarks]
  BY DEF ReadingInv, Marked, NotAhead, ReadingTypeOK

-----------------------------------------------------------------------------
(* The steps.                                                              *)

\* A step of the connection or of the page, which reads everything again,
\* makes nobody miss anything, or makes everybody miss it.
LEMMA AroundKeeps ==
  ASSUME ReadingInv, UNCHANGED <<sent, read, acted, refused, data>>,
         \/ Invalidate /\ open' = open
         \/ UNCHANGED <<fetch, stale>> /\ open' = open /\ missed' = missed
              /\ notices' = notices /\ marks'.handled = marks.handled
         \/ UNCHANGED <<fetch, stale>> /\ open' = open /\ Miss(Queries)
         \/ UNCHANGED <<fetch, stale>> /\ ~open' /\ missed' = missed
              /\ notices' = notices /\ marks'.handled = marks.handled,
         open' \in BOOLEAN, visible' \in BOOLEAN, ready' \in BOOLEAN, ready' => open',
         before' \in BOOLEAN, channel' \in {"down", "joining", "subscribed"},
         notices' \in 0 .. notices, marks' = marks
  PROVE  ReadingInv'
<1>1. /\ fetch' \in [Queries -> FetchState] /\ stale' \subseteq Queries \ Timed /\ missed' \subseteq Queries
      /\ Informing'
      /\ \A q \in Queries : Answered(q)' => Answered(q) /\ fetch'[q] = fetch[q]
  <2>1. CASE Invalidate /\ open' = open
    BY <2>1, InvalidateCovers DEF ReadingInv, Informing, Loaded
  <2>2. CASE UNCHANGED <<fetch, stale>> /\ open' = open /\ missed' = missed
               /\ notices' = notices /\ marks'.handled = marks.handled
    <3>1. Informing'
      BY <2>2, StillInformed DEF queries
    <3>. QED
      BY <2>2, <3>1 DEF ReadingInv, ReadingTypeOK, Answered
  <2>3. CASE UNCHANGED <<fetch, stale>> /\ open' = open /\ Miss(Queries)
    <3>1. missed' = missed \cup {q \in Queries : Informed(q)}
      BY <2>3 DEF Miss
    <3>2. Informing'
      BY <2>3, <3>1, StillInformed DEF queries
    <3>. QED
      BY <2>3, <3>1, <3>2 DEF ReadingInv, ReadingTypeOK, Answered
  <2>4. CASE UNCHANGED <<fetch, stale>> /\ ~open' /\ missed' = missed
               /\ notices' = notices /\ marks'.handled = marks.handled
    <3>1. ASSUME NEW q \in Queries \ missed'
          PROVE  Covered(q)'
      <4>1. Covered(q) /\ (Active(q)' => Active(q))
        BY <2>4 DEF ReadingInv, Informing, Active
      <4>. QED
        BY <2>4, <4>1 DEF Covered, Loaded, Answered, Now, Pending
    <3>. QED
      BY <2>4, <3>1 DEF ReadingInv, ReadingTypeOK, Answered, Informing
  <2>. QED
    BY <2>1, <2>2, <2>3, <2>4
<1>2. Marked' /\ acted'.latest <= sent'
  BY StillMarked
<1>3. notices' \in Nat /\ notices' <= notices /\ notices \in Nat /\ sent \in Nat /\ sent <= MaxSent
      /\ MaxSent \in Nat /\ notices <= sent
  BY Types DEF ReadingInv, NotAhead
<1>4. notices' <= sent' /\ notices' \in 0 .. MaxSent
  BY <1>3
<1>5. NotAhead'
  <2>1. ASSUME NEW q \in Queries
        PROVE  /\ Loaded(q)' => data'[q].latest <= sent'
               /\ Answered(q)' => fetch'[q].view.latest <= sent'
    BY <1>1 DEF ReadingInv, NotAhead, Loaded
  <2>. QED
    BY <1>2, <1>4, <2>1 DEF NotAhead
<1>6. ReadingTypeOK'
  <2>1. {open', visible', ready', before', refused'} \subseteq BOOLEAN
    BY DEF ReadingInv, ReadingTypeOK
  <2>2. sent' \in 0 .. MaxSent /\ read' \in 0 .. sent' /\ data' \in [Queries -> View \cup {NoData}]
        /\ acted' \in View /\ marks' \in [asked : 0 .. MaxMarks, handled : 0 .. MaxMarks]
    BY DEF ReadingInv, ReadingTypeOK
  <2>. QED
    BY <1>1, <1>4, <2>1, <2>2 DEF ReadingTypeOK
<1>. QED
  BY <1>1, <1>2, <1>5, <1>6 DEF ReadingInv

\* One query changes, and it alone may come to miss something or be told of it.
LEMMA OneQuery ==
  ASSUME ReadingInv, NEW q \in Queries, UNCHANGED <<server, page, realtime, acted, marks, refused>>,
         data' \in [Queries -> View \cup {NoData}], fetch' \in [Queries -> FetchState],
         stale' \subseteq Queries \ Timed,
         \A p \in Queries \ {q} : /\ data'[p] = data[p] /\ fetch'[p] = fetch[p]
                                  /\ p \in stale' <=> p \in stale,
         missed' \subseteq Queries, missed \ {q} \subseteq missed',
         q \notin missed' => Covered(q)',
         Loaded(q)' => data'[q].latest <= sent,
         Answered(q)' => fetch'[q].view.latest <= sent
  PROVE  ReadingInv'
<1>1. UNCHANGED <<sent, read, open, visible, ready, channel, before, notices, acted, marks, refused>>
  BY DEF server, page, realtime
<1>2. ReadingTypeOK'
  BY <1>1 DEF ReadingInv, ReadingTypeOK
<1>3. Informing'
  <2>1. ASSUME NEW p \in Queries \ missed', p # q
        PROVE  Covered(p)'
    <3>1. Covered(p)
      BY <2>1 DEF ReadingInv, Informing
    <3>. QED
      BY <1>1, <2>1, <3>1 DEF Covered, Loaded, Answered, Active, Now, Pending
  <2>. QED
    BY <2>1 DEF Informing
<1>4. NotAhead'
  <2>1. ASSUME NEW p \in Queries
        PROVE  /\ Loaded(p)' => data'[p].latest <= sent'
               /\ Answered(p)' => fetch'[p].view.latest <= sent'
    <3>1. CASE p = q
      BY <1>1, <3>1
    <3>2. CASE p # q
      BY <1>1, <3>2 DEF ReadingInv, NotAhead, Loaded, Answered
    <3>. QED
      BY <3>1, <3>2
  <2>. QED
    BY <1>1, <2>1 DEF NotAhead, ReadingInv
<1>5. Marked'
  BY <1>1, StillMarked
<1>. QED
  BY <1>2, <1>3, <1>4, <1>5 DEF ReadingInv

LEMMA FetchKeeps ==
  ASSUME ReadingInv, NEW q \in Queries, FetchRead(q) \/ FetchDone(q) \/ FetchFail(q) \/ Tick(q)
  PROVE  ReadingInv'
<1>1. /\ data \in [Queries -> View \cup {NoData}] /\ fetch \in [Queries -> FetchState]
      /\ stale \subseteq Queries \ Timed /\ missed \subseteq Queries
      /\ fetch[q] \in FetchState /\ (Loaded(q) => data[q].latest <= sent)
      /\ (Answered(q) => fetch[q].view \in View /\ fetch[q].view.latest <= sent)
  BY Types DEF ReadingInv, ReadingTypeOK, NotAhead
<1>2. CASE FetchRead(q)
  <2>1. PICK f : f = [stage |-> "answered", view |-> Now(q)]
    OBVIOUS
  <2>2. f \in FetchState /\ f.view = Now(q) /\ f # Idle /\ Now(q).latest <= sent
    <3>1. Now(q) \in View /\ Now(q).latest <= sent
      BY NowIs DEF ReadingInv
    <3>2. f.stage = "answered" /\ f.view = Now(q)
      BY <2>1
    <3>3. f \in FetchState
      BY <2>1, <3>1 DEF FetchState
    <3>. QED
      BY <3>1, <3>2, <3>3, Shapes
  <2>3. /\ fetch' = [fetch EXCEPT ![q] = f] /\ missed' = missed \ {q}
        /\ UNCHANGED <<server, page, realtime, data, stale, acted, marks, refused>>
    BY <1>2, <2>1 DEF FetchRead
  <2>4. fetch'[q] = f /\ (\A p \in Queries \ {q} : fetch'[p] = fetch[p]) /\ fetch' \in [Queries -> FetchState]
    BY <1>1, <2>2, <2>3
  <2>5. Covered(q)'
    <3>1. Now(q)' = Now(q)
      BY <2>3 DEF Now, server
    <3>. QED
      BY <2>2, <2>4, <3>1 DEF Covered
  <2>6. (Loaded(q)' => data'[q].latest <= sent) /\ (Answered(q)' => fetch'[q].view.latest <= sent)
    BY <1>1, <2>2, <2>3, <2>4 DEF Loaded
  <2>. QED
    BY <1>1, <2>3, <2>4, <2>5, <2>6, OneQuery
<1>3. CASE FetchDone(q)
  <2>1. PICK v : v = fetch[q].view
    OBVIOUS
  <2>2. v \in View /\ v.latest <= sent /\ Answered(q)
    BY <1>1, <1>3, <2>1 DEF FetchDone
  <2>3. /\ data' = [data EXCEPT ![q] = v] /\ fetch' = [fetch EXCEPT ![q] = Idle]
        /\ stale' = stale \ {q} /\ missed' = missed
        /\ UNCHANGED <<server, page, realtime, acted, marks, refused>>
    BY <1>3, <2>1 DEF FetchDone, history
  <2>4. /\ data'[q] = v /\ fetch'[q] = Idle /\ data' \in [Queries -> View \cup {NoData}]
        /\ fetch' \in [Queries -> FetchState]
        /\ \A p \in Queries \ {q} : /\ data'[p] = data[p] /\ fetch'[p] = fetch[p]
                                    /\ p \in stale' <=> p \in stale
    BY <1>1, <2>2, <2>3, Shapes
  <2>5. q \notin missed' => Covered(q)'
    <3>1. q \notin missed => v = Now(q) \/ Pending
      BY <2>1, <2>2 DEF ReadingInv, Informing, Covered
    <3>2. Now(q)' = Now(q) /\ Pending' = Pending
      BY <2>3 DEF Now, server, Pending, realtime
    <3>. QED
      BY <2>3, <2>4, <3>1, <3>2, Shapes DEF Covered, Answered
  <2>6. ~Answered(q)' /\ (Loaded(q)' => data'[q].latest <= sent)
    BY <2>2, <2>4, Shapes DEF Answered
  <2>. QED
    BY <1>1, <2>3, <2>4, <2>5, <2>6, OneQuery
<1>4. CASE FetchFail(q)
  <2>1. /\ fetch' = [fetch EXCEPT ![q] = Idle]
        /\ stale' = IF Loaded(q) THEN stale \cup ({q} \ Timed) ELSE stale
        /\ missed' = missed \cup {p \in {q} : Informed(p)}
        /\ UNCHANGED <<server, page, realtime, data, acted, marks, refused>>
    BY <1>4 DEF FetchFail, Miss
  <2>2. fetch'[q] = Idle /\ (\A p \in Queries \ {q} : fetch'[p] = fetch[p]) /\ fetch' \in [Queries -> FetchState]
    BY <1>1, <2>1, Shapes
  <2>3. ~Answered(q)' /\ (Loaded(q)' <=> Loaded(q))
    BY <2>1, <2>2, Shapes DEF Answered, Loaded
  <2>4. q \notin missed' => Covered(q)'
    BY <2>1, <2>3 DEF Informed, Covered
  <2>5. stale' \subseteq Queries \ Timed /\ missed' \subseteq Queries
        /\ \A p \in Queries \ {q} : p \in stale' <=> p \in stale
    BY <1>1, <2>1
  <2>6. Loaded(q)' => data'[q].latest <= sent
    BY <1>1, <2>1, <2>3
  <2>. QED
    BY <1>1, <2>1, <2>2, <2>3, <2>4, <2>5, <2>6, OneQuery
<1>5. CASE Tick(q)
  <2>1. /\ fetch' = [fetch EXCEPT ![q] = Asked] /\ missed' = missed
        /\ UNCHANGED <<server, page, realtime, data, stale, acted, marks, refused>>
    BY <1>5 DEF Tick, history
  <2>2. fetch'[q] = Asked /\ (\A p \in Queries \ {q} : fetch'[p] = fetch[p]) /\ fetch' \in [Queries -> FetchState]
    BY <1>1, <2>1, Shapes
  <2>3. ~Answered(q)' /\ Covered(q)'
    BY <2>2, Shapes DEF Answered, Covered
  <2>4. Loaded(q)' => data'[q].latest <= sent
    BY <1>1, <2>1 DEF Loaded
  <2>. QED
    BY <1>1, <2>1, <2>2, <2>3, <2>4, OneQuery
<1>. QED
  BY <1>2, <1>3, <1>4, <1>5

LEMMA RealtimeKeeps ==
  ASSUME ReadingInv, Notice \/ LoseNotice \/ Connect \/ Subscribe \/ Disconnect \/ Poll
  PROVE  ReadingInv'
<1>1. /\ open \in BOOLEAN /\ visible \in BOOLEAN /\ ready \in BOOLEAN /\ before \in BOOLEAN
      /\ (ready => open) /\ channel \in {"down", "joining", "subscribed"}
      /\ notices \in Nat /\ notices \in 0 .. notices /\ 0 \in 0 .. notices
      /\ missed \cup {q \in {} : Informed(q)} = missed
  BY Types DEF ReadingInv, ReadingTypeOK
<1>2. CASE Notice
  <2>1. notices - 1 \in 0 .. notices
    BY <1>1, <1>2 DEF Notice
  <2>. QED
    BY <1>1, <1>2, <2>1, AroundKeeps DEF Notice, server, page
<1>3. CASE LoseNotice
  <2>1. notices - 1 \in 0 .. notices
    BY <1>1, <1>3 DEF LoseNotice
  <2>. QED
    BY <1>1, <1>3, <2>1, AroundKeeps DEF LoseNotice, server, page, queries
<1>4. CASE Connect
  <2>1. CASE before
    BY <1>1, <1>4, <2>1, AroundKeeps DEF Connect, server, page
  <2>2. CASE ~before
    BY <1>1, <1>4, <2>2, AroundKeeps DEF Connect, server, page
  <2>. QED
    BY <2>1, <2>2
<1>5. CASE Subscribe
  BY <1>1, <1>5, AroundKeeps DEF Subscribe, server, page, queries, history
<1>6. CASE Disconnect
  <2>1. CASE notices > 0
    <3>1. Miss(Queries)
      BY <1>6, <2>1 DEF Disconnect
    <3>. QED
      BY <1>1, <1>6, <3>1, AroundKeeps DEF Disconnect, server, page, queries
  <2>2. CASE ~(notices > 0)
    <3>1. notices = 0
      BY <1>1, <2>2
    <3>2. missed' = missed /\ notices' = notices
      BY <1>1, <1>6, <2>2, <3>1 DEF Disconnect, Miss
    <3>. QED
      BY <1>1, <1>6, <3>2, AroundKeeps DEF Disconnect, server, page, queries
  <2>. QED
    BY <2>1, <2>2
<1>7. CASE Poll
  BY <1>1, <1>7, AroundKeeps DEF Poll, server, page, realtime
<1>. QED
  BY <1>2, <1>3, <1>4, <1>5, <1>6, <1>7

LEMMA PageKeeps ==
  ASSUME ReadingInv, Close \/ Ready \/ Hide \/ Show
  PROVE  ReadingInv'
<1>1. /\ open \in BOOLEAN /\ visible \in BOOLEAN /\ ready \in BOOLEAN /\ before \in BOOLEAN
      /\ (ready => open) /\ channel \in {"down", "joining", "subscribed"}
      /\ notices \in 0 .. notices
  BY Types DEF ReadingInv, ReadingTypeOK
<1>2. CASE Close
  BY <1>1, <1>2, AroundKeeps DEF Close, server, realtime, queries, history
<1>3. CASE Ready
  BY <1>1, <1>3, AroundKeeps DEF Ready, server, realtime, queries, history
<1>4. CASE Hide
  BY <1>1, <1>4, AroundKeeps DEF Hide, server, realtime, queries, history
<1>5. CASE Show
  <2>1. CASE open
    BY <1>1, <1>5, <2>1, AroundKeeps DEF Show, server, realtime
  <2>2. CASE ~open
    BY <1>1, <1>5, <2>2, AroundKeeps DEF Show, server, realtime
  <2>. QED
    BY <2>1, <2>2
<1>. QED
  BY <1>2, <1>3, <1>4, <1>5

\* What is stale is read when the conversation is opened.
LEMMA OpenKeeps ==
  ASSUME ReadingInv, Open
  PROVE  ReadingInv'
<1>1. PICK old \in SUBSET (Queries \ Timed), wanted \in SUBSET (Queries \ Timed) :
        /\ wanted = {q \in Queries \ Timed : fetch[q] = Idle /\ (~Loaded(q) \/ q \in stale \cup old)}
        /\ fetch' = [q \in Queries |-> IF q \in wanted THEN Asked ELSE fetch[q]]
  BY DEF Open, Mount
<1>2. /\ open' = TRUE /\ ready' = FALSE
      /\ UNCHANGED <<sent, read, visible, channel, before, notices, data, stale, acted, marks, missed, refused>>
  BY DEF Open, server, realtime, history
<1>3. fetch' \in [Queries -> FetchState]
  BY <1>1, Shapes DEF ReadingInv, ReadingTypeOK
<1>4. ASSUME NEW q \in Queries
      PROVE  Answered(q)' => Answered(q) /\ fetch'[q] = fetch[q]
  <2>1. q \in wanted => fetch'[q] = Asked
    BY <1>1
  <2>2. q \notin wanted => fetch'[q] = fetch[q]
    BY <1>1
  <2>. QED
    BY <2>1, <2>2, Shapes DEF Answered
<1>5. Informing'
  <2>1. ASSUME NEW q \in Queries \ missed
        PROVE  Covered(q)'
    <3>1. Covered(q) /\ stale \subseteq Queries \ Timed /\ Now(q)' = Now(q) /\ Pending' = Pending
      BY <1>2 DEF ReadingInv, Informing, ReadingTypeOK, Now, Pending
    <3>2. CASE q \in wanted
      <4>1. fetch'[q] = Asked
        BY <1>1, <3>2
      <4>. QED
        BY <4>1, Shapes DEF Covered, Answered
    <3>3. CASE q \notin wanted
      <4>1. fetch'[q] = fetch[q]
        BY <1>1, <3>3
      <4>2. q \in stale => fetch[q] # Idle
        BY <1>1, <3>1, <3>3
      <4>. QED
        BY <1>2, <3>1, <4>1, <4>2 DEF Covered, Answered, Loaded
    <3>. QED
      BY <3>2, <3>3
  <2>. QED
    BY <1>2, <2>1 DEF Informing
<1>6. NotAhead'
  <2>1. ASSUME NEW q \in Queries
        PROVE  /\ Loaded(q)' => data'[q].latest <= sent'
               /\ Answered(q)' => fetch'[q].view.latest <= sent'
    BY <1>2, <1>4 DEF ReadingInv, NotAhead, Loaded
  <2>. QED
    BY <1>2, <2>1 DEF NotAhead, ReadingInv
<1>7. Marked'
  BY <1>2, StillMarked
<1>8. ReadingTypeOK'
  BY <1>2, <1>3 DEF ReadingInv, ReadingTypeOK
<1>. QED
  BY <1>5, <1>6, <1>7, <1>8 DEF ReadingInv

LEMMA ReceiveKeeps ==
  ASSUME ReadingInv, Receive
  PROVE  ReadingInv'
<1>1. /\ sent < MaxSent /\ sent' = sent + 1 /\ refused' = FALSE
      /\ notices' = (IF channel = "subscribed" THEN notices + 1 ELSE notices)
      /\ UNCHANGED <<read, open, visible, ready, channel, before, data, fetch, stale, acted, marks>>
  BY DEF Receive, page, queries
<1>2. missed' = missed \cup {q \in (IF channel = "subscribed" THEN {} ELSE Queries) : Informed(q)}
  BY DEF Receive, Miss
<1>3. /\ sent \in Nat /\ read \in Nat /\ read <= sent /\ MaxSent \in Nat /\ notices \in Nat
      /\ notices <= sent /\ acted.latest \in Nat /\ acted.latest <= sent
  BY Types DEF ReadingInv, NotAhead
<1>4. /\ sent' \in 0 .. MaxSent /\ read' \in 0 .. sent' /\ notices' \in 0 .. MaxSent /\ notices' <= sent'
      /\ sent <= sent' /\ sent < sent' /\ sent' \in Nat
  BY <1>1, <1>3
<1>5. ReadingTypeOK'
  <2>1. missed' \subseteq Queries /\ refused' \in BOOLEAN
    BY <1>1, <1>2 DEF ReadingInv, ReadingTypeOK
  <2>2. {open', visible', ready', before', refused'} \subseteq BOOLEAN
    BY <1>1, <2>1 DEF ReadingInv, ReadingTypeOK
  <2>. QED
    BY <1>1, <1>4, <2>1, <2>2 DEF ReadingInv, ReadingTypeOK
<1>6. Informing'
  <2>1. ASSUME NEW q \in Queries \ missed'
        PROVE  Covered(q)'
    <3>1. CASE channel = "subscribed"
      <4>1. notices' > 0
        BY <1>1, <1>3, <3>1
      <4>. QED
        BY <4>1 DEF Covered, Pending
    <3>2. CASE channel # "subscribed"
      <4>1. ~Informed(q)
        BY <1>2, <3>2
      <4>. QED
        BY <1>1, <4>1 DEF Informed, Covered, Loaded, Answered
    <3>. QED
      BY <3>1, <3>2
  <2>. QED
    BY <2>1 DEF Informing
<1>7. NotAhead'
  <2>1. ASSUME NEW q \in Queries
        PROVE  /\ Loaded(q)' => data'[q].latest <= sent'
               /\ Answered(q)' => fetch'[q].view.latest <= sent'
    <3>1. /\ Loaded(q) => data[q].latest <= sent /\ data[q].latest \in Nat
          /\ Answered(q) => fetch[q].view.latest <= sent /\ fetch[q].view.latest \in Nat
      BY Types DEF ReadingInv, NotAhead
    <3>. QED
      BY <1>1, <1>3, <1>4, <3>1 DEF Loaded, Answered
  <2>2. acted'.latest <= sent'
    BY <1>1, <1>3
  <2>. QED
    BY <1>4, <2>1, <2>2 DEF NotAhead
<1>8. Marked'
  <2>1. acted'.latest # sent'
    BY <1>1, <1>3
  <2>. QED
    BY <1>1, <2>1 DEF ReadingInv, Marked
<1>. QED
  BY <1>5, <1>6, <1>7, <1>8 DEF ReadingInv

LEMMA EffectKeeps ==
  ASSUME ReadingInv, Effect
  PROVE  ReadingInv'
<1>1. /\ acted' = Unread /\ UNCHANGED <<sent, read, open, visible, ready, channel, before, notices>>
      /\ UNCHANGED <<data, fetch, stale, missed>>
  BY DEF Effect, server, page, realtime, queries
<1>2. Unread \in View /\ Unread.latest <= sent
  <2>1. CASE Loaded(Opened) /\ Unread = data[Opened]
    BY <2>1, Types, ReadingAssumption DEF ReadingInv, NotAhead
  <2>2. CASE Unread = Zero
    BY <2>2, Shapes, Types DEF ReadingInv
  <2>. QED
    BY <2>1, <2>2 DEF Unread
<1>3. /\ marks.asked \in 0 .. MaxMarks /\ marks.handled \in 0 .. MaxMarks /\ MaxMarks \in Nat
      /\ marks \in [asked : 0 .. MaxMarks, handled : 0 .. MaxMarks]
      /\ marks.asked + marks.handled <= MaxMarks
  BY ReadingAssumption DEF ReadingInv, ReadingTypeOK, Marked
<1>4. /\ marks' \in [asked : 0 .. MaxMarks, handled : 0 .. MaxMarks] /\ refused' \in BOOLEAN
      /\ marks'.handled = marks.handled /\ marks'.asked + marks'.handled <= MaxMarks
      /\ Unread = Zero \/ marks'.asked > 0
  <2>1. CASE Unread # Zero
    <3>1. PICK n : n = marks.asked + 1
      OBVIOUS
    <3>2. marks.asked + marks.handled < MaxMarks /\ marks' = [marks EXCEPT !.asked = n] /\ refused' = FALSE
      BY <2>1, <3>1 DEF Effect
    <3>3. n \in 0 .. MaxMarks /\ n > 0 /\ n + marks.handled <= MaxMarks
      BY <1>3, <3>1, <3>2
    <3>4. marks'.asked = n /\ marks'.handled = marks.handled
      BY <1>3, <3>2
    <3>5. marks' \in [asked : 0 .. MaxMarks, handled : 0 .. MaxMarks]
      BY <1>3, <3>2, <3>3
    <3>. QED
      BY <3>2, <3>3, <3>4, <3>5
  <2>2. CASE Unread = Zero
    BY <1>3, <2>2 DEF Effect, ReadingInv, ReadingTypeOK
  <2>. QED
    BY <2>1, <2>2
<1>5. ReadingTypeOK'
  BY <1>1, <1>2, <1>4 DEF ReadingInv, ReadingTypeOK
<1>6. Informing'
  BY <1>1, <1>4, StillInformed DEF queries
<1>7. NotAhead'
  BY <1>1, <1>2 DEF ReadingInv, NotAhead, Loaded, Answered
<1>8. Marked'
  BY <1>1, <1>4, Shapes DEF Marked
<1>. QED
  BY <1>5, <1>6, <1>7, <1>8 DEF ReadingInv

\* What becomes of a mark on its way.
LEMMA MarkHandledKeeps ==
  ASSUME ReadingInv, MarkHandled
  PROVE  ReadingInv'
<1>1. /\ marks.asked > 0 /\ read' = sent
      /\ UNCHANGED <<sent, open, visible, ready, channel, before, notices>>
      /\ UNCHANGED <<data, fetch, stale, acted, missed, refused>>
  BY DEF MarkHandled, page, realtime, queries, history
<1>2. /\ marks.asked \in 0 .. MaxMarks /\ marks.handled \in 0 .. MaxMarks /\ MaxMarks \in Nat
      /\ marks.asked + marks.handled <= MaxMarks /\ sent \in Nat
  BY ReadingAssumption, Types DEF ReadingInv, ReadingTypeOK, Marked
<1>3. PICK a, h : a = marks.asked - 1 /\ h = marks.handled + 1
  OBVIOUS
<1>4. a \in 0 .. MaxMarks /\ h \in 0 .. MaxMarks /\ h > 0 /\ a + h <= MaxMarks
  BY <1>1, <1>2, <1>3
<1>5. marks' = [asked |-> a, handled |-> h]
  BY <1>3 DEF MarkHandled
<1>6. ReadingTypeOK'
  <2>1. marks' \in [asked : 0 .. MaxMarks, handled : 0 .. MaxMarks]
    BY <1>4, <1>5
  <2>2. read' \in 0 .. sent'
    BY <1>1, <1>2
  <2>. QED
    BY <1>1, <2>1, <2>2 DEF ReadingInv, ReadingTypeOK
<1>7. Informing'
  BY <1>4, <1>5 DEF Informing, Covered, Pending
<1>8. NotAhead'
  BY <1>1 DEF ReadingInv, NotAhead, Loaded, Answered
<1>9. Marked'
  BY <1>1, <1>4, <1>5 DEF Marked
<1>. QED
  BY <1>6, <1>7, <1>8, <1>9 DEF ReadingInv

LEMMA MarkDoneKeeps ==
  ASSUME ReadingInv, MarkDone
  PROVE  ReadingInv'
<1>1. /\ Invalidate /\ marks.handled > 0
      /\ data' = [q \in Queries |-> IF q \in Timed THEN data[q] ELSE ReadIn(data[q])]
      /\ UNCHANGED <<sent, read, open, visible, ready, channel, before, notices, acted, refused>>
  BY DEF MarkDone, server, page, realtime
<1>2. /\ marks \in [asked : 0 .. MaxMarks, handled : 0 .. MaxMarks] /\ MaxMarks \in Nat
      /\ marks.asked \in Nat /\ marks.handled \in Nat /\ marks.asked + marks.handled <= MaxMarks
  BY Types DEF ReadingInv, ReadingTypeOK, Marked
<1>3. PICK h : h = marks.handled - 1
  OBVIOUS
<1>4. h \in 0 .. MaxMarks /\ marks.asked + h <= MaxMarks
  <2>1. marks.handled \in 0 .. MaxMarks
    BY <1>2
  <2>. QED
    BY <1>1, <1>2, <1>3, <2>1
<1>5. marks' = [marks EXCEPT !.handled = h]
  BY <1>3 DEF MarkDone
<1>6. marks' \in [asked : 0 .. MaxMarks, handled : 0 .. MaxMarks]
      /\ marks'.asked = marks.asked /\ marks'.handled = h
  BY <1>2, <1>4, <1>5
<1>7. ASSUME NEW q \in Queries
      PROVE  /\ data'[q] \in View \cup {NoData} /\ (data'[q] # NoData <=> Loaded(q))
             /\ Loaded(q) => data'[q].latest <= sent
  <2>1. data[q] \in View \cup {NoData} /\ (Loaded(q) => data[q].latest <= sent)
    BY DEF ReadingInv, ReadingTypeOK, NotAhead
  <2>2. CASE q \in Timed \/ data[q] = NoData
    BY <1>1, <2>1, <2>2 DEF ReadIn, Loaded
  <2>3. CASE q \notin Timed /\ data[q] # NoData
    <3>1. PICK v : v = [data[q] EXCEPT !.unread = 0]
      OBVIOUS
    <3>2. v \in View /\ v.latest = data[q].latest
      <4>1. MaxSent \in Nat
        BY Types DEF ReadingInv
      <4>. QED
        BY <2>1, <2>3, <3>1, <4>1 DEF View
    <3>3. data'[q] = v
      BY <1>1, <2>3, <3>1 DEF ReadIn
    <3>. QED
      BY <2>1, <2>3, <3>2, <3>3, Shapes DEF Loaded
  <2>. QED
    BY <2>2, <2>3
<1>8. /\ fetch' \in [Queries -> FetchState] /\ stale' \subseteq Queries \ Timed /\ missed' \subseteq Queries
      /\ \A q \in Queries \ missed' : Covered(q)'
      /\ \A q \in Queries : Answered(q)' => Answered(q) /\ fetch'[q] = fetch[q]
  BY <1>1, <1>7, InvalidateCovers DEF ReadingInv
<1>9. ReadingTypeOK'
  <2>1. data' \in [Queries -> View \cup {NoData}]
    BY <1>1, <1>7
  <2>. QED
    BY <1>1, <1>6, <1>8, <2>1 DEF ReadingInv, ReadingTypeOK
<1>10. NotAhead'
  BY <1>1, <1>7, <1>8 DEF ReadingInv, NotAhead, Loaded
<1>11. Marked'
  BY <1>1, <1>4, <1>6 DEF ReadingInv, Marked
<1>. QED
  BY <1>8, <1>9, <1>10, <1>11 DEF ReadingInv, Informing

LEMMA MarkFailKeeps ==
  ASSUME ReadingInv, MarkFail
  PROVE  ReadingInv'
<1>1. /\ refused' = TRUE
      /\ UNCHANGED <<sent, read, open, visible, ready, channel, before, notices>>
      /\ UNCHANGED <<data, fetch, stale, acted>>
  BY DEF MarkFail, server, page, realtime, queries
<1>2. /\ marks \in [asked : 0 .. MaxMarks, handled : 0 .. MaxMarks] /\ MaxMarks \in Nat
      /\ marks.asked \in 0 .. MaxMarks /\ marks.handled \in 0 .. MaxMarks
      /\ marks.asked + marks.handled <= MaxMarks
  BY Types DEF ReadingInv, ReadingTypeOK, Marked
<1>3. /\ marks' \in [asked : 0 .. MaxMarks, handled : 0 .. MaxMarks]
      /\ marks'.asked + marks'.handled <= MaxMarks
      /\ missed \subseteq missed' /\ missed' \subseteq Queries
      /\ \/ notices' = notices /\ marks'.handled = marks.handled
         \/ missed' = missed \cup {q \in Queries : Informed(q)}
  <2>1. CASE marks.asked > 0 /\ marks' = [marks EXCEPT !.asked = @ - 1] /\ UNCHANGED missed
    <3>1. PICK n : n = marks.asked - 1
      OBVIOUS
    <3>2. n \in 0 .. MaxMarks /\ n + marks.handled <= MaxMarks
      BY <1>2, <2>1, <3>1
    <3>3. marks' = [marks EXCEPT !.asked = n]
      BY <2>1, <3>1
    <3>4. marks'.asked = n /\ marks'.handled = marks.handled /\ marks' \in [asked : 0 .. MaxMarks, handled : 0 .. MaxMarks]
      BY <1>2, <3>2, <3>3
    <3>. QED
      BY <1>1, <2>1, <3>2, <3>4 DEF ReadingInv, ReadingTypeOK
  <2>2. CASE marks.handled > 0 /\ marks' = [marks EXCEPT !.handled = @ - 1] /\ Miss(Queries)
    <3>1. PICK n : n = marks.handled - 1
      OBVIOUS
    <3>2. n \in 0 .. MaxMarks /\ marks.asked + n <= MaxMarks
      BY <1>2, <2>2, <3>1
    <3>3. marks' = [marks EXCEPT !.handled = n]
      BY <2>2, <3>1
    <3>4. marks'.handled = n /\ marks'.asked = marks.asked /\ marks' \in [asked : 0 .. MaxMarks, handled : 0 .. MaxMarks]
      BY <1>2, <3>2, <3>3
    <3>. QED
      BY <2>2, <3>2, <3>4 DEF ReadingInv, ReadingTypeOK, Miss
  <2>. QED
    BY <2>1, <2>2 DEF MarkFail
<1>4. ReadingTypeOK'
  BY <1>1, <1>3 DEF ReadingInv, ReadingTypeOK
<1>5. Informing'
  BY <1>1, <1>3, StillInformed DEF queries
<1>6. NotAhead'
  BY <1>1 DEF ReadingInv, NotAhead, Loaded, Answered
<1>7. Marked'
  BY <1>1, <1>3 DEF Marked
<1>. QED
  BY <1>4, <1>5, <1>6, <1>7 DEF ReadingInv

-----------------------------------------------------------------------------
LEMMA ReadingInitInv == ReadingInit => ReadingInv
<1>. SUFFICES ASSUME ReadingInit PROVE ReadingInv
  OBVIOUS
<1>1. /\ \A q \in Queries : data[q] = NoData /\ fetch[q] \in {Asked, Idle}
      /\ fetch \in [Queries -> {Asked, Idle}] /\ data \in [Queries -> {NoData}]
      /\ marks.asked = 0 /\ marks.handled = 0
      /\ marks \in [asked : {0}, handled : {0}]
  BY DEF ReadingInit
<1>2. ReadingTypeOK
  <2>1. 0 \in 0 .. MaxMarks /\ 0 \in 0 .. MaxSent
    BY ReadingAssumption
  <2>2. marks \in [asked : 0 .. MaxMarks, handled : 0 .. MaxMarks]
    BY <2>1 DEF ReadingInit
  <2>3. fetch \in [Queries -> FetchState] /\ data \in [Queries -> View \cup {NoData}] /\ acted \in View
    BY <1>1, Shapes DEF ReadingInit
  <2>4. sent \in 0 .. MaxSent /\ read \in 0 .. sent /\ notices \in 0 .. MaxSent
    BY <2>1 DEF ReadingInit
  <2>5. {open, visible, ready, before, refused} \subseteq BOOLEAN
    BY DEF ReadingInit
  <2>6. (ready => open) /\ channel \in {"down", "joining", "subscribed"}
        /\ stale \subseteq Queries \ Timed /\ missed \subseteq Queries
    BY DEF ReadingInit
  <2>. QED
    BY <2>2, <2>3, <2>4, <2>5, <2>6 DEF ReadingTypeOK
<1>3. Informing /\ NotAhead
  <2>1. \A q \in Queries : ~Answered(q) /\ ~Loaded(q)
    BY <1>1, Shapes DEF Answered, Loaded
  <2>. QED
    BY <2>1, Shapes DEF Informing, Covered, NotAhead, ReadingInit
<1>4. Marked
  BY <1>1, Shapes, ReadingAssumption DEF Marked, ReadingInit
<1>. QED
  BY <1>2, <1>3, <1>4 DEF ReadingInv

LEMMA ReadingNextInv == ReadingInv /\ [ReadingNext]_readingVars => ReadingInv'
<1>. SUFFICES ASSUME ReadingInv, [ReadingNext]_readingVars PROVE ReadingInv'
  OBVIOUS
<1>1. ASSUME UNCHANGED readingVars
      PROVE  ReadingInv'
  <2>1. UNCHANGED <<sent, read, open, visible, ready, channel, before, notices, data, fetch, stale, acted, marks, missed, refused>>
    BY <1>1 DEF readingVars, server, page, realtime, queries, history
  <2>2. ReadingTypeOK'
    BY <2>1 DEF ReadingInv, ReadingTypeOK
  <2>3. Informing'
    BY <2>1, StillInformed DEF queries
  <2>4. NotAhead' /\ Marked'
    BY <2>1 DEF ReadingInv, NotAhead, Loaded, Answered, Marked
  <2>. QED
    BY <2>2, <2>3, <2>4 DEF ReadingInv
<1>. QED
  BY <1>1, FetchKeeps, RealtimeKeeps, PageKeeps, OpenKeeps, ReceiveKeeps, EffectKeeps,
     MarkHandledKeeps, MarkDoneKeeps, MarkFailKeeps DEF ReadingNext

\* What the page holds and what is on its way fit the server at every moment.
THEOREM ReadingInvariant == ReadingSpec => []ReadingInv
<1>. QED
  BY ReadingInitInv, ReadingNextInv, PTL DEF ReadingSpec

\* Messages, queries and marks have the declared shapes.
THEOREM ReadingTyping == ReadingSpec => []ReadingTypeOK
<1>1. ReadingInv => ReadingTypeOK
  BY DEF ReadingInv
<1>. QED
  BY <1>1, ReadingInvariant, PTL

\* Once notices and marks have come in, every counter of the page that missed
\* nothing agrees with the server or is being read.
THEOREM CountersCatchUp == ReadingSpec => []CountersAgree
<1>1. ReadingInv => CountersAgree
  <2>. SUFFICES ASSUME ReadingInv, Quiet, NEW q \in Queries \ missed PROVE Current(q)
    BY DEF CountersAgree
  <2>1. ~Pending
    BY Types DEF ReadingInv, Quiet, Pending
  <2>. QED
    BY <2>1 DEF ReadingInv, Informing, Covered, Current
<1>. QED
  BY <1>1, ReadingInvariant, PTL

\* Who looks at the open conversation has read it to the end when nothing is on
\* its way, but for a failed mark or a message the page was not told of.
THEOREM LookersHaveRead == ReadingSpec => []LookingReads
<1>1. ReadingInv => LookingReads
  <2>. SUFFICES ASSUME ReadingInv, Looking, Settled, Opened \notin missed, read # sent
                PROVE  refused = TRUE
    BY DEF LookingReads
  <2>1. Opened \in Queries \ Timed /\ Loaded(Opened) /\ fetch[Opened] = Idle /\ Active(Opened)
    BY ReadingAssumption DEF Settled, Looking, Active
  <2>2. ~Pending
    BY Types DEF ReadingInv, Settled, Quiet, Pending
  <2>3. data[Opened] = Now(Opened)
    BY <2>1, <2>2 DEF ReadingInv, Informing, Covered
  <2>4. data[Opened].unread = sent - read /\ data[Opened].latest = sent /\ sent - read > 0
    BY <2>1, <2>3, NowIs, Types DEF ReadingInv
  <2>5. acted = data[Opened]
    BY <2>1, <2>4 DEF Settled, Unread
  <2>6. ~(marks.asked > 0)
    BY DEF Settled
  <2>. QED
    BY <2>4, <2>5, <2>6 DEF ReadingInv, Marked
<1>. QED
  BY <1>1, ReadingInvariant, PTL
=============================================================================
