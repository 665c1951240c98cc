--------------------------- MODULE MessagingProofs ---------------------------
(***************************************************************************)
(* Theorems about outbox, broker and retries, for any number of processes,  *)
(* handlers, events and retries, and any number of faults.                  *)
(*                                                                         *)
(* A delivery may be acknowledged because its replacement, one retry        *)
(* further, is with the broker or was in its turn replaced: the copies of   *)
(* an event form a chain, and the chain never breaks.  So the invariant     *)
(* says where an event is present "from retry n on", and that what is on a  *)
(* wire belongs to who waits for its confirm.                               *)
(***************************************************************************)
EXTENDS Messaging, SumTheorems, SequenceTheorems

\* What a channel has sent and the broker has not taken.
Carried(p) == {wire[p][i] : i \in DOMAIN wire[p]}

\* The broker has the copy, queued or delivered and not acknowledged.
AtBroker(c) ==
  \/ queue[c] > 0
  \/ \E s \in Slots : slot[s].phase # "free" /\ slot[s].copy = c

\* The event is settled, or the broker has a copy of it with at least n retries.
Present(e, n) ==
  \/ e \in handled \cup dead
  \/ \E c \in Copy : c.event = e /\ c.retries >= n /\ AtBroker(c)

OneEach ==
  \A p \in Processes : \A i, j \in DOMAIN wire[p] :
    wire[p][i].by = wire[p][j].by /\ wire[p][i].by # None => i = j

\* Who waits for a confirm of a message on the wire.
Agrees(p, m) ==
  /\ m.by \in Processes =>
       /\ m.by = p /\ pub[p].phase = "confirm" /\ m.key = "execution"
       /\ m.copy = [event |-> pub[p].row, retries |-> 0]
  /\ m.by \in Slots =>
       /\ Host[m.by] = p /\ slot[m.by].phase = "copy"
       /\ m.key = Replacement(slot[m.by].copy).key
       /\ m.copy = Replacement(slot[m.by].copy).copy
WireAgrees == \A p \in Processes : \A m \in Carried(p) : Agrees(p, m)

\* What is about to be marked, or acknowledged, is with the broker.
PublisherSafe(p) ==
  pub[p].phase = "mark" \/ (pub[p].phase = "confirm" /\ ~ OnWire(p, p)) => Present(pub[p].row, 0)
SlotSafe(s) ==
  slot[s].phase = "ack" \/ (slot[s].phase = "copy" /\ ~ OnWire(Host[s], s)) =>
    Present(slot[s].copy.event, slot[s].copy.retries + 1)

NothingForgotten ==
  /\ \A p \in Processes : PublisherSafe(p)
  /\ \A s \in Slots : SlotSafe(s)
  /\ \A e \in published : Present(e, 0)

MsgInv ==
  /\ MsgTypeOK
  /\ \A p \in Processes : pub[p].batch \subseteq enqueued
  /\ OneEach
  /\ WireAgrees
  /\ NothingForgotten

-----------------------------------------------------------------------------
(* The wires. *)

LEMMA CarriedSent ==
  ASSUME MsgTypeOK, NEW p \in Processes
  PROVE  /\ Carried(p) \subseteq Sent
         /\ DOMAIN wire[p] = 1 .. Len(wire[p]) /\ Len(wire[p]) \in Nat
         /\ \A i \in DOMAIN wire[p] : wire[p][i] \in Sent
         /\ \A s : OnWire(p, s) <=> \E m \in Carried(p) : m.by = s
<1>1. wire[p] \in Seq(Sent)
  BY DEF MsgTypeOK
<1>2. DOMAIN wire[p] = 1 .. Len(wire[p]) /\ Len(wire[p]) \in Nat
  BY <1>1, LenProperties
<1>3. \A i \in DOMAIN wire[p] : wire[p][i] \in Sent
  BY <1>1, <1>2, ElementOfSeq
<1>. QED
  BY <1>2, <1>3 DEF Carried, OnWire

\* The replacement of a failed delivery is one of the two kinds of message, and
\* is about the same event.
LEMMA ReplacementOf ==
  ASSUME NEW c \in Copy
  PROVE  /\ Replacement(c).key \in {"execution", "dead-letter"}
         /\ Replacement(c).copy \in Copy
         /\ Replacement(c).copy.event = c.event
         /\ Replacement(c).key = "execution" => Replacement(c).copy.retries = c.retries + 1
         /\ Replacement(c).key = "dead-letter" =>
              Replacement(c).copy = c /\ c.retries = MaxRetries
BY LimitsAssumption DEF Copy, Replacement

LEMMA SendEffect ==
  ASSUME MsgTypeOK, OneEach, NEW p \in Processes, NEW s \in Sender,
         NEW key \in {"execution", "dead-letter"}, NEW copy \in Copy,
         Send(p, s, key, copy), ~ OnWire(p, s)
  PROVE  /\ wire' \in [Processes -> Seq(Sent)]
         /\ Carried(p)' = Carried(p) \cup {[by |-> s, key |-> key, copy |-> copy]}
         /\ \A r \in Processes : r # p => wire'[r] = wire[r]
         /\ OneEach'
<1> DEFINE m == [by |-> s, key |-> key, copy |-> copy]
<1>1. m \in Sent /\ wire[p] \in Seq(Sent)
  BY DEF Sent, MsgTypeOK
<1>2. wire' = [wire EXCEPT ![p] = Append(wire[p], m)]
  BY DEF Send
<1> HIDE DEF m
<1>3. /\ Append(wire[p], m) \in Seq(Sent)
      /\ Len(Append(wire[p], m)) = Len(wire[p]) + 1
      /\ \A i \in 1 .. Len(wire[p]) : Append(wire[p], m)[i] = wire[p][i]
      /\ Append(wire[p], m)[Len(wire[p]) + 1] = m
  BY <1>1, AppendProperties
<1>4. /\ DOMAIN wire[p] = 1 .. Len(wire[p]) /\ Len(wire[p]) \in Nat
  BY CarriedSent
<1>5. wire'[p] = Append(wire[p], m) /\ wire' \in [Processes -> Seq(Sent)]
      /\ \A r \in Processes : r # p => wire'[r] = wire[r]
  BY <1>2, <1>3 DEF MsgTypeOK
<1>6. DOMAIN wire'[p] = 1 .. (Len(wire[p]) + 1)
  BY <1>3, <1>5, LenProperties
<1>7. Carried(p)' = Carried(p) \cup {m}
  <2>1. \A x : x \in Carried(p)' <=> \E i \in 1 .. (Len(wire[p]) + 1) : x = wire'[p][i]
    BY <1>6 DEF Carried
  <2>2. \A x : x \in Carried(p) <=> \E i \in 1 .. Len(wire[p]) : x = wire[p][i]
    BY <1>4 DEF Carried
  <2>3. \A i : i \in 1 .. (Len(wire[p]) + 1) <=> i \in 1 .. Len(wire[p]) \/ i = Len(wire[p]) + 1
    BY <1>4
  <2>. QED
    BY <1>3, <1>5, <2>1, <2>2, <2>3
<1>8. OneEach'
  <2>1. \A i \in 1 .. Len(wire[p]) : wire[p][i].by # s
    BY <1>4 DEF OnWire
  <2>2. \A i, j \in DOMAIN wire'[p] :
          wire'[p][i].by = wire'[p][j].by /\ wire'[p][i].by # None => i = j
    <3>1. m.by = s
      BY DEF m
    <3>2. \A i, j \in 1 .. Len(wire[p]) :
            wire[p][i].by = wire[p][j].by /\ wire[p][i].by # None => i = j
      BY <1>4 DEF OneEach
    <3>3. \A i \in DOMAIN wire'[p] :
            \/ i \in 1 .. Len(wire[p]) /\ wire'[p][i] = wire[p][i]
            \/ i = Len(wire[p]) + 1 /\ wire'[p][i] = m
      BY <1>3, <1>4, <1>5, <1>6
    <3>. QED
      BY <2>1, <3>1, <3>2, <3>3
  <2>. QED
    BY <1>5, <2>2 DEF OneEach
<1>. QED
  BY <1>5, <1>7, <1>8 DEF m

LEMMA TakeEffect ==
  ASSUME MsgTypeOK, OneEach, NEW p \in Processes, wire[p] # <<>>,
         wire' = [wire EXCEPT ![p] = Tail(@)]
  PROVE  /\ wire' \in [Processes -> Seq(Sent)]
         /\ Head(wire[p]) \in Carried(p) /\ Head(wire[p]) \in Sent
         /\ Carried(p) = Carried(p)' \cup {Head(wire[p])}
         /\ \A r \in Processes : r # p => wire'[r] = wire[r]
         /\ OneEach'
<1>1. wire[p] \in Seq(Sent)
  BY DEF MsgTypeOK
<1>2. /\ Head(wire[p]) \in Sent /\ Tail(wire[p]) \in Seq(Sent)
      /\ Len(Tail(wire[p])) = Len(wire[p]) - 1
      /\ \A i \in 1 .. Len(Tail(wire[p])) : Tail(wire[p])[i] = wire[p][i + 1]
  BY <1>1, HeadTailProperties
<1>3. DOMAIN wire[p] = 1 .. Len(wire[p]) /\ Len(wire[p]) \in Nat /\ Len(wire[p]) >= 1
  BY <1>1, CarriedSent, EmptySeq
<1>4. Head(wire[p]) = wire[p][1]
  OBVIOUS
<1>5. /\ wire'[p] = Tail(wire[p]) /\ wire' \in [Processes -> Seq(Sent)]
      /\ \A r \in Processes : r # p => wire'[r] = wire[r]
  BY <1>2 DEF MsgTypeOK
<1>6. DOMAIN wire'[p] = 1 .. (Len(wire[p]) - 1)
  BY <1>2, <1>5, LenProperties
<1>7. \A i \in DOMAIN wire'[p] : i + 1 \in DOMAIN wire[p] /\ wire'[p][i] = wire[p][i + 1]
  BY <1>2, <1>3, <1>5, <1>6
<1>8. \A i \in DOMAIN wire[p] : i = 1 \/ (i - 1 \in DOMAIN wire'[p] /\ wire'[p][i - 1] = wire[p][i])
  BY <1>2, <1>3, <1>5, <1>6
<1>9. Carried(p) = Carried(p)' \cup {Head(wire[p])}
  <2>1. \A x : x \in Carried(p)' <=> \E i \in DOMAIN wire'[p] : x = wire'[p][i]
    BY DEF Carried
  <2>2. \A x : x \in Carried(p) <=> \E i \in DOMAIN wire[p] : x = wire[p][i]
    BY DEF Carried
  <2>3. 1 \in DOMAIN wire[p]
    BY <1>3
  <2>. QED
    BY <1>4, <1>7, <1>8, <2>1, <2>2, <2>3
<1>10. OneEach'
  <2>1. \A i, j \in DOMAIN wire'[p] :
          wire'[p][i].by = wire'[p][j].by /\ wire'[p][i].by # None => i = j
    <3>1. \A i \in DOMAIN wire'[p] : i \in Int
      BY <1>3, <1>6
    <3>. QED
      BY <1>7, <3>1 DEF OneEach
  <2>. QED
    BY <1>5, <2>1 DEF OneEach
<1>. QED
  BY <1>2, <1>5, <1>9, <1>10

\* A sequence without its i-th element.
LEMMA WithoutOne ==
  ASSUME NEW S, NEW seq \in Seq(S), NEW i \in 1 .. Len(seq)
  PROVE  LET rest == SubSeq(seq, 1, i - 1) \o SubSeq(seq, i + 1, Len(seq)) IN
         /\ rest \in Seq(S) /\ Len(rest) = Len(seq) - 1
         /\ \A j \in 1 .. Len(seq) - 1 : rest[j] = IF j < i THEN seq[j] ELSE seq[j + 1]
<1> DEFINE n == Len(seq)
           a == SubSeq(seq, 1, i - 1)
           b == SubSeq(seq, i + 1, n)
           rest == a \o b
<1>1. n \in Nat /\ i \in Int /\ 1 <= i /\ i <= n /\ \A j \in 1 .. n : seq[j] \in S
  BY LenProperties, ElementOfSeq
<1> HIDE DEF n
<1>2. /\ a \in Seq(S) /\ Len(a) = i - 1
      /\ \A j \in 1 .. i - 1 : a[j] = seq[j]
  <2>1. \A j \in 1 .. i - 1 : seq[j] \in S
    BY <1>1
  <2>2. /\ a \in Seq(S)
        /\ Len(a) = IF 1 <= i - 1 THEN (i - 1) - 1 + 1 ELSE 0
        /\ \A j \in 1 .. (i - 1) - 1 + 1 : a[j] = seq[1 + j - 1]
    BY <1>1, <2>1, SubSeqProperties
  <2> HIDE DEF a
  <2>. QED
    BY <1>1, <2>2
<1>3. /\ b \in Seq(S) /\ Len(b) = n - i
      /\ \A j \in 1 .. n - i : b[j] = seq[i + j]
  <2>1. \A j \in i + 1 .. n : seq[j] \in S
    BY <1>1
  <2>2. /\ b \in Seq(S)
        /\ Len(b) = IF i + 1 <= n THEN n - (i + 1) + 1 ELSE 0
        /\ \A j \in 1 .. n - (i + 1) + 1 : b[j] = seq[(i + 1) + j - 1]
    BY <1>1, <2>1, SubSeqProperties
  <2> HIDE DEF b
  <2>. QED
    BY <1>1, <2>2
<1> HIDE DEF a, b
<1>5. /\ a \o b \in Seq(S)
      /\ Len(a \o b) = Len(a) + Len(b)
      /\ \A j \in 1 .. Len(a) + Len(b) : (a \o b)[j] = IF j <= Len(a) THEN a[j] ELSE b[j - Len(a)]
  BY <1>2, <1>3, ConcatProperties
<1>6. /\ rest \in Seq(S) /\ Len(rest) = n - 1
      /\ \A j \in 1 .. n - 1 : rest[j] = IF j <= i - 1 THEN a[j] ELSE b[j - (i - 1)]
  <2>1. Len(a) + Len(b) = n - 1
    BY <1>1, <1>2, <1>3
  <2>2. /\ rest \in Seq(S) /\ Len(rest) = n - 1
        /\ \A j \in 1 .. n - 1 : rest[j] = IF j <= Len(a) THEN a[j] ELSE b[j - Len(a)]
    BY <1>5, <2>1
  <2>. QED
    BY <1>2, <2>2
<1> HIDE DEF rest
<1>7. ASSUME NEW j \in 1 .. n - 1 PROVE rest[j] = IF j < i THEN seq[j] ELSE seq[j + 1]
  <2>1. CASE j < i
    <3>1. rest[j] = a[j]
      BY <1>1, <1>6, <2>1
    <3>. QED
      BY <1>1, <1>2, <2>1, <3>1
  <2>2. CASE ~ (j < i)
    <3>1. rest[j] = b[j - (i - 1)] /\ j - (i - 1) \in 1 .. n - i /\ i + (j - (i - 1)) = j + 1
      BY <1>1, <1>6, <2>2
    <3>. QED
      BY <1>1, <1>3, <2>2, <3>1
  <2>. QED
    BY <2>1, <2>2
<1>. QED
  BY <1>6, <1>7 DEF rest, a, b, n

\* Giving up a wait leaves the other senders' messages where they are; one's own is gone or
\* nobody's.
LEMMA GiveUpEffect ==
  ASSUME MsgTypeOK, OneEach, NEW p \in Processes, NEW s \in Sender, GiveUp(p, s)
  PROVE  /\ wire' \in [Processes -> Seq(Sent)]
         /\ \A m \in Carried(p)' :
              /\ m.by # s
              /\ \/ m \in Carried(p)
                 \/ m.by = None /\ \E n \in Carried(p) : n.key = m.key /\ n.copy = m.copy
         /\ \A m \in Carried(p) : m.by # s => m \in Carried(p)'
         /\ \A r \in Processes : r # p => wire'[r] = wire[r]
         /\ OneEach'
<1>0. s # None /\ wire[p] \in Seq(Sent)
  BY NoneAssumption DEF Sender, MsgTypeOK
<1>1. /\ DOMAIN wire[p] = 1 .. Len(wire[p]) /\ Len(wire[p]) \in Nat
      /\ \A j \in DOMAIN wire[p] : wire[p][j] \in Sent
  BY CarriedSent
<1>2. CASE ~ OnWire(p, s) /\ UNCHANGED wire
  BY <1>1, <1>2 DEF MsgTypeOK, OnWire, Carried, OneEach
<1>3. ASSUME NEW i \in DOMAIN wire[p], wire[p][i].by = s,
             wire' = [wire EXCEPT ![p] = SubSeq(@, 1, i - 1) \o SubSeq(@, i + 1, Len(@))]
      PROVE  /\ wire' \in [Processes -> Seq(Sent)]
             /\ \A m \in Carried(p)' : m.by # s /\ m \in Carried(p)
             /\ \A m \in Carried(p) : m.by # s => m \in Carried(p)'
             /\ \A r \in Processes : r # p => wire'[r] = wire[r]
             /\ OneEach'
  <2> DEFINE rest == SubSeq(wire[p], 1, i - 1) \o SubSeq(wire[p], i + 1, Len(wire[p]))
  <2>1. /\ rest \in Seq(Sent) /\ Len(rest) = Len(wire[p]) - 1
        /\ \A j \in 1 .. Len(wire[p]) - 1 : rest[j] = IF j < i THEN wire[p][j] ELSE wire[p][j + 1]
    <3>1. i \in 1 .. Len(wire[p])
      BY <1>1
    <3>. QED
      BY <1>0, <3>1, WithoutOne
  <2>2. wire' = [wire EXCEPT ![p] = rest]
    BY <1>3
  <2> HIDE DEF rest
  <2>3. /\ wire'[p] = rest /\ wire' \in [Processes -> Seq(Sent)]
        /\ \A r \in Processes : r # p => wire'[r] = wire[r]
    BY <2>1, <2>2 DEF MsgTypeOK
  <2>4. DOMAIN wire'[p] = 1 .. (Len(wire[p]) - 1)
    BY <2>1, <2>3, LenProperties
  <2>5. \A j \in DOMAIN wire'[p] : \E k \in DOMAIN wire[p] :
          k # i /\ k = (IF j < i THEN j ELSE j + 1) /\ wire'[p][j] = wire[p][k]
    BY <1>1, <2>1, <2>3, <2>4
  <2>6. \A k \in DOMAIN wire[p] : k # i => \E j \in DOMAIN wire'[p] : wire'[p][j] = wire[p][k]
    <3> SUFFICES ASSUME NEW k \in DOMAIN wire[p], k # i
                 PROVE  \E j \in DOMAIN wire'[p] : wire'[p][j] = wire[p][k]
      OBVIOUS
    <3>1. CASE k < i
      <4>1. k \in DOMAIN wire'[p] /\ wire'[p][k] = wire[p][k]
        BY <1>1, <2>1, <2>3, <2>4, <3>1
      <4>. QED
        BY <4>1
    <3>2. CASE ~ (k < i)
      <4>1. k - 1 \in DOMAIN wire'[p] /\ wire'[p][k - 1] = wire[p][(k - 1) + 1] /\ (k - 1) + 1 = k
        BY <1>1, <2>1, <2>3, <2>4, <3>2
      <4>. QED
        BY <4>1
    <3>. QED
      BY <3>1, <3>2
  <2>7. \A k \in DOMAIN wire[p] : wire[p][k].by = s => k = i
    BY <1>0, <1>3 DEF OneEach
  <2>8. \A m \in Carried(p)' : m.by # s /\ m \in Carried(p)
    BY <2>5, <2>7 DEF Carried
  <2>9. \A m \in Carried(p) : m.by # s => m \in Carried(p)'
    <3>1. \A k \in DOMAIN wire[p] : wire[p][k].by # s => wire[p][k] \in Carried(p)'
      <4>1. \A j \in DOMAIN wire'[p] : wire'[p][j] \in Carried(p)'
        BY DEF Carried
      <4>. QED
        BY <1>3, <2>6, <4>1
    <3>. QED
      BY <3>1 DEF Carried
  <2>10. OneEach'
    <3>1. \A j, k \in DOMAIN wire'[p] :
            wire'[p][j].by = wire'[p][k].by /\ wire'[p][j].by # None => j = k
      <4>1. \A j \in DOMAIN wire'[p] : j \in Int
        BY <1>1, <2>4
      <4>2. i \in Int
        BY <1>1
      <4>. QED
        BY <2>5, <4>1, <4>2 DEF OneEach
    <3>. QED
      BY <2>3, <3>1 DEF OneEach
  <2>. QED
    BY <2>3, <2>8, <2>9, <2>10
<1>4. ASSUME NEW i \in DOMAIN wire[p], wire[p][i].by = s, wire' = [wire EXCEPT ![p][i].by = None]
      PROVE  /\ wire' \in [Processes -> Seq(Sent)]
             /\ \A m \in Carried(p)' :
                  /\ m.by # s
                  /\ \/ m \in Carried(p)
                     \/ m.by = None /\ \E n \in Carried(p) : n.key = m.key /\ n.copy = m.copy
             /\ \A m \in Carried(p) : m.by # s => m \in Carried(p)'
             /\ \A r \in Processes : r # p => wire'[r] = wire[r]
             /\ OneEach'
  <2> DEFINE m0 == [wire[p][i] EXCEPT !.by = None]
  <2>1. /\ m0 \in Sent /\ m0.by = None
        /\ m0.key = wire[p][i].key /\ m0.copy = wire[p][i].copy
    BY <1>1, <1>4 DEF Sent
  <2>2. wire' = [wire EXCEPT ![p] = [wire[p] EXCEPT ![i] = m0]]
    BY <1>4
  <2> HIDE DEF m0
  <2>3. /\ [wire[p] EXCEPT ![i] = m0] \in Seq(Sent)
        /\ Len([wire[p] EXCEPT ![i] = m0]) = Len(wire[p])
        /\ \A j \in 1 .. Len(wire[p]) : [wire[p] EXCEPT ![i] = m0][j] = IF j = i THEN m0 ELSE wire[p][j]
    BY <1>0, <1>1, <2>1, ExceptSeq
  <2>4. /\ wire'[p] = [wire[p] EXCEPT ![i] = m0] /\ wire' \in [Processes -> Seq(Sent)]
        /\ \A r \in Processes : r # p => wire'[r] = wire[r]
    BY <2>2, <2>3 DEF MsgTypeOK
  <2>5. /\ DOMAIN wire'[p] = DOMAIN wire[p]
        /\ \A j \in DOMAIN wire[p] : wire'[p][j] = IF j = i THEN m0 ELSE wire[p][j]
    BY <1>1, <2>3, <2>4, LenProperties
  <2>6. \A k \in DOMAIN wire[p] : wire[p][k].by = s => k = i
    BY <1>0, <1>4 DEF OneEach
  <2>7. \A m \in Carried(p)' :
          /\ m.by # s
          /\ \/ m \in Carried(p)
             \/ m.by = None /\ \E n \in Carried(p) : n.key = m.key /\ n.copy = m.copy
    BY <1>0, <2>1, <2>5, <2>6 DEF Carried
  <2>8. \A m \in Carried(p) : m.by # s => m \in Carried(p)'
    BY <1>4, <2>5 DEF Carried
  <2>9. OneEach'
    <3>1. \A j, k \in DOMAIN wire'[p] :
            wire'[p][j].by = wire'[p][k].by /\ wire'[p][j].by # None => j = k
      BY <2>1, <2>5 DEF OneEach
    <3>. QED
      BY SMTT(30), <2>4, <3>1 DEF OneEach
  <2>. QED
    BY <2>4, <2>7, <2>8, <2>9
<1>. QED
  BY <1>2, <1>3, <1>4 DEF GiveUp

-----------------------------------------------------------------------------
(* Types. *)

LEMMA InitMsg == MsgInit => MsgInv
<1> SUFFICES ASSUME MsgInit PROVE MsgInv
  OBVIOUS
<1>1. MsgTypeOK
  <2>1. <<>> \in Seq(Sent)
    BY EmptySeq
  <2>2. faults \in 0 .. MaxFaults
    BY LimitsAssumption DEF MsgInit
  <2>. QED
    BY <2>1, <2>2 DEF MsgInit, MsgTypeOK, IdlePublisher, FreeSlot
<1>2. \A p \in Processes : DOMAIN wire[p] = {} /\ Carried(p) = {}
  <2>1. \A p \in Processes : wire[p] = <<>>
    BY DEF MsgInit
  <2>2. DOMAIN <<>> = {}
    OBVIOUS
  <2>. QED
    BY <2>1, <2>2 DEF Carried
<1>3. OneEach /\ WireAgrees
  BY <1>2 DEF OneEach, WireAgrees
<1>4. NothingForgotten
  BY DEF MsgInit, NothingForgotten, PublisherSafe, SlotSafe, IdlePublisher, FreeSlot
<1>5. \A p \in Processes : pub[p].batch \subseteq enqueued
  BY DEF MsgInit, IdlePublisher
<1>. QED
  BY <1>1, <1>3, <1>4, <1>5 DEF MsgInv

PubRecord == [phase : {"idle", "publish", "confirm", "mark"}, batch : SUBSET Events,
              row : Events \cup {None}]
SlotRecord == [phase : {"free", "handle", "copy", "ack"}, copy : Copy \cup {None}]

\* Publishers in a shape the code can leave them in.
PubOK ==
  /\ pub \in [Processes -> PubRecord]
  /\ \A p \in Processes :
       /\ pub[p].phase \in {"confirm", "mark"} <=> pub[p].row # None
       /\ pub[p].phase = "idle" <=> pub[p].batch = {}
       /\ pub[p].row # None => pub[p].row \in pub[p].batch
       /\ pub[p].batch \subseteq enqueued

SlotOK ==
  /\ slot \in [Slots -> SlotRecord]
  /\ \A s \in Slots : slot[s].phase # "free" => slot[s].copy \in Copy /\ Host[s] \in up

\* A publisher takes one of its turns.
LEMMA PubTurn ==
  ASSUME PubOK, NEW p \in Processes, NEW phase, NEW batch, NEW row,
         SetPub(p, phase, batch, row), enqueued \subseteq enqueued',
         batch \in SUBSET Events, batch \subseteq enqueued',
         phase \in {"idle", "publish", "confirm", "mark"}, row \in Events \cup {None},
         phase \in {"confirm", "mark"} <=> row # None, phase = "idle" <=> batch = {},
         row # None => row \in batch
  PROVE  PubOK'
BY DEF PubOK, SetPub, PubRecord

LEMMA PubStops ==
  ASSUME PubOK, NEW p \in Processes, StopBatch(p), enqueued \subseteq enqueued'
  PROVE  PubOK'
BY DEF PubOK, StopBatch, PubRecord, IdlePublisher

LEMMA SlotTurn ==
  ASSUME SlotOK, NEW s \in Slots, NEW phase \in {"handle", "copy", "ack"}, NEW copy \in Copy,
         SetSlot(s, phase, copy), Host[s] \in up, UNCHANGED up
  PROVE  SlotOK'
BY DEF SlotOK, SetSlot, SlotRecord

LEMMA SlotFreed ==
  ASSUME SlotOK, NEW s \in Slots, slot' = [slot EXCEPT ![s] = FreeSlot], UNCHANGED up
  PROVE  SlotOK'
BY DEF SlotOK, FreeSlot, SlotRecord

TablesOK ==
  /\ enqueued \subseteq Events /\ published \subseteq enqueued
  /\ wire \in [Processes -> Seq(Sent)]
  /\ up \subseteq Processes /\ cancelled \subseteq Processes
  /\ queue \in [Copy -> Nat] /\ dead \subseteq Events
  /\ stale \in [Processes -> SUBSET Events] /\ handled \subseteq Events
  /\ thrown \in [Events -> SUBSET (0..MaxRetries)] /\ faults \in 0..MaxFaults

LEMMA TypeParts ==
  /\ MsgInv => TablesOK /\ PubOK /\ SlotOK
  /\ TablesOK /\ PubOK /\ SlotOK =>
       MsgTypeOK /\ \A p \in Processes : pub[p].batch \subseteq enqueued
BY DEF MsgInv, TablesOK, MsgTypeOK, PubOK, SlotOK, PubRecord, SlotRecord

LEMMA TypeNext ==
  ASSUME TablesOK', PubOK', SlotOK'
  PROVE  MsgTypeOK' /\ \A p \in Processes : pub'[p].batch \subseteq enqueued'
<1>1. \A p \in Processes :
        /\ pub'[p].phase \in {"confirm", "mark"} <=> pub'[p].row # None
        /\ pub'[p].phase = "idle" <=> pub'[p].batch = {}
        /\ pub'[p].row # None => pub'[p].row \in pub'[p].batch
        /\ pub'[p].batch \subseteq enqueued'
  BY DEF PubOK
<1>2. \A s \in Slots : slot'[s].phase # "free" => slot'[s].copy \in Copy /\ Host[s] \in up'
  BY DEF SlotOK
<1>3. /\ pub' \in [Processes -> PubRecord] /\ slot' \in [Slots -> SlotRecord]
  BY DEF PubOK, SlotOK
<1>. QED
  BY <1>1, <1>2, <1>3 DEF TablesOK, MsgTypeOK, PubRecord, SlotRecord

LEMMA FaultCounted ==
  ASSUME faults \in 0..MaxFaults, Fault
  PROVE  faults' \in 0..MaxFaults
BY LimitsAssumption DEF Fault

\* What a closed channel leaves behind.
LEMMA RequeueEffect ==
  ASSUME MsgTypeOK, NEW p \in Processes, Requeue(p)
  PROVE  /\ queue' \in [Copy -> Nat]
         /\ \A c \in Copy : queue'[c] >= queue[c]
         /\ \A s \in Slots : Host[s] = p /\ slot[s].phase # "free" => queue'[slot[s].copy] > 0
         /\ \A c \in Copy : queue'[c] > 0 =>
              queue[c] > 0 \/ \E s \in Slots : slot[s].phase # "free" /\ slot[s].copy = c
<1> DEFINE Back(c) == {s \in HostedAt(p) : slot[s].phase # "free" /\ slot[s].copy = c}
<1>1. ASSUME NEW c \in Copy
      PROVE  IsFiniteSet(Back(c)) /\ Cardinality(Back(c)) \in Nat
  <2>1. Back(c) \subseteq Slots
    BY DEF HostedAt
  <2>. QED
    BY <2>1, FinitenessAssumption, FS_Subset, FS_CardinalityType
<1>2. queue' = [c \in Copy |-> queue[c] + Cardinality(Back(c))]
  BY DEF Requeue
<1>3. ASSUME NEW c \in Copy
      PROVE  /\ queue'[c] \in Nat /\ queue'[c] >= queue[c]
             /\ Back(c) # {} <=> queue'[c] > queue[c]
  <2>1. queue[c] \in Nat
    BY DEF MsgTypeOK
  <2>2. Back(c) # {} <=> Cardinality(Back(c)) # 0
    BY <1>1, FS_EmptySet
  <2>3. queue'[c] = queue[c] + Cardinality(Back(c))
    BY <1>2
  <2> HIDE DEF Back
  <2>. QED
    BY <1>1, <2>1, <2>2, <2>3
<1>4. ASSUME NEW s \in Slots, Host[s] = p, slot[s].phase # "free"
      PROVE  slot[s].copy \in Copy /\ s \in Back(slot[s].copy)
  BY <1>4 DEF HostedAt, MsgTypeOK
<1>5. queue' \in [Copy -> Nat]
  <2> HIDE DEF Back
  <2>. QED
    BY <1>2, <1>3
<1>6. \A c \in Copy : Back(c) # {} => \E s \in Slots : slot[s].phase # "free" /\ slot[s].copy = c
  BY DEF HostedAt
<1>7. ASSUME NEW s \in Slots, Host[s] = p, slot[s].phase # "free" PROVE queue'[slot[s].copy] > 0
  <2>1. PICK c \in Copy : c = slot[s].copy /\ Back(c) # {}
    BY <1>4, <1>7
  <2>2. queue[c] \in Nat /\ queue'[c] \in Nat /\ queue'[c] > queue[c]
    BY <1>3, <2>1 DEF MsgTypeOK
  <2>. QED
    BY <2>1, <2>2
<1>8. ASSUME NEW c \in Copy, queue'[c] > 0
      PROVE  queue[c] > 0 \/ \E s \in Slots : slot[s].phase # "free" /\ slot[s].copy = c
  <2>1. queue[c] \in Nat /\ queue'[c] \in Nat
    BY <1>3 DEF MsgTypeOK
  <2> HIDE DEF Back
  <2>. QED
    BY <1>3, <1>6, <1>8, <2>1
<1>9. \A c \in Copy : queue'[c] >= queue[c]
  BY <1>3
<1> HIDE DEF Back
<1>. QED
  BY <1>5, <1>7, <1>8, <1>9

LEMMA StepMsgType ==
  ASSUME MsgInv, [MsgNext]_msgVars
  PROVE  MsgTypeOK' /\ \A p \in Processes : pub'[p].batch \subseteq enqueued'
<1>0. TablesOK /\ PubOK /\ SlotOK /\ MsgTypeOK /\ OneEach
  BY TypeParts DEF MsgInv
<1> DEFINE Goal == TablesOK' /\ PubOK' /\ SlotOK'
<1>1. ASSUME NEW e \in Events, Enqueue(e) PROVE Goal
  BY <1>0, <1>1 DEF Enqueue, channel, broker, handlers, TablesOK, PubOK, SlotOK
<1>2. ASSUME NEW p \in Processes, PublishBatch(p) PROVE Goal
  <2>1. CASE Poll(p)
    <3>1. PICK B \in (SUBSET (enqueued \ published)) \ {{}} : SetPub(p, "publish", B, None)
      BY <2>1 DEF Poll
    <3>2. B \in SUBSET Events /\ B \subseteq enqueued' /\ B # {} /\ UNCHANGED enqueued
      <4>1. B \in SUBSET (enqueued \ published) /\ B # {}
        OBVIOUS
      <4>2. UNCHANGED enqueued /\ enqueued \subseteq Events
        BY <1>0, <2>1 DEF Poll, rows, TablesOK
      <4>. QED
        BY <4>1, <4>2
    <3>3. PubOK'
      BY <1>0, <3>1, <3>2, PubTurn
    <3>. QED
      BY <1>0, <2>1, <3>3 DEF Poll, rows, channel, broker, handlers, TablesOK, SlotOK
  <2>2. ASSUME NEW e \in Events, Publish(p, e) PROVE Goal
    <3>1. PubOK'
      <4>1. /\ pub[p].batch \in SUBSET Events /\ pub[p].batch \subseteq enqueued /\ e \in pub[p].batch
            /\ SetPub(p, "confirm", pub[p].batch, e) /\ UNCHANGED enqueued /\ e # None
        BY <1>0, <2>2, NoneAssumption DEF Publish, rows, PubOK, PubRecord
      <4>. QED
        BY <1>0, <4>1, PubTurn
    <3>2. wire' \in [Processes -> Seq(Sent)]
      <4>1. [event |-> e, retries |-> 0] \in Copy
        BY LimitsAssumption DEF Copy
      <4>2. [by |-> p, key |-> "execution", copy |-> [event |-> e, retries |-> 0]] \in Sent
        BY <4>1 DEF Sent, Sender
      <4>3. Append(wire[p], [by |-> p, key |-> "execution", copy |-> [event |-> e, retries |-> 0]])
              \in Seq(Sent)
        BY <1>0, <4>2, AppendProperties DEF TablesOK
      <4>. QED
        BY <1>0, <2>2, <4>3 DEF Publish, Send, TablesOK
    <3>. QED
      BY <1>0, <2>2, <3>1, <3>2 DEF Publish, rows, broker, handlers, TablesOK, SlotOK
  <2>3. CASE PublishConfirmed(p)
    <3>1. PubOK'
      <4>1. /\ pub[p].batch \in SUBSET Events /\ pub[p].batch \subseteq enqueued
            /\ pub[p].row \in pub[p].batch /\ pub[p].row # None /\ pub[p].row \in Events
            /\ SetPub(p, "mark", pub[p].batch, pub[p].row) /\ UNCHANGED enqueued
        BY <1>0, <2>3 DEF PublishConfirmed, rows, PubOK, PubRecord
      <4>. QED
        BY <1>0, <4>1, PubTurn
    <3>. QED
      BY <1>0, <2>3, <3>1 DEF PublishConfirmed, rows, channel, broker, handlers, TablesOK, SlotOK
  <2>4. CASE PublishFails(p)
    <3>1. PubOK'
      BY <1>0, <2>4, PubStops DEF PublishFails, rows
    <3>2. wire' \in [Processes -> Seq(Sent)] /\ faults' \in 0..MaxFaults
      BY <1>0, <2>4, GiveUpEffect, FaultCounted DEF PublishFails, Sender, TablesOK
    <3>. QED
      BY <1>0, <2>4, <3>1, <3>2 DEF PublishFails, rows, broker, handlers, TablesOK, SlotOK
  <2>5. CASE Mark(p)
    <3> DEFINE left == pub[p].batch \ {pub[p].row}
    <3>1. /\ left \in SUBSET Events /\ left \subseteq enqueued /\ pub[p].row \in enqueued
          /\ SetPub(p, IF left = {} THEN "idle" ELSE "publish", left, None) /\ UNCHANGED enqueued
      BY <1>0, <2>5 DEF Mark, PubOK, PubRecord
    <3> HIDE DEF left
    <3>2. PubOK'
      BY <1>0, <3>1, PubTurn
    <3>. QED
      BY <1>0, <2>5, <3>1, <3>2 DEF Mark, channel, broker, handlers, TablesOK, SlotOK
  <2>6. CASE MarkFails(p)
    <3>1. pub[p].row \in enqueued /\ UNCHANGED enqueued
      BY <1>0, <2>6 DEF MarkFails, PubOK, PubRecord
    <3>2. PubOK' /\ faults' \in 0..MaxFaults
      BY <1>0, <2>6, <3>1, PubStops, FaultCounted DEF MarkFails, TablesOK
    <3>. QED
      BY <1>0, <2>6, <3>1, <3>2 DEF MarkFails, channel, broker, handlers, TablesOK, SlotOK
  <2>. QED
    BY <1>2, <2>1, <2>2, <2>3, <2>4, <2>5, <2>6 DEF PublishBatch
<1>3. ASSUME NEW p \in Processes, BrokerTakes(p) PROVE Goal
  <2> DEFINE m == Head(wire[p])
  <2>1. wire' \in [Processes -> Seq(Sent)] /\ m \in Sent
    BY <1>0, <1>3, TakeEffect DEF BrokerTakes
  <2>2. m.copy \in Copy /\ m.copy.event \in Events
    BY <2>1 DEF Sent, Copy
  <2>3. queue' \in [Copy -> Nat] /\ dead' \subseteq Events
    BY <1>0, <1>3, <2>2 DEF BrokerTakes, TablesOK
  <2>. QED
    BY <1>0, <1>3, <2>1, <2>3 DEF BrokerTakes, rows, handlers, TablesOK, PubOK, SlotOK
<1>4. ASSUME NEW p \in Processes, Reconnect(p) PROVE Goal
  BY <1>0, <1>4 DEF Reconnect, rows, broker, handlers, TablesOK, PubOK, SlotOK
<1>5. ASSUME NEW p \in Processes, Close(p), enqueued' = enqueued, published' = published,
             stale' \in [Processes -> SUBSET Events], PubOK'
      PROVE  Goal
  <2>1. queue' \in [Copy -> Nat]
    BY <1>0, <1>5, RequeueEffect DEF Close
  <2>2. <<>> \in Seq(Sent)
    BY EmptySeq
  <2>3. wire' \in [Processes -> Seq(Sent)]
    BY <1>0, <1>5, <2>2 DEF Close, TablesOK
  <2>4. SlotOK'
    BY <1>0, <1>5 DEF Close, SlotOK, SlotRecord, FreeSlot
  <2>5. faults' \in 0..MaxFaults
    BY <1>0, <1>5, FaultCounted DEF Close, TablesOK
  <2>. QED
    BY <1>0, <1>5, <2>1, <2>3, <2>4, <2>5 DEF Close, TablesOK
<1>6. ASSUME NEW p \in Processes, ChannelLost(p) PROVE Goal
  <2>1. \A s \in Slots : slot[s].phase = "handle" => slot[s].copy.event \in Events
    BY <1>0 DEF SlotOK, Copy
  <2>2. stale' \in [Processes -> SUBSET Events]
    BY <1>0, <1>6, <2>1 DEF ChannelLost, TablesOK, HostedAt
  <2>3. UNCHANGED rows
    BY <1>6 DEF ChannelLost, Close
  <2>4. PubOK'
    BY <1>0, <1>6, <2>3, PubStops DEF ChannelLost, rows, PubOK
  <2>. QED
    BY <1>5, <1>6, <2>2, <2>3, <2>4 DEF ChannelLost, rows
<1>7. ASSUME NEW p \in Processes, Crash(p) PROVE Goal
  <2>1. UNCHANGED rows
    BY <1>7 DEF Crash, Close
  <2>2. PubOK'
    BY <1>0, <1>7, <2>1, PubStops DEF Crash, rows
  <2>3. stale' \in [Processes -> SUBSET Events]
    BY <1>0, <1>7 DEF Crash, TablesOK
  <2>. QED
    BY <1>5, <1>7, <2>1, <2>2, <2>3 DEF Crash, rows
<1>8. ASSUME NEW p \in Processes, ConsumerCancelled(p) PROVE Goal
  BY <1>0, <1>8, FaultCounted
  DEF ConsumerCancelled, rows, broker, handlers, TablesOK, PubOK, SlotOK
<1>9. ASSUME NEW p \in Processes, NEW e \in Events, StaleEnds(p, e) PROVE Goal
  <2>1. stale' \in [Processes -> SUBSET Events] /\ handled' \subseteq Events
    BY <1>0, <1>9 DEF StaleEnds, TablesOK
  <2>2. PubOK' /\ SlotOK'
    BY <1>0, <1>9 DEF StaleEnds, rows, channel, PubOK, SlotOK
  <2>. QED
    BY <1>0, <1>9, <2>1, <2>2 DEF StaleEnds, rows, channel, broker, TablesOK
<1>10. ASSUME NEW s \in Slots, Deliver(s) PROVE Goal
  <2>1. PICK c \in Copy : /\ queue[c] > 0 /\ queue' = [queue EXCEPT ![c] = @ - 1]
                          /\ SetSlot(s, "handle", c)
    BY <1>10 DEF Deliver
  <2>2. SlotOK'
    BY <1>0, <1>10, <2>1, SlotTurn DEF Deliver, channel
  <2>3. queue' \in [Copy -> Nat]
    BY <1>0, <2>1 DEF TablesOK
  <2>. QED
    BY <1>0, <1>10, <2>2, <2>3 DEF Deliver, rows, channel, TablesOK, PubOK
<1>11. ASSUME NEW s \in Slots, Consume(s) PROVE Goal
  <2>0. slot[s].phase # "free" =>
          slot[s].copy \in Copy /\ slot[s].copy.event \in Events
          /\ slot[s].copy.retries \in 0..MaxRetries /\ Host[s] \in up
    BY <1>0 DEF SlotOK, Copy
  <2>1. CASE HandlerReturns(s)
    <3>1. SlotOK'
      BY <1>0, <2>0, <2>1, SlotTurn DEF HandlerReturns, channel
    <3>. QED
      BY <1>0, <2>0, <2>1, <3>1 DEF HandlerReturns, rows, channel, broker, TablesOK, PubOK
  <2>2. CASE HandlerThrows(s)
    <3>1. SlotOK'
      BY <1>0, <2>0, <2>2, SlotTurn DEF HandlerThrows
    <3>2. wire' \in [Processes -> Seq(Sent)]
      <4> DEFINE m == [by |-> s, key |-> Replacement(slot[s].copy).key,
                       copy |-> Replacement(slot[s].copy).copy]
      <4>1. m \in Sent
        BY <2>0, <2>2, ReplacementOf DEF HandlerThrows, Sent, Sender
      <4>2. Host[s] \in Processes /\ wire[Host[s]] \in Seq(Sent)
        BY <1>0, HostAssumption DEF TablesOK
      <4> HIDE DEF m
      <4>3. Append(wire[Host[s]], m) \in Seq(Sent)
        BY <4>1, <4>2, AppendProperties
      <4>4. wire' = [wire EXCEPT ![Host[s]] = Append(@, m)]
        BY <2>2 DEF HandlerThrows, Send, m
      <4>. QED
        BY <1>0, <4>2, <4>3, <4>4 DEF TablesOK
    <3>3. thrown' \in [Events -> SUBSET (0..MaxRetries)] /\ handled' \subseteq Events
      BY <1>0, <2>0, <2>2 DEF HandlerThrows, TablesOK
    <3>. QED
      BY <1>0, <2>2, <3>1, <3>2, <3>3 DEF HandlerThrows, rows, broker, TablesOK, PubOK
  <2>3. CASE ReplacementConfirmed(s)
    <3>1. SlotOK'
      BY <1>0, <2>0, <2>3, SlotTurn DEF ReplacementConfirmed, channel
    <3>. QED
      BY <1>0, <2>3, <3>1 DEF ReplacementConfirmed, rows, channel, broker, TablesOK, PubOK
  <2>4. CASE ReplacementFails(s)
    <3>1. SlotOK'
      BY <1>0, <2>4, SlotFreed DEF ReplacementFails
    <3>2. wire' \in [Processes -> Seq(Sent)] /\ faults' \in 0..MaxFaults
      BY <1>0, <2>4, HostAssumption, GiveUpEffect, FaultCounted DEF ReplacementFails, Sender, TablesOK
    <3>3. queue' \in [Copy -> Nat]
      BY <1>0, <2>0, <2>4 DEF ReplacementFails, TablesOK
    <3>. QED
      BY <1>0, <2>4, <3>1, <3>2, <3>3 DEF ReplacementFails, rows, TablesOK, PubOK
  <2>5. CASE Acked(s)
    <3>1. SlotOK'
      BY <1>0, <2>5, SlotFreed DEF Acked, channel
    <3>. QED
      BY <1>0, <2>5, <3>1 DEF Acked, rows, channel, broker, TablesOK, PubOK
  <2>. QED
    BY <1>11, <2>1, <2>2, <2>3, <2>4, <2>5 DEF Consume
<1>12. ASSUME UNCHANGED msgVars PROVE Goal
  BY <1>0, <1>12 DEF msgVars, rows, channel, broker, handlers, TablesOK, PubOK, SlotOK
<1> HIDE DEF Goal
<1>13. Goal
  BY <1>1, <1>2, <1>3, <1>4, <1>6, <1>7, <1>8, <1>9, <1>10, <1>11, <1>12 DEF MsgNext
<1>. QED
  BY <1>13, TypeNext DEF Goal

-----------------------------------------------------------------------------
(* Who waits for what is on the wires. *)

\* Only those who wait for a confirm have a message on the wire.
LEMMA NotWaiting ==
  ASSUME MsgInv
  PROVE  /\ \A p \in Processes : OnWire(p, p) => pub[p].phase = "confirm"
         /\ \A s \in Slots : OnWire(Host[s], s) => slot[s].phase = "copy"
<1>1. MsgTypeOK /\ WireAgrees
  BY DEF MsgInv
<1>2. ASSUME NEW p \in Processes, OnWire(p, p) PROVE pub[p].phase = "confirm"
  <2>1. PICK m \in Carried(p) : m.by = p
    BY <1>1, <1>2, CarriedSent
  <2>. QED
    BY <1>1, <2>1 DEF WireAgrees, Agrees
<1>3. ASSUME NEW s \in Slots, OnWire(Host[s], s) PROVE slot[s].phase = "copy"
  <2>1. Host[s] \in Processes
    BY HostAssumption
  <2>2. PICK m \in Carried(Host[s]) : m.by = s
    BY <1>1, <1>3, <2>1, CarriedSent
  <2>. QED
    BY ZenonT(40), <1>1, <2>1, <2>2 DEF WireAgrees, Agrees
<1>. QED
  BY <1>2, <1>3

\* A message stays in agreement with its sender as long as the sender does not move.
LEMMA WireStep ==
  ASSUME MsgInv,
         \A p \in Processes : \A m \in Carried(p)' :
           \/ m.by = None
           \/ Agrees(p, m)'
           \/ /\ m \in Carried(p)
              /\ m.by = p => pub'[p] = pub[p]
              /\ m.by \in Slots => slot'[m.by] = slot[m.by]
  PROVE  WireAgrees'
<1> SUFFICES ASSUME NEW p \in Processes, NEW m \in Carried(p)' PROVE Agrees(p, m)'
  BY DEF WireAgrees
<1>1. CASE m.by = None
  BY <1>1, NoneAssumption DEF Agrees
<1>2. ASSUME m \in Carried(p), m.by = p => pub'[p] = pub[p],
             m.by \in Slots => slot'[m.by] = slot[m.by]
      PROVE  Agrees(p, m)'
  <2>1. Agrees(p, m)
    BY <1>2 DEF MsgInv, WireAgrees
  <2>. QED
    BY <1>2, <2>1 DEF Agrees, Replacement
<1>. QED
  BY <1>1, <1>2

LEMMA WireSame ==
  ASSUME UNCHANGED wire
  PROVE  /\ OneEach => OneEach'
         /\ \A p : Carried(p)' = Carried(p)
         /\ \A p, s : OnWire(p, s)' <=> OnWire(p, s)
BY DEF OneEach, Carried, OnWire

\* A publisher moves that has nothing on the wire.
LEMMA WirePub ==
  ASSUME MsgInv, UNCHANGED <<wire, slot>>, NEW p \in Processes, ~ OnWire(p, p),
         \A q \in Processes : q # p => pub'[q] = pub[q]
  PROVE  OneEach' /\ WireAgrees'
<1>1. \A q \in Processes : Carried(q)' = Carried(q)
  BY WireSame
<1>2. \A m \in Carried(p) : m.by # p
  BY CarriedSent DEF MsgInv
<1>3. WireAgrees'
  BY <1>1, <1>2, WireStep
<1>. QED
  BY <1>3, WireSame DEF MsgInv

\* A handler moves that has nothing on the wire.
LEMMA WireSlot ==
  ASSUME MsgInv, UNCHANGED <<wire, pub>>, NEW s \in Slots, ~ OnWire(Host[s], s),
         \A t \in Slots : t # s => slot'[t] = slot[t]
  PROVE  OneEach' /\ WireAgrees'
<1>1. \A q \in Processes : Carried(q)' = Carried(q)
  BY WireSame
<1>2. \A q \in Processes : \A m \in Carried(q) : m.by # s
  <2> SUFFICES ASSUME NEW q \in Processes, NEW m \in Carried(q), m.by = s PROVE FALSE
    OBVIOUS
  <2>1. Host[s] = q
    BY ZenonT(40) DEF MsgInv, WireAgrees, Agrees
  <2>. QED
    BY SMTT(30), <2>1, CarriedSent DEF MsgInv
<1>3. WireAgrees'
  BY <1>1, <1>2, WireStep
<1>. QED
  BY <1>3, WireSame DEF MsgInv

LEMMA StepWire ==
  ASSUME MsgInv, [MsgNext]_msgVars
  PROVE  OneEach' /\ WireAgrees'
<1>0. MsgTypeOK /\ OneEach /\ WireAgrees /\ SlotOK /\ PubOK
  BY TypeParts DEF MsgInv
<1> DEFINE Goal == OneEach' /\ WireAgrees'
<1>1. ASSUME UNCHANGED <<wire, pub, slot>> PROVE Goal
  <2>1. WireAgrees'
    BY <1>1, WireSame, WireStep
  <2>. QED
    BY <1>0, <1>1, <2>1, WireSame
<1>2. ASSUME NEW p \in Processes, PublishBatch(p) PROVE Goal
  <2>1. ASSUME NEW rec, pub' = [pub EXCEPT ![p] = rec], UNCHANGED <<wire, slot>>, ~ OnWire(p, p)
        PROVE  Goal
    <3>1. \A q \in Processes : q # p => pub'[q] = pub[q]
      BY <1>0, <2>1 DEF PubOK
    <3>. QED
      BY <2>1, <3>1, WirePub
  <2>2. CASE Poll(p)
    <3>1. PICK B : SetPub(p, "publish", B, None)
      BY <2>2 DEF Poll
    <3>2. pub[p].phase # "confirm"
      BY <2>2 DEF Poll, Idle
    <3>. QED
      BY <2>1, <2>2, <3>1, <3>2, NotWaiting DEF Poll, SetPub, channel, handlers
  <2>3. ASSUME NEW e \in Events, Publish(p, e) PROVE Goal
    <3> DEFINE c == [event |-> e, retries |-> 0]
               m0 == [by |-> p, key |-> "execution", copy |-> c]
    <3>1. ~ OnWire(p, p)
      BY <2>3, NotWaiting DEF Publish
    <3>2. c \in Copy /\ p \in Sender
      BY LimitsAssumption DEF Copy, Sender
    <3>3. Send(p, p, "execution", c) /\ UNCHANGED slot
      BY <2>3 DEF Publish, handlers
    <3>4. pub' = [pub EXCEPT ![p] = [phase |-> "confirm", batch |-> pub[p].batch, row |-> e]]
      BY <2>3 DEF Publish, SetPub
    <3>5. pub'[p].phase = "confirm" /\ pub'[p].row = e
          /\ \A q \in Processes : q # p => pub'[q] = pub[q]
      BY <1>0, <3>4 DEF PubOK
    <3>6. /\ Carried(p)' = Carried(p) \cup {m0} /\ OneEach'
          /\ \A r \in Processes : r # p => wire'[r] = wire[r]
      <4> HIDE DEF c
      <4>. QED
        BY <1>0, <3>1, <3>2, <3>3, SendEffect
    <3>7. Agrees(p, m0)'
      BY <3>5, SendersAssumption DEF Agrees
    <3> HIDE DEF m0
    <3>8. \A r \in Processes : r # p => Carried(r)' = Carried(r)
      BY <3>6 DEF Carried
    <3>9. \A m \in Carried(p) : m.by # p
      BY <1>0, <3>1, CarriedSent
    <3>10. ASSUME NEW q \in Processes, NEW m \in Carried(q)'
           PROVE \/ Agrees(q, m)'
                 \/ m \in Carried(q) /\ (m.by = q => pub'[q] = pub[q])
                    /\ (m.by \in Slots => slot'[m.by] = slot[m.by])
      <4>1. CASE q = p /\ m = m0
        BY <3>7, <4>1
      <4>2. CASE ~ (q = p /\ m = m0)
        BY <3>3, <3>5, <3>6, <3>8, <3>9, <4>2
      <4>. QED
        BY <4>1, <4>2
    <3>11. WireAgrees'
      BY <3>10, WireStep
    <3>. QED
      BY <3>6, <3>11
  <2>4. CASE PublishConfirmed(p)
    BY <2>1, <2>4 DEF PublishConfirmed, SetPub, channel, handlers, Confirmed
  <2>5. CASE PublishFails(p)
    <3>0. /\ pub' = [pub EXCEPT ![p] = IdlePublisher] /\ UNCHANGED slot
          /\ \A q \in Processes : q # p => pub'[q] = pub[q]
      BY <1>0, <2>5 DEF PublishFails, StopBatch, handlers, PubOK
    <3>1. CASE pub[p].phase = "publish" /\ UNCHANGED wire
      BY <2>1, <3>0, <3>1, NotWaiting
    <3>2. CASE GiveUp(p, p)
      <4>1. /\ \A m \in Carried(p)' : m.by # p /\ (m \in Carried(p) \/ m.by = None)
            /\ \A r \in Processes : r # p => wire'[r] = wire[r]
            /\ OneEach'
        BY <1>0, <3>2, GiveUpEffect DEF Sender
      <4>2. \A r \in Processes : r # p => Carried(r)' = Carried(r)
        BY <4>1 DEF Carried
      <4>3. \A q \in Processes : \A m \in Carried(q)' :
              \/ m.by = None
              \/ /\ m \in Carried(q)
                 /\ m.by = q => pub'[q] = pub[q]
                 /\ m.by \in Slots => slot'[m.by] = slot[m.by]
        BY <3>0, <4>1, <4>2
      <4>4. WireAgrees'
        BY <4>3, WireStep
      <4>. QED
        BY <4>1, <4>4
    <3>. QED
      BY <2>5, <3>1, <3>2 DEF PublishFails
  <2>6. CASE Mark(p)
    <3>1. pub[p].phase # "confirm"
      BY <2>6 DEF Mark
    <3>. QED
      BY <2>1, <2>6, <3>1, NotWaiting DEF Mark, SetPub, channel, handlers
  <2>7. CASE MarkFails(p)
    <3>1. pub[p].phase # "confirm"
      BY <2>7 DEF MarkFails
    <3>. QED
      BY <2>1, <2>7, <3>1, NotWaiting DEF MarkFails, StopBatch, channel, handlers
  <2>. QED
    BY <1>2, <2>2, <2>3, <2>4, <2>5, <2>6, <2>7 DEF PublishBatch
<1>3. ASSUME NEW p \in Processes, BrokerTakes(p) PROVE Goal
  <2>1. /\ Carried(p) = Carried(p)' \cup {Head(wire[p])}
        /\ \A r \in Processes : r # p => wire'[r] = wire[r]
        /\ OneEach'
    BY <1>0, <1>3, TakeEffect DEF BrokerTakes
  <2>2. UNCHANGED <<pub, slot>>
    BY <1>3 DEF BrokerTakes, handlers
  <2>3. \A r \in Processes : \A m \in Carried(r)' : m \in Carried(r)
    BY <2>1 DEF Carried
  <2>4. WireAgrees'
    BY <2>2, <2>3, WireStep
  <2>. QED
    BY <2>1, <2>4
<1>4. ASSUME NEW p \in Processes, Close(p), \A q \in Processes : q # p => pub'[q] = pub[q]
      PROVE  Goal
  <2>1. /\ wire'[p] = <<>> /\ \A r \in Processes : r # p => wire'[r] = wire[r]
        /\ \A s \in Slots : Host[s] # p => slot'[s] = slot[s]
    BY <1>0, <1>4 DEF Close, MsgTypeOK
  <2>2. Carried(p)' = {} /\ \A r \in Processes : r # p => Carried(r)' = Carried(r)
    BY <2>1 DEF Carried
  <2>3. OneEach'
    BY <1>0, <2>1 DEF OneEach
  <2>4. ASSUME NEW q \in Processes, NEW m \in Carried(q)'
        PROVE  /\ m \in Carried(q)
               /\ m.by = q => pub'[q] = pub[q]
               /\ m.by \in Slots => slot'[m.by] = slot[m.by]
    <3>1. q # p /\ m \in Carried(q)
      BY <2>2
    <3>2. m.by \in Slots => Host[m.by] = q
      BY <1>0, <3>1 DEF WireAgrees, Agrees
    <3>. QED
      BY <1>4, <2>1, <3>1, <3>2
  <2>5. WireAgrees'
    BY <2>4, WireStep
  <2>. QED
    BY <2>3, <2>5
<1>5. ASSUME NEW p \in Processes, ChannelLost(p) \/ Crash(p) PROVE Goal
  <2>1. Close(p) /\ (StopBatch(p) \/ UNCHANGED pub)
    BY <1>5 DEF ChannelLost, Crash
  <2>2. \A q \in Processes : q # p => pub'[q] = pub[q]
    BY <1>0, <2>1 DEF StopBatch, PubOK
  <2>. QED
    BY <1>4, <2>1, <2>2
<1>6. ASSUME NEW s \in Slots, NEW rec, slot' = [slot EXCEPT ![s] = rec],
             UNCHANGED <<wire, pub>>, ~ OnWire(Host[s], s)
      PROVE  Goal
  <2>1. \A t \in Slots : t # s => slot'[t] = slot[t]
    BY <1>0, <1>6 DEF SlotOK
  <2>. QED
    BY <1>6, <2>1, WireSlot
<1>7. ASSUME NEW s \in Slots, Deliver(s) PROVE Goal
  <2>1. PICK c \in Copy : SetSlot(s, "handle", c)
    BY <1>7 DEF Deliver
  <2>2. slot[s].phase # "copy"
    BY <1>7 DEF Deliver
  <2>. QED
    BY <1>6, <1>7, <2>1, <2>2, NotWaiting DEF Deliver, SetSlot, channel
<1>8. ASSUME NEW s \in Slots, Consume(s) PROVE Goal
  <2>1. CASE HandlerReturns(s)
    <3>1. slot[s].phase # "copy"
      BY <2>1 DEF HandlerReturns
    <3>. QED
      BY <1>6, <2>1, <3>1, NotWaiting DEF HandlerReturns, SetSlot, channel
  <2>2. CASE HandlerThrows(s)
    <3> DEFINE p == Host[s]
               c == slot[s].copy
               m0 == [by |-> s, key |-> Replacement(c).key, copy |-> Replacement(c).copy]
    <3>0. slot[s].phase = "handle" /\ c \in Copy /\ p \in Processes /\ s \in Sender
      BY <1>0, <2>2, HostAssumption DEF HandlerThrows, SlotOK, Sender
    <3>1. ~ OnWire(p, s)
      BY <3>0, NotWaiting
    <3>2. Send(p, s, Replacement(c).key, Replacement(c).copy) /\ UNCHANGED pub
      BY <2>2 DEF HandlerThrows
    <3>3. slot' = [slot EXCEPT ![s] = [phase |-> "copy", copy |-> c]]
      BY <2>2 DEF HandlerThrows, SetSlot
    <3>4. slot'[s].phase = "copy" /\ slot'[s].copy = c
          /\ \A t \in Slots : t # s => slot'[t] = slot[t]
      BY <1>0, <3>3 DEF SlotOK
    <3>5. Replacement(c).key \in {"execution", "dead-letter"} /\ Replacement(c).copy \in Copy
      BY <3>0, ReplacementOf
    <3>6. /\ Carried(p)' = Carried(p) \cup {m0} /\ OneEach'
          /\ \A r \in Processes : r # p => wire'[r] = wire[r]
      <4>1. ASSUME NEW q \in Processes, q = p, NEW k, k = Replacement(c).key,
                   NEW d, d = Replacement(c).copy
            PROVE  /\ Carried(q)' = Carried(q) \cup {[by |-> s, key |-> k, copy |-> d]} /\ OneEach'
                   /\ \A r \in Processes : r # q => wire'[r] = wire[r]
        BY <1>0, <3>0, <3>1, <3>2, <3>5, <4>1, SendEffect
      <4>. QED
        BY <3>0, <4>1
    <3>7. ASSUME NEW m, m = m0 PROVE Agrees(p, m)'
      BY <3>0, <3>4, <3>7, SendersAssumption DEF Agrees, Replacement
    <3> HIDE DEF m0
    <3>8. \A r \in Processes : r # p => Carried(r)' = Carried(r)
      BY <3>6 DEF Carried
    <3>9. ASSUME NEW q \in Processes, NEW m \in Carried(q), m.by = s PROVE FALSE
      <4>1. Host[s] = q
        BY <1>0, <3>9 DEF WireAgrees, Agrees
      <4>. QED
        BY <1>0, <3>1, <3>9, <4>1, CarriedSent
    <3>10. ASSUME NEW q \in Processes, NEW m \in Carried(q)'
           PROVE \/ Agrees(q, m)'
                 \/ m \in Carried(q) /\ (m.by = q => pub'[q] = pub[q])
                    /\ (m.by \in Slots => slot'[m.by] = slot[m.by])
      <4>1. CASE q = p /\ m = m0
        BY <3>7, <4>1
      <4>2. CASE ~ (q = p /\ m = m0)
        <5>1. m \in Carried(q)
          BY <3>6, <3>8, <4>2
        <5>2. m.by # s
          BY <3>9, <5>1
        <5>. QED
          BY <3>2, <3>4, <5>1, <5>2
      <4>. QED
        BY <4>1, <4>2
    <3>11. WireAgrees'
      BY <3>10, WireStep
    <3>. QED
      BY <3>6, <3>11
  <2>3. CASE ReplacementConfirmed(s)
    BY <1>6, <2>3 DEF ReplacementConfirmed, SetSlot, channel, Confirmed
  <2>4. CASE ReplacementFails(s)
    <3> DEFINE p == Host[s]
    <3>0. p \in Processes /\ GiveUp(p, s) /\ UNCHANGED pub
          /\ \A t \in Slots : t # s => slot'[t] = slot[t]
      BY <1>0, <2>4, HostAssumption DEF ReplacementFails, SlotOK
    <3>1. /\ \A m \in Carried(p)' : m.by # s /\ (m \in Carried(p) \/ m.by = None)
          /\ \A r \in Processes : r # p => wire'[r] = wire[r]
          /\ OneEach'
      BY <1>0, <3>0, GiveUpEffect DEF Sender
    <3>2. \A r \in Processes : r # p => Carried(r)' = Carried(r)
      BY <3>1 DEF Carried
    <3>3. ASSUME NEW q \in Processes, NEW m \in Carried(q), m.by = s PROVE q = p
      <4>1. Agrees(q, m)
        BY <1>0 DEF WireAgrees
      <4>. QED
        BY <3>3, <4>1 DEF Agrees
    <3>4. \A q \in Processes : \A m \in Carried(q)' :
            \/ m.by = None
            \/ /\ m \in Carried(q)
               /\ m.by = q => pub'[q] = pub[q]
               /\ m.by \in Slots => slot'[m.by] = slot[m.by]
      BY <3>0, <3>1, <3>2, <3>3
    <3>5. WireAgrees'
      BY <3>4, WireStep
    <3>. QED
      BY <3>1, <3>5
  <2>5. CASE Acked(s)
    <3>1. slot[s].phase # "copy"
      BY <2>5 DEF Acked
    <3>. QED
      BY <1>6, <2>5, <3>1, NotWaiting DEF Acked, channel
  <2>. QED
    BY <1>8, <2>1, <2>2, <2>3, <2>4, <2>5 DEF Consume
<1>9. ASSUME \/ \E e \in Events : Enqueue(e)
             \/ \E p \in Processes : \/ Reconnect(p) \/ ConsumerCancelled(p)
                                     \/ \E e \in Events : StaleEnds(p, e)
             \/ UNCHANGED msgVars
      PROVE  UNCHANGED <<wire, pub, slot>>
  BY <1>9 DEF Enqueue, Reconnect, ConsumerCancelled, StaleEnds, msgVars, channel, handlers
<1> HIDE DEF Goal
<1>10. Goal
  BY <1>1, <1>2, <1>3, <1>5, <1>7, <1>8, <1>9 DEF MsgNext
<1>. QED
  BY <1>10 DEF Goal

-----------------------------------------------------------------------------
(* The broker keeps what it has until it is replaced. *)

\* Every copy the broker has stays with it, unless it is acknowledged.
LEMMA BrokerKeeps ==
  ASSUME MsgInv, [MsgNext]_msgVars, \A s \in Slots : ~ Acked(s), NEW c \in Copy, AtBroker(c)
  PROVE  AtBroker(c)'
<1>0. MsgTypeOK /\ SlotOK
  BY TypeParts DEF MsgInv
<1>1. ASSUME \A d \in Copy : queue'[d] >= queue[d],
             \A s \in Slots : slot[s].phase # "free" =>
               \/ slot'[s].phase # "free" /\ slot'[s].copy = slot[s].copy
               \/ queue'[slot[s].copy] > 0
      PROVE  AtBroker(c)'
  <2>1. queue[c] \in Nat /\ (queue[c] > 0 => queue'[c] > 0)
    <3>1. queue'[c] >= queue[c] /\ queue[c] \in Nat
      BY <1>0, <1>1 DEF MsgTypeOK
    <3>2. queue'[c] \in Nat
      BY <1>0, StepMsgType DEF MsgTypeOK
    <3>. QED
      BY <3>1, <3>2
  <2>. QED
    BY <1>1, <2>1 DEF AtBroker
<1>2. ASSUME UNCHANGED <<queue, slot>> PROVE AtBroker(c)'
  BY <1>2 DEF AtBroker
<1>3. ASSUME NEW s \in Slots, NEW phase, phase # "free", UNCHANGED queue,
             SetSlot(s, phase, slot[s].copy)
      PROVE  AtBroker(c)'
  <2>1. /\ slot'[s].phase # "free" /\ slot'[s].copy = slot[s].copy
        /\ \A t \in Slots : t # s => slot'[t] = slot[t]
    BY <1>0, <1>3 DEF SetSlot, SlotOK
  <2>. QED
    BY <1>3, <2>1 DEF AtBroker
<1>4. ASSUME NEW p \in Processes, BrokerTakes(p) PROVE AtBroker(c)'
  <2>1. \A d \in Copy : queue'[d] >= queue[d]
    <3>1. \A d \in Copy : queue[d] \in Nat
      BY <1>0 DEF MsgTypeOK
    <3>2. ASSUME NEW k, queue' = [queue EXCEPT ![k] = @ + 1], NEW d \in Copy
          PROVE  queue'[d] >= queue[d]
      BY <1>0, <3>1, <3>2 DEF MsgTypeOK
    <3>3. CASE UNCHANGED queue
      BY <3>1, <3>3
    <3>4. CASE queue' = [queue EXCEPT ![Head(wire[p]).copy] = @ + 1]
      BY <3>2, <3>4
    <3>. QED
      BY <1>4, <3>3, <3>4 DEF BrokerTakes
  <2>. QED
    BY <1>1, <1>4, <2>1 DEF BrokerTakes, handlers
<1>5. ASSUME NEW p \in Processes, ChannelLost(p) \/ Crash(p) PROVE AtBroker(c)'
  <2>1. /\ Requeue(p)
        /\ slot' = [s \in Slots |-> IF Host[s] = p THEN FreeSlot ELSE slot[s]]
    BY <1>5 DEF ChannelLost, Crash, Close
  <2>2. /\ \A d \in Copy : queue'[d] >= queue[d]
        /\ \A s \in Slots : Host[s] = p /\ slot[s].phase # "free" => queue'[slot[s].copy] > 0
    BY <1>0, <2>1, RequeueEffect
  <2>. QED
    BY <1>1, <2>1, <2>2
<1>6. ASSUME NEW s \in Slots, Deliver(s) PROVE AtBroker(c)'
  <2>1. PICK d \in Copy : queue' = [queue EXCEPT ![d] = @ - 1] /\ SetSlot(s, "handle", d)
    BY <1>6 DEF Deliver
  <2>2. /\ slot'[s].phase = "handle" /\ slot'[s].copy = d /\ slot[s].phase = "free"
        /\ \A t \in Slots : t # s => slot'[t] = slot[t]
    BY <1>0, <1>6, <2>1 DEF Deliver, SetSlot, SlotOK
  <2>3. c # d => queue'[c] = queue[c]
    BY <1>0, <2>1 DEF MsgTypeOK
  <2>. QED
    BY <2>2, <2>3 DEF AtBroker
<1>7. ASSUME NEW s \in Slots, Consume(s) PROVE AtBroker(c)'
  <2>1. CASE HandlerReturns(s)
    BY <1>3, <2>1 DEF HandlerReturns, broker
  <2>2. CASE HandlerThrows(s)
    BY <1>3, <2>2 DEF HandlerThrows, broker
  <2>3. CASE ReplacementConfirmed(s)
    BY <1>3, <2>3 DEF ReplacementConfirmed, broker
  <2>4. CASE ReplacementFails(s)
    <3>1. slot[s].copy \in Copy
      BY <1>0, <2>4 DEF ReplacementFails, SlotOK
    <3>2. queue'[slot[s].copy] > 0 /\ \A d \in Copy : queue'[d] >= queue[d]
      <4>1. ASSUME NEW k \in Copy, k = slot[s].copy
            PROVE  queue'[k] > 0 /\ \A d \in Copy : queue'[d] >= queue[d]
        <5>1. queue' = [queue EXCEPT ![k] = @ + 1]
          BY <2>4, <4>1 DEF ReplacementFails
        <5>. QED
          BY <1>0, <5>1 DEF MsgTypeOK
      <4>. QED
        BY <3>1, <4>1
    <3>3. \A t \in Slots : t # s => slot'[t] = slot[t]
      BY <1>0, <2>4 DEF ReplacementFails, SlotOK
    <3>. QED
      BY <1>1, <3>2, <3>3
  <2>. QED
    BY <1>7, <2>1, <2>2, <2>3, <2>4 DEF Consume
<1>8. ASSUME \/ \E e \in Events : Enqueue(e)
             \/ \E p \in Processes : \/ PublishBatch(p) \/ Reconnect(p) \/ ConsumerCancelled(p)
                                     \/ \E e \in Events : StaleEnds(p, e)
             \/ UNCHANGED msgVars
      PROVE  UNCHANGED <<queue, slot>>
  BY <1>8 DEF Enqueue, PublishBatch, Poll, Publish, PublishConfirmed, PublishFails, Mark, MarkFails,
     Reconnect, ConsumerCancelled, StaleEnds, msgVars, broker, handlers
<1>. QED
  BY <1>2, <1>4, <1>5, <1>6, <1>7, <1>8 DEF MsgNext

LEMMA SettledStays ==
  ASSUME [MsgNext]_msgVars
  PROVE  handled \subseteq handled' /\ dead \subseteq dead'
BY DEF MsgNext, PublishBatch, Consume, Enqueue, Poll, Publish, PublishConfirmed, PublishFails, Mark,
   MarkFails, BrokerTakes, Reconnect, ChannelLost, Crash, Close, ConsumerCancelled, StaleEnds,
   Deliver, HandlerReturns, HandlerThrows, ReplacementConfirmed, ReplacementFails, Acked,
   msgVars, broker, handlers

\* An event that is present from retry n on remains so: what replaces an acknowledged
\* delivery has one retry more, and is not the delivery itself.
LEMMA PresentStays ==
  ASSUME MsgInv, [MsgNext]_msgVars, NEW e, NEW n \in Nat, Present(e, n)
  PROVE  Present(e, n)'
<1>1. CASE e \in handled \cup dead
  BY <1>1, SettledStays DEF Present
<1>2. ASSUME NEW c \in Copy, c.event = e, c.retries >= n, AtBroker(c)
      PROVE  Present(e, n)'
  <2>1. CASE \A s \in Slots : ~ Acked(s)
    <3>1. AtBroker(c)'
      BY <1>2, <2>1, BrokerKeeps
    <3>. QED
      BY <1>2, <3>1 DEF Present
  <2>2. ASSUME NEW s \in Slots, Acked(s) PROVE Present(e, n)'
    <3>1. slot[s].phase = "ack" /\ slot' = [slot EXCEPT ![s] = FreeSlot] /\ UNCHANGED <<queue, handled, dead>>
      BY <2>2 DEF Acked, broker
    <3>2. \A t \in Slots : t # s => slot'[t] = slot[t]
      BY <3>1, TypeParts DEF SlotOK, MsgInv
    <3>3. ASSUME NEW d \in Copy, AtBroker(d), d # slot[s].copy PROVE AtBroker(d)'
      BY <3>1, <3>2, <3>3 DEF AtBroker
    <3>4. CASE c # slot[s].copy
      BY <1>2, <3>3, <3>4 DEF Present
    <3>5. CASE c = slot[s].copy
      <4>1. Present(c.event, c.retries + 1)
        BY <3>1, <3>5 DEF MsgInv, NothingForgotten, SlotSafe
      <4>2. CASE c.event \in handled \cup dead
        BY <1>2, <3>1, <4>2 DEF Present
      <4>3. ASSUME NEW d \in Copy, d.event = c.event, d.retries >= c.retries + 1, AtBroker(d)
            PROVE  Present(e, n)'
        <5>1. c.retries \in Int /\ d.retries \in Int
          BY LimitsAssumption DEF Copy
        <5>2. d # c /\ d.retries >= n
          BY <1>2, <4>3, <5>1
        <5>3. AtBroker(d)'
          BY <3>3, <3>5, <4>3, <5>2
        <5>. QED
          BY <1>2, <4>3, <5>2, <5>3 DEF Present
      <4>. QED
        BY <4>1, <4>2, <4>3 DEF Present
    <3>. QED
      BY <3>4, <3>5
  <2>. QED
    BY <2>1, <2>2
<1>. QED
  BY <1>1, <1>2 DEF Present

-----------------------------------------------------------------------------
(* Nothing is marked or acknowledged before the broker has it. *)

\* A sender whose message has left its wire: the broker has taken it.
LEMMA BrokerHasIt ==
  ASSUME MsgInv, NEW p \in Processes, BrokerTakes(p)
  PROVE  /\ OnWire(p, p) => OnWire(p, p)' \/ Present(pub[p].row, 0)'
         /\ \A s \in Slots : OnWire(p, s) /\ Host[s] = p =>
              OnWire(p, s)' \/ Present(slot[s].copy.event, slot[s].copy.retries + 1)'
<1>0. MsgTypeOK /\ OneEach /\ WireAgrees /\ MsgTypeOK'
  BY StepMsgType DEF MsgInv, MsgNext
<1> DEFINE m == Head(wire[p])
<1>1. m \in Sent /\ m \in Carried(p) /\ Carried(p) = Carried(p)' \cup {m}
  BY <1>0, TakeEffect DEF BrokerTakes
<1>2. m.copy \in Copy /\ Agrees(p, m)
  BY <1>0, <1>1 DEF Sent, WireAgrees
<1>3. /\ m.key = "execution" => queue' = [queue EXCEPT ![m.copy] = @ + 1]
      /\ m.key = "dead-letter" => dead' = dead \cup {m.copy.event}
      /\ UNCHANGED <<pub, slot>>
  BY DEF BrokerTakes, handlers
<1> HIDE DEF m
<1>4. \A s : OnWire(p, s) => OnWire(p, s)' \/ m.by = s
  <2>1. ASSUME NEW s, OnWire(p, s), m.by # s PROVE OnWire(p, s)'
    <3>1. PICK x \in Carried(p) : x.by = s
      BY <1>0, <2>1, CarriedSent
    <3>2. x \in Carried(p)'
      BY <1>1, <2>1, <3>1
    <3>. QED
      BY <3>1, <3>2 DEF Carried, OnWire
  <2>. QED
    BY <2>1
<1>5. ASSUME NEW k \in Copy, m.key = "execution", m.copy = k PROVE queue'[k] > 0
  <2>1. queue[k] \in Nat /\ queue'[k] = queue[k] + 1
    BY <1>0, <1>3, <1>5 DEF MsgTypeOK
  <2>. QED
    BY <2>1
<1>6. OnWire(p, p) => OnWire(p, p)' \/ Present(pub[p].row, 0)'
  <2> SUFFICES ASSUME m.by = p PROVE Present(pub[p].row, 0)'
    BY <1>4
  <2>1. m.key = "execution" /\ m.copy = [event |-> pub[p].row, retries |-> 0]
    BY <1>2 DEF Agrees
  <2>2. PICK k \in Copy : k = m.copy
    BY <1>2
  <2>3. queue'[k] > 0
    BY <1>5, <2>1, <2>2
  <2>4. AtBroker(k)'
    BY <2>3 DEF AtBroker
  <2>5. k.event = pub'[p].row /\ k.retries >= 0
    BY <1>3, <2>1, <2>2
  <2>. QED
    BY <2>4, <2>5 DEF Present
<1>7. ASSUME NEW s \in Slots, OnWire(p, s), Host[s] = p
      PROVE  OnWire(p, s)' \/ Present(slot[s].copy.event, slot[s].copy.retries + 1)'
  <2> SUFFICES ASSUME m.by = s PROVE Present(slot[s].copy.event, slot[s].copy.retries + 1)'
    BY <1>4, <1>7
  <2>1. /\ slot[s].phase = "copy" /\ m.key = Replacement(slot[s].copy).key
        /\ m.copy = Replacement(slot[s].copy).copy
    BY <1>2 DEF Agrees
  <2>2. PICK k \in Copy : k = slot[s].copy
    BY <1>0, <2>1 DEF MsgTypeOK
  <2>3. k = slot'[s].copy /\ k.retries \in Nat
    BY <1>3, <2>2, LimitsAssumption DEF Copy
  <2>4. PICK d \in Copy : d = m.copy
    BY <1>2
  <2>5. CASE m.key = "execution"
    <3>1. d.event = k.event /\ d.retries = k.retries + 1
      <4>1. Replacement(k).key = "execution" /\ d = Replacement(k).copy
        BY <2>1, <2>2, <2>4, <2>5
      <4>. QED
        BY <4>1, ReplacementOf
    <3>2. queue'[d] > 0
      BY <1>5, <2>4, <2>5
    <3>3. AtBroker(d)' /\ d.retries >= k.retries + 1
      BY <2>3, <3>1, <3>2 DEF AtBroker
    <3>. QED
      BY <2>3, <3>1, <3>3 DEF Present
  <2>6. CASE m.key = "dead-letter"
    <3>1. d = k
      <4>1. Replacement(k).key = "dead-letter" /\ d = Replacement(k).copy
        BY <2>1, <2>2, <2>4, <2>6
      <4>. QED
        BY <4>1, ReplacementOf
    <3>. QED
      BY <1>3, <2>3, <2>4, <2>6, <3>1 DEF Present
  <2>. QED
    BY <1>1, <2>5, <2>6 DEF Sent
<1>. QED
  BY <1>6, <1>7

LEMMA PublisherStays ==
  ASSUME MsgInv, [MsgNext]_msgVars, NEW p \in Processes, pub'[p] = pub[p],
         OnWire(p, p) => OnWire(p, p)' \/ Present(pub[p].row, 0)'
  PROVE  PublisherSafe(p)'
<1>1. ASSUME NEW e, e = pub[p].row, Present(e, 0) PROVE Present(pub[p].row, 0)'
  <2>1. Present(e, 0)'
    BY <1>1, PresentStays
  <2>. QED
    BY <1>1, <2>1 DEF Present
<1>2. PublisherSafe(p)
  BY DEF MsgInv, NothingForgotten
<1>. QED
  BY <1>1, <1>2 DEF PublisherSafe

LEMMA SlotStays ==
  ASSUME MsgInv, [MsgNext]_msgVars, NEW s \in Slots, slot'[s] = slot[s],
         OnWire(Host[s], s) =>
           OnWire(Host[s], s)' \/ Present(slot[s].copy.event, slot[s].copy.retries + 1)'
  PROVE  SlotSafe(s)'
<1>1. ASSUME NEW c \in Copy, c = slot[s].copy, Present(c.event, c.retries + 1)
      PROVE  Present(slot[s].copy.event, slot[s].copy.retries + 1)'
  <2>1. c.retries + 1 \in Nat
    BY LimitsAssumption DEF Copy
  <2>2. Present(c.event, c.retries + 1)'
    BY <1>1, <2>1, PresentStays
  <2>. QED
    BY <1>1, <2>2 DEF Present
<1>2. SlotSafe(s) /\ (slot[s].phase # "free" => slot[s].copy \in Copy)
  BY DEF MsgInv, NothingForgotten, MsgTypeOK
<1>. QED
  BY <1>1, <1>2 DEF SlotSafe

\* The rows marked so far stay safe; a step has to answer for its own process's
\* publisher, handlers and marks only.
LEMMA ForgottenStep ==
  ASSUME MsgInv, [MsgNext]_msgVars,
         \A p \in Processes : PublisherSafe(p)',
         \A s \in Slots : SlotSafe(s)',
         \A e \in published' \ published : Present(e, 0)'
  PROVE  NothingForgotten'
<1>1. \A e \in published : Present(e, 0)'
  BY PresentStays DEF MsgInv, NothingForgotten
<1>. QED
  BY <1>1 DEF NothingForgotten

\* A publisher moves; handlers wait as before.
LEMMA PublisherMoves ==
  ASSUME MsgInv, [MsgNext]_msgVars, NEW p \in Processes, UNCHANGED slot,
         \A q \in Processes : q # p => pub'[q] = pub[q] /\ wire'[q] = wire[q],
         \A s \in Slots : OnWire(p, s) => OnWire(p, s)',
         PublisherSafe(p)', \A e \in published' \ published : Present(e, 0)'
  PROVE  NothingForgotten'
<1>1. ASSUME NEW q \in Processes, q # p PROVE PublisherSafe(q)'
  <2>1. OnWire(q, q) => OnWire(q, q)'
    BY <1>1 DEF OnWire
  <2>. QED
    BY <1>1, <2>1, PublisherStays
<1>2. ASSUME NEW s \in Slots PROVE SlotSafe(s)'
  <2>1. Host[s] # p => wire'[Host[s]] = wire[Host[s]]
    BY HostAssumption
  <2>2. OnWire(Host[s], s) => OnWire(Host[s], s)'
    BY <2>1 DEF OnWire
  <2>. QED
    BY <2>2, SlotStays
<1>. QED
  BY <1>1, <1>2, ForgottenStep

\* A handler moves; publishers and other handlers wait as before.
LEMMA HandlerMoves ==
  ASSUME MsgInv, [MsgNext]_msgVars, NEW s \in Slots, UNCHANGED <<pub, published>>,
         \A t \in Slots : t # s => slot'[t] = slot[t],
         \A q \in Processes : q # Host[s] => wire'[q] = wire[q],
         \A r : r # s /\ OnWire(Host[s], r) => OnWire(Host[s], r)',
         SlotSafe(s)'
  PROVE  NothingForgotten'
<1>0. s \notin Processes
  BY SendersAssumption
<1>1. ASSUME NEW q \in Processes PROVE PublisherSafe(q)'
  <2>1. OnWire(q, q) => OnWire(q, q)'
    BY <1>0 DEF OnWire
  <2>. QED
    BY <2>1, PublisherStays
<1>2. ASSUME NEW t \in Slots, t # s PROVE SlotSafe(t)'
  <2>1. Host[t] \in Processes
    BY HostAssumption
  <2>2. OnWire(Host[t], t) => OnWire(Host[t], t)'
    BY <1>2, <2>1 DEF OnWire
  <2>. QED
    BY <1>2, <2>2, SlotStays
<1>. QED
  BY <1>1, <1>2, ForgottenStep

LEMMA StepForgets ==
  ASSUME MsgInv, [MsgNext]_msgVars
  PROVE  NothingForgotten'
<1>0. MsgTypeOK /\ OneEach /\ WireAgrees /\ SlotOK /\ PubOK /\ NothingForgotten
  BY TypeParts DEF MsgInv
<1>1. ASSUME UNCHANGED <<wire, pub, slot, published>> PROVE NothingForgotten'
  <2>1. \A p, s : OnWire(p, s) => OnWire(p, s)'
    BY <1>1 DEF OnWire
  <2>2. \A p \in Processes : PublisherSafe(p)'
    BY <1>1, <2>1, PublisherStays
  <2>3. \A s \in Slots : SlotSafe(s)'
    BY <1>1, <2>1, SlotStays
  <2>. QED
    BY <1>1, <2>2, <2>3, ForgottenStep
<1>2. ASSUME NEW p \in Processes, PublishBatch(p) PROVE NothingForgotten'
  <2>0. UNCHANGED <<slot, queue, handled, dead>>
    BY <1>2 DEF PublishBatch, Poll, Publish, PublishConfirmed, PublishFails, Mark, MarkFails,
       handlers, broker
  <2>1. ASSUME NEW phase, NEW batch, NEW row, SetPub(p, phase, batch, row)
        PROVE  /\ pub'[p].phase = phase /\ pub'[p].row = row
               /\ \A q \in Processes : q # p => pub'[q] = pub[q]
    BY <1>0, <2>1 DEF SetPub, PubOK
  <2>2. ASSUME StopBatch(p)
        PROVE  pub'[p].phase = "idle" /\ \A q \in Processes : q # p => pub'[q] = pub[q]
    BY <1>0, <2>2 DEF StopBatch, IdlePublisher, PubOK
  <2>3. ASSUME UNCHANGED <<wire, published>>, \A q \in Processes : q # p => pub'[q] = pub[q],
               PublisherSafe(p)'
        PROVE  NothingForgotten'
    <3>1. \A s \in Slots : OnWire(p, s) => OnWire(p, s)'
      BY <2>3 DEF OnWire
    <3>. QED
      BY <2>0, <2>3, <3>1, PublisherMoves
  <2>4. CASE Poll(p)
    <3>1. PICK B : SetPub(p, "publish", B, None)
      BY <2>4 DEF Poll
    <3>2. PublisherSafe(p)'
      BY <2>1, <3>1 DEF PublisherSafe
    <3>. QED
      BY <2>1, <2>3, <2>4, <3>1, <3>2 DEF Poll, rows, channel
  <2>5. ASSUME NEW e \in Events, Publish(p, e) PROVE NothingForgotten'
    <3> DEFINE c == [event |-> e, retries |-> 0]
               m0 == [by |-> p, key |-> "execution", copy |-> c]
    <3>1. ~ OnWire(p, p)
      BY <2>5, NotWaiting DEF Publish
    <3>2. /\ c \in Copy /\ p \in Sender /\ Send(p, p, "execution", c) /\ UNCHANGED published
          /\ SetPub(p, "confirm", pub[p].batch, e)
      BY <2>5, LimitsAssumption DEF Publish, Copy, Sender, rows
    <3>3. /\ Carried(p)' = Carried(p) \cup {m0}
          /\ \A r \in Processes : r # p => wire'[r] = wire[r]
      <4> HIDE DEF c
      <4>. QED
        BY <1>0, <3>1, <3>2, SendEffect
    <3>4. OnWire(p, p)' /\ \A s \in Slots : OnWire(p, s) => OnWire(p, s)'
      <4>1. \A s : OnWire(p, s) <=> \E m \in Carried(p) : m.by = s
        BY <1>0, CarriedSent
      <4>2. \A s : (\E m \in Carried(p)' : m.by = s) => OnWire(p, s)'
        BY DEF Carried, OnWire
      <4>3. PICK x : x.by = p /\ Carried(p)' = Carried(p) \cup {x}
        BY <3>3
      <4>. QED
        BY <4>1, <4>2, <4>3
    <3>5. PublisherSafe(p)'
      BY <2>1, <3>2, <3>4 DEF PublisherSafe
    <3>. QED
      BY <2>0, <2>1, <3>2, <3>3, <3>4, <3>5, PublisherMoves
  <2>6. CASE PublishConfirmed(p)
    <3>1. SetPub(p, "mark", pub[p].batch, pub[p].row) /\ UNCHANGED <<wire, published>>
      BY <2>6 DEF PublishConfirmed, rows, channel
    <3>2. Present(pub[p].row, 0)
      BY <1>0, <2>6 DEF PublishConfirmed, Confirmed, NothingForgotten, PublisherSafe
    <3>3. PublisherSafe(p)'
      <4>1. ASSUME NEW e, e = pub[p].row PROVE Present(e, 0)'
        BY <3>2, <4>1, PresentStays
      <4>2. pub'[p].row = pub[p].row
        BY <2>1, <3>1
      <4>. QED
        BY <4>1, <4>2 DEF PublisherSafe, Present
    <3>. QED
      BY <2>1, <2>3, <3>1, <3>3
  <2>7. CASE PublishFails(p)
    <3>1. StopBatch(p) /\ UNCHANGED published
      BY <2>7 DEF PublishFails, rows
    <3>2. PublisherSafe(p)'
      BY <2>2, <3>1 DEF PublisherSafe
    <3>3. CASE UNCHANGED wire
      BY <2>2, <2>3, <3>1, <3>2, <3>3
    <3>4. CASE GiveUp(p, p)
      <4>1. /\ \A m \in Carried(p) : m.by # p => m \in Carried(p)'
            /\ \A r \in Processes : r # p => wire'[r] = wire[r]
        BY <1>0, <3>4, GiveUpEffect DEF Sender
      <4>2. \A s \in Slots : OnWire(p, s) => OnWire(p, s)'
        <5>1. \A s : OnWire(p, s) <=> \E m \in Carried(p) : m.by = s
          BY <1>0, CarriedSent
        <5>2. \A s : (\E m \in Carried(p)' : m.by = s) => OnWire(p, s)'
          BY DEF Carried, OnWire
        <5>3. p \notin Slots
          BY SendersAssumption
        <5>. QED
          BY <4>1, <5>1, <5>2, <5>3
      <4>. QED
        BY <2>0, <2>2, <3>1, <3>2, <4>1, <4>2, PublisherMoves
    <3>. QED
      BY <2>7, <3>3, <3>4 DEF PublishFails
  <2>8. ASSUME pub[p].phase = "mark", UNCHANGED wire,
               published' \in {published, published \cup {pub[p].row}},
               pub'[p].phase \in {"idle", "publish"},
               \A q \in Processes : q # p => pub'[q] = pub[q]
        PROVE  NothingForgotten'
    <3>1. \A e \in published' \ published : Present(e, 0)'
      <4>1. Present(pub[p].row, 0)
        BY <1>0, <2>8 DEF NothingForgotten, PublisherSafe
      <4>2. ASSUME NEW e \in published' \ published PROVE Present(e, 0)'
        <5>1. e = pub[p].row
          BY <2>8
        <5>. QED
          BY <4>1, <5>1, PresentStays
      <4>. QED
        BY <4>2
    <3>2. PublisherSafe(p)'
      BY <2>8 DEF PublisherSafe
    <3>3. \A s \in Slots : OnWire(p, s) => OnWire(p, s)'
      BY <2>8 DEF OnWire
    <3>. QED
      BY <2>0, <2>8, <3>1, <3>2, <3>3, PublisherMoves
  <2>9. CASE Mark(p)
    BY <2>1, <2>8, <2>9 DEF Mark, channel
  <2>10. CASE MarkFails(p)
    BY <2>2, <2>8, <2>10 DEF MarkFails, channel
  <2>. QED
    BY <1>2, <2>4, <2>5, <2>6, <2>7, <2>9, <2>10 DEF PublishBatch
<1>3. ASSUME NEW p \in Processes, BrokerTakes(p) PROVE NothingForgotten'
  <2>0. UNCHANGED <<pub, slot, published>> /\ \A q \in Processes : q # p => wire'[q] = wire[q]
    BY <1>0, <1>3 DEF BrokerTakes, handlers, rows, MsgTypeOK
  <2>1. ASSUME NEW q \in Processes PROVE PublisherSafe(q)'
    <3>1. CASE q = p
      BY <1>3, <2>0, <3>1, BrokerHasIt, PublisherStays
    <3>2. CASE q # p
      <4>1. OnWire(q, q) => OnWire(q, q)'
        BY <2>0, <3>2 DEF OnWire
      <4>. QED
        BY <2>0, <4>1, PublisherStays
    <3>. QED
      BY <3>1, <3>2
  <2>2. ASSUME NEW s \in Slots PROVE SlotSafe(s)'
    <3>1. CASE Host[s] = p
      BY <1>3, <2>0, <3>1, BrokerHasIt, SlotStays
    <3>2. CASE Host[s] # p
      <4>1. wire'[Host[s]] = wire[Host[s]]
        BY <2>0, <3>2, HostAssumption
      <4>2. OnWire(Host[s], s) => OnWire(Host[s], s)'
        BY <4>1 DEF OnWire
      <4>. QED
        BY <2>0, <4>2, SlotStays
    <3>. QED
      BY <3>1, <3>2
  <2>. QED
    BY <2>0, <2>1, <2>2, ForgottenStep
<1>4. ASSUME NEW p \in Processes, ChannelLost(p) \/ Crash(p) PROVE NothingForgotten'
  <2>0. /\ UNCHANGED published
        /\ slot' = [s \in Slots |-> IF Host[s] = p THEN FreeSlot ELSE slot[s]]
        /\ wire' = [wire EXCEPT ![p] = <<>>]
        /\ StopBatch(p) \/ (UNCHANGED pub /\ ~ (pub[p].phase = "confirm" /\ OnWire(p, p)))
    BY <1>4 DEF ChannelLost, Crash, Close, rows
  <2>1. \A q \in Processes : q # p => wire'[q] = wire[q]
    BY <1>0, <2>0 DEF MsgTypeOK
  <2>2. ASSUME NEW q \in Processes PROVE PublisherSafe(q)'
    <3>1. CASE q # p
      <4>1. pub'[q] = pub[q]
        BY <1>0, <2>0, <3>1 DEF StopBatch, PubOK
      <4>2. OnWire(q, q) => OnWire(q, q)'
        BY <2>1, <3>1 DEF OnWire
      <4>. QED
        BY <4>1, <4>2, PublisherStays
    <3>2. CASE q = p /\ StopBatch(p)
      <4>1. pub'[p].phase = "idle"
        BY <1>0, <3>2 DEF StopBatch, IdlePublisher, PubOK
      <4>. QED
        BY <3>2, <4>1 DEF PublisherSafe
    <3>3. CASE q = p /\ UNCHANGED pub /\ ~ (pub[p].phase = "confirm" /\ OnWire(p, p))
      <4>1. ~ OnWire(p, p)
        BY <3>3, NotWaiting
      <4>. QED
        BY <3>3, <4>1, PublisherStays
    <3>. QED
      BY <2>0, <3>1, <3>2, <3>3
  <2>3. ASSUME NEW s \in Slots PROVE SlotSafe(s)'
    <3>1. CASE Host[s] = p
      <4>1. slot'[s].phase = "free"
        BY <2>0, <3>1 DEF FreeSlot
      <4>. QED
        BY <4>1 DEF SlotSafe
    <3>2. CASE Host[s] # p
      <4>1. slot'[s] = slot[s] /\ wire'[Host[s]] = wire[Host[s]]
        BY <2>0, <2>1, <3>2, HostAssumption
      <4>2. OnWire(Host[s], s) => OnWire(Host[s], s)'
        BY <4>1 DEF OnWire
      <4>. QED
        BY <4>1, <4>2, SlotStays
    <3>. QED
      BY <3>1, <3>2
  <2>. QED
    BY <2>0, <2>2, <2>3, ForgottenStep
<1>5. ASSUME NEW s \in Slots, Deliver(s) \/ Consume(s) PROVE NothingForgotten'
  <2>0. UNCHANGED <<pub, published>> /\ Host[s] \in Processes
    BY <1>5, HostAssumption DEF Deliver, Consume, HandlerReturns, HandlerThrows,
       ReplacementConfirmed, ReplacementFails, Acked, rows
  <2>1. ASSUME NEW phase, NEW copy, SetSlot(s, phase, copy)
        PROVE  /\ slot'[s].phase = phase /\ slot'[s].copy = copy
               /\ \A t \in Slots : t # s => slot'[t] = slot[t]
    BY <1>0, <2>1 DEF SetSlot, SlotOK
  <2>2. ASSUME slot' = [slot EXCEPT ![s] = FreeSlot]
        PROVE  SlotSafe(s)' /\ \A t \in Slots : t # s => slot'[t] = slot[t]
    <3>1. slot'[s].phase = "free" /\ \A t \in Slots : t # s => slot'[t] = slot[t]
      BY <1>0, <2>2 DEF SlotOK, FreeSlot
    <3>. QED
      BY <3>1 DEF SlotSafe
  <2>3. ASSUME UNCHANGED wire, \A t \in Slots : t # s => slot'[t] = slot[t], SlotSafe(s)'
        PROVE  NothingForgotten'
    <3>1. \A r : OnWire(Host[s], r) => OnWire(Host[s], r)'
      BY <2>3 DEF OnWire
    <3>. QED
      BY <2>0, <2>3, <3>1, HandlerMoves
  <2>4. CASE Deliver(s)
    <3>1. PICK c \in Copy : SetSlot(s, "handle", c)
      BY <2>4 DEF Deliver
    <3>2. SlotSafe(s)'
      BY <2>1, <3>1 DEF SlotSafe
    <3>. QED
      BY <2>1, <2>3, <2>4, <3>1, <3>2 DEF Deliver, channel
  <2>5. CASE HandlerReturns(s)
    <3>1. slot'[s].copy = slot[s].copy /\ \A t \in Slots : t # s => slot'[t] = slot[t]
      BY <2>1, <2>5 DEF HandlerReturns
    <3>2. SlotSafe(s)'
      BY <2>5, <3>1 DEF HandlerReturns, SlotSafe, Present
    <3>. QED
      BY <2>3, <2>5, <3>1, <3>2 DEF HandlerReturns, channel
  <2>6. CASE HandlerThrows(s)
    <3> DEFINE k == Replacement(slot[s].copy).key
               d == Replacement(slot[s].copy).copy
    <3>1. /\ ~ OnWire(Host[s], s) /\ s \in Sender /\ slot[s].copy \in Copy
          /\ Send(Host[s], s, k, d) /\ SetSlot(s, "copy", slot[s].copy)
      BY <1>0, <2>6, NotWaiting DEF HandlerThrows, Sender, SlotOK
    <3>2. k \in {"execution", "dead-letter"} /\ d \in Copy
      BY <3>1, ReplacementOf
    <3>3. ASSUME NEW q \in Processes, q = Host[s], NEW x, x = k, NEW y, y = d
          PROVE  /\ Carried(q)' = Carried(q) \cup {[by |-> s, key |-> x, copy |-> y]}
                 /\ \A r \in Processes : r # q => wire'[r] = wire[r]
      BY <1>0, <3>1, <3>2, <3>3, SendEffect
    <3>4. ASSUME NEW q \in Processes, q = Host[s]
          PROVE  OnWire(q, s)' /\ \A r : OnWire(q, r) => OnWire(q, r)'
      <4>1. \A r : OnWire(q, r) <=> \E m \in Carried(q) : m.by = r
        BY <1>0, CarriedSent
      <4>2. \A r : (\E m \in Carried(q)' : m.by = r) => OnWire(q, r)'
        BY DEF Carried, OnWire
      <4>3. PICK m0 : m0.by = s /\ Carried(q)' = Carried(q) \cup {m0}
        BY <3>3, <3>4
      <4>. QED
        BY <4>1, <4>2, <4>3
    <3>5. SlotSafe(s)'
      <4>1. slot'[s].phase = "copy"
        BY <2>1, <3>1
      <4>. QED
        BY <2>0, <3>4, <4>1 DEF SlotSafe
    <3>6. \A q \in Processes : q # Host[s] => wire'[q] = wire[q]
      BY <2>0, <3>3
    <3>. QED
      BY <2>0, <2>1, <3>1, <3>4, <3>5, <3>6, HandlerMoves
  <2>7. CASE ReplacementConfirmed(s)
    <3>1. /\ slot'[s].phase = "ack" /\ slot'[s].copy = slot[s].copy
          /\ \A t \in Slots : t # s => slot'[t] = slot[t]
      BY <2>1, <2>7 DEF ReplacementConfirmed
    <3>2. Present(slot[s].copy.event, slot[s].copy.retries + 1) /\ slot[s].copy \in Copy
      BY <1>0, <2>7 DEF ReplacementConfirmed, Confirmed, NothingForgotten, SlotSafe, SlotOK
    <3>3. SlotSafe(s)'
      <4>1. ASSUME NEW c \in Copy, c = slot[s].copy PROVE Present(c.event, c.retries + 1)'
        <5>1. c.retries + 1 \in Nat
          BY LimitsAssumption DEF Copy
        <5>. QED
          BY <3>2, <4>1, <5>1, PresentStays
      <4>. QED
        BY <3>1, <3>2, <4>1 DEF SlotSafe, Present
    <3>. QED
      BY <2>3, <2>7, <3>1, <3>3 DEF ReplacementConfirmed, channel
  <2>8. CASE ReplacementFails(s)
    <3>1. GiveUp(Host[s], s) /\ s \in Sender
      BY <2>8 DEF ReplacementFails, Sender
    <3>2. ASSUME NEW q \in Processes, q = Host[s]
          PROVE  /\ \A r : r # s /\ OnWire(q, r) => OnWire(q, r)'
                 /\ \A r \in Processes : r # q => wire'[r] = wire[r]
      <4>1. /\ \A m \in Carried(q) : m.by # s => m \in Carried(q)'
            /\ \A r \in Processes : r # q => wire'[r] = wire[r]
        BY <1>0, <3>1, <3>2, GiveUpEffect
      <4>2. \A r : OnWire(q, r) <=> \E m \in Carried(q) : m.by = r
        BY <1>0, CarriedSent
      <4>3. \A r : (\E m \in Carried(q)' : m.by = r) => OnWire(q, r)'
        BY DEF Carried, OnWire
      <4>. QED
        BY <4>1, <4>2, <4>3
    <3>. QED
      BY <2>0, <2>2, <2>8, <3>2, HandlerMoves DEF ReplacementFails
  <2>9. CASE Acked(s)
    BY <2>2, <2>3, <2>9 DEF Acked, channel
  <2>. QED
    BY <1>5, <2>4, <2>5, <2>6, <2>7, <2>8, <2>9 DEF Consume
<1>6. ASSUME \/ \E e \in Events : Enqueue(e)
             \/ \E p \in Processes : \/ Reconnect(p) \/ ConsumerCancelled(p)
                                     \/ \E e \in Events : StaleEnds(p, e)
             \/ UNCHANGED msgVars
      PROVE  UNCHANGED <<wire, pub, slot, published>>
  BY <1>6 DEF Enqueue, Reconnect, ConsumerCancelled, StaleEnds, msgVars, channel, handlers, rows
<1>. QED
  BY <1>1, <1>2, <1>3, <1>4, <1>5, <1>6 DEF MsgNext

-----------------------------------------------------------------------------

LEMMA MsgInvariance == MsgSpec => []MsgInv
<1>1. MsgInv /\ [MsgNext]_msgVars => MsgInv'
  BY StepMsgType, StepWire, StepForgets DEF MsgInv
<1>. QED
  BY InitMsg, <1>1, PTL DEF MsgSpec

\* Publishers, wires, queues and handlers stay in the shapes the code can leave them
\* in: a publisher marks a row of its own batch, a handler holds a delivery of its
\* process's open channel, and retry counts stay within RABBITMQ_CONSUMER_MAX_RETRIES.
THEOREM MsgTypeCorrect == MsgSpec => []MsgTypeOK
<1>1. MsgInv => MsgTypeOK
  BY DEF MsgInv
<1>. QED
  BY <1>1, MsgInvariance, PTL

\* Publish, mark, deliver, republish, acknowledge, requeue: whatever fails in between,
\* the event of a row marked published is settled or its copy is with the broker.
THEOREM PublishedNeverLost == MsgSpec => []NothingLost
<1>1. MsgInv => NothingLost
  <2> SUFFICES ASSUME MsgInv, NEW e \in published, e \notin handled \cup dead
               PROVE  Queued(e) \/ \E s \in Slots : Holds(s, e)
    BY DEF NothingLost
  <2>1. PICK c \in Copy : c.event = e /\ AtBroker(c)
    BY DEF MsgInv, NothingForgotten, Present
  <2>. QED
    BY <2>1 DEF AtBroker, Queued, Holds
<1>. QED
  BY <1>1, MsgInvariance, PTL

-----------------------------------------------------------------------------
(* Retries. *)

\* A handler has thrown for the event at every retry count below n.
EarnedAt(e, n) == 0 .. (n - 1) \subseteq thrown[e]

WireEarned ==
  \A p \in Processes : \A m \in Carried(p) :
    EarnedAt(m.copy.event, IF m.key = "execution" THEN m.copy.retries ELSE MaxRetries + 1)

LEMMA EarnedParts ==
  RetriesEarned <=>
    /\ \A c \in Copy : queue[c] > 0 => EarnedAt(c.event, c.retries)
    /\ \A s \in Slots : slot[s].phase # "free" => EarnedAt(slot[s].copy.event, slot[s].copy.retries)
    /\ \A e \in dead : EarnedAt(e, MaxRetries + 1)
BY DEF RetriesEarned, EarnedAt

LEMMA EarnedStays ==
  ASSUME MsgTypeOK, [MsgNext]_msgVars, NEW e \in Events, NEW n, EarnedAt(e, n)
  PROVE  EarnedAt(e, n)'
<1>1. thrown[e] \subseteq thrown'[e]
  <2>1. ASSUME NEW s \in Slots, HandlerThrows(s) PROVE thrown[e] \subseteq thrown'[e]
    <3>1. PICK f, r : thrown' = [thrown EXCEPT ![f] = @ \cup {r}]
      BY <2>1 DEF HandlerThrows
    <3>. QED
      BY <3>1 DEF MsgTypeOK
  <2>2. ASSUME \A s \in Slots : ~ HandlerThrows(s) PROVE UNCHANGED thrown
    BY <2>2 DEF MsgNext, PublishBatch, Consume, Enqueue, Poll, Publish, PublishConfirmed,
       PublishFails, Mark, MarkFails, BrokerTakes, Reconnect, ChannelLost, Crash, Close,
       ConsumerCancelled, StaleEnds, Deliver, HandlerReturns, ReplacementConfirmed,
       ReplacementFails, Acked, msgVars, handlers
  <2>. QED
    BY <2>1, <2>2
<1>. QED
  BY <1>1 DEF EarnedAt

\* What is queued, held, on a wire or dead-lettered after a step was earned before it, or
\* is earned by it.
LEMMA EarnedStep ==
  ASSUME MsgInv, RetriesEarned, WireEarned, [MsgNext]_msgVars,
         \A c \in Copy : queue'[c] > 0 =>
           \/ EarnedAt(c.event, c.retries)
           \/ EarnedAt(c.event, c.retries)',
         \A s \in Slots : slot'[s].phase # "free" =>
           \E c \in Copy : c = slot'[s].copy /\ EarnedAt(c.event, c.retries),
         \A e \in dead' : EarnedAt(e, MaxRetries + 1),
         \A p \in Processes : \A m \in Carried(p)' :
           \/ \E q \in Processes : \E n \in Carried(q) : n.key = m.key /\ n.copy = m.copy
           \/ EarnedAt(m.copy.event, IF m.key = "execution" THEN m.copy.retries ELSE MaxRetries + 1)'
  PROVE  RetriesEarned' /\ WireEarned'
<1>0. MsgTypeOK /\ MsgTypeOK'
  BY StepMsgType DEF MsgInv
<1>1. \A c \in Copy : queue'[c] > 0 => EarnedAt(c.event, c.retries)'
  BY <1>0, EarnedStays DEF Copy
<1>2. ASSUME NEW s \in Slots, slot'[s].phase # "free"
      PROVE  EarnedAt(slot[s].copy.event, slot[s].copy.retries)'
  <2>1. PICK c \in Copy : c = slot'[s].copy /\ EarnedAt(c.event, c.retries)
    BY <1>2
  <2>2. EarnedAt(c.event, c.retries)'
    BY <1>0, <2>1, EarnedStays DEF Copy
  <2>. QED
    BY <2>1, <2>2 DEF EarnedAt
<1>3. ASSUME NEW e \in dead' PROVE EarnedAt(e, MaxRetries + 1)'
  BY <1>0, <1>3, EarnedStays DEF MsgTypeOK
<1>4. RetriesEarned'
  BY <1>1, <1>2, <1>3 DEF RetriesEarned, EarnedAt
<1>5. ASSUME NEW p \in Processes, NEW m \in Carried(p)'
      PROVE  EarnedAt(m.copy.event, IF m.key = "execution" THEN m.copy.retries ELSE MaxRetries + 1)'
  <2> DEFINE k == IF m.key = "execution" THEN m.copy.retries ELSE MaxRetries + 1
  <2>1. ASSUME NEW q \in Processes, NEW n \in Carried(q), n.key = m.key, n.copy = m.copy
        PROVE  EarnedAt(m.copy.event, k)'
    <3>1. m.copy.event \in Events
      BY <1>0, <2>1, CarriedSent DEF Sent, Copy
    <3>2. EarnedAt(m.copy.event, k)
      BY <2>1 DEF WireEarned
    <3> HIDE DEF k
    <3>. QED
      BY <1>0, <3>1, <3>2, EarnedStays
  <2>. QED
    BY <1>5, <2>1
<1>. QED
  BY <1>4, <1>5 DEF WireEarned

LEMMA StepEarned ==
  ASSUME MsgInv, RetriesEarned, WireEarned, [MsgNext]_msgVars
  PROVE  RetriesEarned' /\ WireEarned'
<1>0. MsgTypeOK /\ OneEach /\ SlotOK /\ PubOK /\ MsgTypeOK'
  BY TypeParts, StepMsgType DEF MsgInv
<1>a. \A c \in Copy : queue[c] > 0 => EarnedAt(c.event, c.retries)
  BY EarnedParts
<1>b. \A s \in Slots : slot[s].phase # "free" =>
        \E c \in Copy : c = slot[s].copy /\ EarnedAt(c.event, c.retries)
  BY <1>0, EarnedParts DEF SlotOK
<1>c. \A e \in dead : EarnedAt(e, MaxRetries + 1)
  BY EarnedParts
<1> DEFINE Queues == \A c \in Copy : queue'[c] > 0 =>
             EarnedAt(c.event, c.retries) \/ EarnedAt(c.event, c.retries)'
           Slots1 == \A s \in Slots : slot'[s].phase # "free" =>
             \E c \in Copy : c = slot'[s].copy /\ EarnedAt(c.event, c.retries)
           Wires == \A p \in Processes : \A m \in Carried(p)' :
             \/ \E q \in Processes : \E n \in Carried(q) : n.key = m.key /\ n.copy = m.copy
             \/ EarnedAt(m.copy.event, IF m.key = "execution" THEN m.copy.retries ELSE MaxRetries + 1)'
           Goal == RetriesEarned' /\ WireEarned'
<1>1. ASSUME UNCHANGED queue PROVE Queues
  BY <1>a, <1>1
<1>2. ASSUME UNCHANGED slot PROVE Slots1
  BY <1>b, <1>2
<1>3. ASSUME NEW s \in Slots, NEW phase, SetSlot(s, phase, slot[s].copy), slot[s].phase # "free"
      PROVE  Slots1
  <2>1. slot'[s].copy = slot[s].copy /\ \A t \in Slots : t # s => slot'[t] = slot[t]
    BY <1>0, <1>3 DEF SlotOK, SetSlot
  <2>. QED
    BY <1>b, <1>3, <2>1
<1>4. ASSUME NEW s \in Slots, slot' = [slot EXCEPT ![s] = FreeSlot]
      PROVE  Slots1
  <2>1. slot'[s].phase = "free" /\ \A t \in Slots : t # s => slot'[t] = slot[t]
    BY <1>0, <1>4 DEF SlotOK, FreeSlot
  <2>. QED
    BY <1>b, <2>1
<1>5. ASSUME UNCHANGED wire PROVE Wires
  BY <1>5, WireSame
<1>6. ASSUME Queues, Slots1, Wires, \A e \in dead' : EarnedAt(e, MaxRetries + 1) PROVE Goal
  <2> HIDE DEF Goal
  <2>. QED
    BY <1>6, EarnedStep DEF Goal
<1>7. ASSUME NEW p \in Processes, NEW s \in Sender, NEW key \in {"execution", "dead-letter"},
             NEW copy \in Copy, Send(p, s, key, copy), ~ OnWire(p, s),
             EarnedAt(copy.event, IF key = "execution" THEN copy.retries ELSE MaxRetries + 1)'
      PROVE  Wires
  <2> DEFINE m0 == [by |-> s, key |-> key, copy |-> copy]
  <2>1. /\ Carried(p)' = Carried(p) \cup {m0}
        /\ \A r \in Processes : r # p => wire'[r] = wire[r]
    BY <1>0, <1>7, SendEffect
  <2>2. \A r \in Processes : r # p => Carried(r)' = Carried(r)
    BY <2>1 DEF Carried
  <2>3. ASSUME NEW q \in Processes, NEW m \in Carried(q)'
        PROVE  \/ m \in Carried(q)
               \/ m.key = key /\ m.copy = copy
    BY <2>1, <2>2
  <2>. QED
    BY <1>7, <2>3
<1>8. ASSUME NEW p \in Processes, NEW s \in Sender, GiveUp(p, s) PROVE Wires
  <2>1. /\ \A m \in Carried(p)' :
             m \in Carried(p) \/ \E n \in Carried(p) : n.key = m.key /\ n.copy = m.copy
        /\ \A r \in Processes : r # p => wire'[r] = wire[r]
    BY <1>0, <1>8, GiveUpEffect
  <2>2. \A r \in Processes : r # p => Carried(r)' = Carried(r)
    BY <2>1 DEF Carried
  <2>. QED
    BY <2>1, <2>2
<1> HIDE DEF Queues, Slots1, Wires, Goal
<1>9. ASSUME NEW p \in Processes, PublishBatch(p) PROVE Goal
  <2>1. Queues /\ Slots1 /\ UNCHANGED dead
    BY <1>1, <1>2, <1>9 DEF PublishBatch, Poll, Publish, PublishConfirmed, PublishFails, Mark,
       MarkFails, broker, handlers
  <2>2. ASSUME NEW e \in Events, Publish(p, e) PROVE Wires
    <3>1. /\ [event |-> e, retries |-> 0] \in Copy /\ p \in Sender /\ ~ OnWire(p, p)
          /\ Send(p, p, "execution", [event |-> e, retries |-> 0])
      BY <2>2, LimitsAssumption, NotWaiting DEF Publish, Copy, Sender
    <3>2. EarnedAt(e, 0)'
      BY DEF EarnedAt
    <3>3. PICK c \in Copy : c = [event |-> e, retries |-> 0]
      BY <3>1
    <3>4. EarnedAt(c.event, IF "execution" = "execution" THEN c.retries ELSE MaxRetries + 1)'
      BY <3>2, <3>3
    <3>. QED
      BY <1>7, <3>1, <3>3, <3>4
  <2>3. CASE PublishFails(p)
    <3>1. UNCHANGED wire \/ GiveUp(p, p)
      BY <2>3 DEF PublishFails
    <3>. QED
      BY <1>5, <1>6, <1>8, <1>c, <2>1, <3>1 DEF Sender
  <2>4. CASE Poll(p) \/ PublishConfirmed(p) \/ Mark(p) \/ MarkFails(p)
    BY <1>5, <1>6, <1>c, <2>1, <2>4 DEF Poll, PublishConfirmed, Mark, MarkFails, channel
  <2>. QED
    BY <1>6, <1>9, <1>c, <2>1, <2>2, <2>3, <2>4 DEF PublishBatch
<1>10. ASSUME NEW p \in Processes, BrokerTakes(p) PROVE Goal
  <2> DEFINE m == Head(wire[p])
  <2>1. /\ m \in Sent /\ m \in Carried(p) /\ Carried(p) = Carried(p)' \cup {m}
        /\ \A r \in Processes : r # p => wire'[r] = wire[r]
    BY <1>0, <1>10, TakeEffect DEF BrokerTakes
  <2>2. /\ \/ m.key = "execution" /\ queue' = [queue EXCEPT ![m.copy] = @ + 1] /\ UNCHANGED dead
           \/ m.key = "dead-letter" /\ dead' = dead \cup {m.copy.event} /\ UNCHANGED queue
        /\ UNCHANGED slot
    BY <1>10 DEF BrokerTakes, handlers
  <2> HIDE DEF m
  <2>3. PICK k \in Copy : k = m.copy
    BY <2>1 DEF Sent
  <2>4. EarnedAt(k.event, IF m.key = "execution" THEN k.retries ELSE MaxRetries + 1)
    BY <2>1, <2>3 DEF WireEarned
  <2>5. Queues
    <3>1. ASSUME NEW d \in Copy, d # k PROVE queue'[d] = queue[d]
      BY <1>0, <2>2, <2>3, <3>1 DEF MsgTypeOK
    <3>2. CASE m.key = "execution"
      <4>1. EarnedAt(k.event, k.retries)
        BY <2>4, <3>2
      <4>. QED
        BY <1>a, <3>1, <4>1 DEF Queues
    <3>. QED
      BY <1>1, <2>2, <3>2
  <2>6. \A e \in dead' : EarnedAt(e, MaxRetries + 1)
    BY <1>c, <2>2, <2>3, <2>4
  <2>7. \A r \in Processes : r # p => Carried(r)' = Carried(r)
    BY <2>1 DEF Carried
  <2>8. Wires
    BY <2>1, <2>7 DEF Wires
  <2>. QED
    BY <1>2, <1>6, <2>2, <2>5, <2>6, <2>8
<1>11. ASSUME NEW p \in Processes, ChannelLost(p) \/ Crash(p) PROVE Goal
  <2>1. /\ Requeue(p) /\ UNCHANGED dead
        /\ slot' = [s \in Slots |-> IF Host[s] = p THEN FreeSlot ELSE slot[s]]
        /\ wire' = [wire EXCEPT ![p] = <<>>]
    BY <1>11 DEF ChannelLost, Crash, Close
  <2>2. Queues
    <3>1. \A c \in Copy : queue'[c] > 0 =>
            queue[c] > 0 \/ \E s \in Slots : slot[s].phase # "free" /\ slot[s].copy = c
      BY <1>0, <2>1, RequeueEffect
    <3>. QED
      BY <1>a, <1>b, <3>1 DEF Queues
  <2>3. Slots1
    BY <1>b, <2>1 DEF Slots1, FreeSlot
  <2>4. Wires
    <3>1. wire'[p] = <<>> /\ \A r \in Processes : r # p => wire'[r] = wire[r]
      BY <1>0, <2>1 DEF MsgTypeOK
    <3>2. Carried(p)' = {} /\ \A r \in Processes : r # p => Carried(r)' = Carried(r)
      BY <3>1 DEF Carried
    <3>. QED
      BY <3>2 DEF Wires
  <2>. QED
    BY <1>6, <1>c, <2>1, <2>2, <2>3, <2>4
<1>12. ASSUME NEW s \in Slots, Deliver(s) PROVE Goal
  <2>1. PICK c \in Copy : /\ queue[c] > 0 /\ queue' = [queue EXCEPT ![c] = @ - 1]
                          /\ SetSlot(s, "handle", c)
    BY <1>12 DEF Deliver
  <2>2. Queues
    <3>1. EarnedAt(c.event, c.retries) /\ \A d \in Copy : d # c => queue'[d] = queue[d]
      BY <1>0, <1>a, <2>1 DEF MsgTypeOK
    <3>. QED
      BY <1>a, <3>1 DEF Queues
  <2>3. Slots1
    <3>1. slot'[s].copy = c /\ \A t \in Slots : t # s => slot'[t] = slot[t]
      BY <1>0, <2>1 DEF SetSlot, SlotOK
    <3>. QED
      BY <1>a, <1>b, <2>1, <3>1 DEF Slots1
  <2>. QED
    BY <1>5, <1>6, <1>12, <1>c, <2>2, <2>3 DEF Deliver, channel
<1>13. ASSUME NEW s \in Slots, Consume(s) PROVE Goal
  <2>0. UNCHANGED dead /\ Host[s] \in Processes /\ s \in Sender
    BY <1>13, HostAssumption DEF Consume, HandlerReturns, HandlerThrows, ReplacementConfirmed,
       ReplacementFails, Acked, broker, Sender
  <2>1. CASE HandlerReturns(s) \/ ReplacementConfirmed(s)
    <3>1. /\ UNCHANGED <<wire, queue>> /\ slot[s].phase # "free"
          /\ SetSlot(s, "ack", slot[s].copy)
      BY <2>1 DEF HandlerReturns, ReplacementConfirmed, channel, broker
    <3>. QED
      BY <1>1, <1>3, <1>5, <1>6, <1>c, <2>0, <3>1
  <2>2. CASE HandlerThrows(s)
    <3>1. /\ UNCHANGED queue /\ slot[s].phase = "handle" /\ slot[s].copy \in Copy
          /\ SetSlot(s, "copy", slot[s].copy) /\ ~ OnWire(Host[s], s)
      BY <1>0, <2>2, NotWaiting DEF HandlerThrows, broker, SlotOK
    <3>2. PICK c \in Copy : c = slot[s].copy /\ EarnedAt(c.event, c.retries)
      BY <1>b, <3>1
    <3>3. EarnedAt(c.event, c.retries + 1)'
      <4>1. c.retries \in thrown'[c.event] /\ thrown[c.event] \subseteq thrown'[c.event]
        BY <1>0, <2>2, <3>2 DEF HandlerThrows, MsgTypeOK, Copy
      <4>2. c.retries \in Int
        BY LimitsAssumption DEF Copy
      <4>. QED
        BY <3>2, <4>1, <4>2 DEF EarnedAt
    <3>4. PICK k \in {"execution", "dead-letter"}, d \in Copy :
            k = Replacement(c).key /\ d = Replacement(c).copy
      BY <3>2, ReplacementOf
    <3>5. EarnedAt(d.event, IF k = "execution" THEN d.retries ELSE MaxRetries + 1)'
      <4>1. d.event = c.event
        BY <3>4, ReplacementOf
      <4>2. k = "execution" => d.retries = c.retries + 1
        BY <3>4, ReplacementOf
      <4>3. k = "dead-letter" => c.retries = MaxRetries
        BY <3>4, ReplacementOf
      <4>. QED
        BY <3>3, <4>1, <4>2, <4>3 DEF EarnedAt
    <3>6. Send(Host[s], s, k, d)
      BY <2>2, <3>2, <3>4 DEF HandlerThrows
    <3>7. Wires
      BY <1>7, <2>0, <3>1, <3>5, <3>6
    <3>8. Slots1
      BY <1>3, <3>1
    <3>. QED
      BY <1>1, <1>6, <1>c, <2>0, <3>1, <3>7, <3>8
  <2>3. CASE ReplacementFails(s)
    <3>1. /\ GiveUp(Host[s], s) /\ slot[s].phase = "copy"
          /\ queue' = [queue EXCEPT ![slot[s].copy] = @ + 1]
          /\ slot' = [slot EXCEPT ![s] = FreeSlot]
      BY <2>3 DEF ReplacementFails
    <3>2. PICK c \in Copy : c = slot[s].copy /\ EarnedAt(c.event, c.retries)
      BY <1>b, <3>1
    <3>3. Queues
      <4>1. \A d \in Copy : d # c => queue'[d] = queue[d]
        BY <1>0, <3>1, <3>2 DEF MsgTypeOK
      <4>. QED
        BY <1>a, <3>2, <4>1 DEF Queues
    <3>. QED
      BY <1>4, <1>6, <1>8, <1>c, <2>0, <3>1, <3>3
  <2>4. CASE Acked(s)
    BY <1>1, <1>4, <1>5, <1>6, <1>c, <2>4 DEF Acked, channel, broker
  <2>. QED
    BY <1>13, <2>1, <2>2, <2>3, <2>4 DEF Consume
<1>14. ASSUME \/ \E e \in Events : Enqueue(e)
              \/ \E p \in Processes : \/ Reconnect(p) \/ ConsumerCancelled(p)
                                      \/ \E e \in Events : StaleEnds(p, e)
              \/ UNCHANGED msgVars
       PROVE  Goal
  <2>1. UNCHANGED <<wire, queue, slot, dead>>
    BY <1>14 DEF Enqueue, Reconnect, ConsumerCancelled, StaleEnds, msgVars, channel, handlers, broker
  <2>. QED
    BY <1>1, <1>2, <1>5, <1>6, <1>c, <2>1
<1>15. Goal
  BY <1>9, <1>10, <1>11, <1>12, <1>13, <1>14 DEF MsgNext
<1>. QED
  BY <1>15 DEF Goal

\* A copy with retry count n, and a dead letter at the limit, exist only after a handler
\* threw at every count below: requeues, duplicates and lost channels use up no retry.
THEOREM RetriesAreEarned == MsgSpec => []RetriesEarned
<1>1. MsgInit => WireEarned /\ RetriesEarned
  <2> SUFFICES ASSUME MsgInit PROVE WireEarned /\ RetriesEarned
    OBVIOUS
  <2>1. \A p \in Processes : Carried(p) = {}
    <3>1. \A p \in Processes : wire[p] = <<>>
      BY DEF MsgInit
    <3>2. DOMAIN <<>> = {}
      OBVIOUS
    <3>. QED
      BY <3>1, <3>2 DEF Carried
  <2>2. RetriesEarned
    BY DEF MsgInit, RetriesEarned, FreeSlot
  <2>. QED
    BY <2>1, <2>2 DEF WireEarned
<1>2. (MsgInv /\ MsgInv') /\ (WireEarned /\ RetriesEarned) /\ [MsgNext]_msgVars
        => (WireEarned /\ RetriesEarned)'
  BY StepEarned
<1>. QED
  BY <1>1, <1>2, MsgInvariance, PTL DEF MsgSpec

-----------------------------------------------------------------------------
(* How many copies an event has. *)

\* The parts of CopiesOf.
OfEvent(e) == {c \in Copy : c.event = e}
Hits(seq, e) == {i \in DOMAIN seq : seq[i].copy.event = e}
SentOf(e) == [p \in Processes |-> Cardinality(Hits(wire[p], e))]
Running(e) == {s \in Slots : slot[s].phase = "handle" /\ slot[s].copy.event = e}
InQueue(e) == SumOver(queue, OfEvent(e))
OnWires(e) == SumOver(SentOf(e), Processes)

\* The processes that have published the event's row, or can publish it no more.
Spent(e) ==
  {p \in Processes : pub[p].row = e \/ (e \in published /\ e \notin pub[p].batch)}

\* A copy for each process that has had its turn; polls pick no row that a process has
\* in its batch or that is marked, so no process has two turns.
Once ==
  faults = 0 =>
    /\ up = Processes
    /\ \A e \in Events : CopiesOf(e) <= Cardinality(Spent(e))

\* An event has finitely many copies that differ.
LEMMA EventCopiesFinite ==
  ASSUME NEW e \in Events
  PROVE  IsFiniteSet(OfEvent(e))
<1> DEFINE f == [n \in 0 .. MaxRetries |-> [event |-> e, retries |-> n]]
<1>1. f \in Surjection(0 .. MaxRetries, OfEvent(e))
  BY DEF Surjection, OfEvent, Copy
<1>2. IsFiniteSet(0 .. MaxRetries)
  BY LimitsAssumption, FS_Interval
<1>. QED
  BY <1>1, <1>2, FS_Surjection

LEMMA HitsFinite ==
  ASSUME NEW S, NEW seq \in Seq(S), NEW e
  PROVE  IsFiniteSet(Hits(seq, e)) /\ Cardinality(Hits(seq, e)) \in Nat
<1>1. DOMAIN seq = 1 .. Len(seq) /\ Len(seq) \in Nat
  BY LenProperties
<1>2. Hits(seq, e) \subseteq 1 .. Len(seq)
  BY <1>1 DEF Hits
<1>3. IsFiniteSet(1 .. Len(seq))
  BY <1>1, FS_Interval
<1>. QED
  BY <1>2, <1>3, FS_Subset, FS_CardinalityType

LEMMA HitsAppend ==
  ASSUME NEW S, NEW seq \in Seq(S), NEW m \in S, NEW e
  PROVE  Cardinality(Hits(Append(seq, m), e))
           = Cardinality(Hits(seq, e)) + IF m.copy.event = e THEN 1 ELSE 0
<1> DEFINE n == Len(seq)
           more == Append(seq, m)
<1>1. DOMAIN seq = 1 .. n /\ n \in Nat
  BY LenProperties
<1>2. /\ more \in Seq(S) /\ Len(more) = n + 1 /\ more[n + 1] = m
      /\ \A i \in 1 .. n : more[i] = seq[i]
  BY AppendProperties
<1>3. DOMAIN more = 1 .. n + 1
  BY <1>2, LenProperties
<1> HIDE DEF n, more
<1>4. Hits(more, e) = Hits(seq, e) \cup IF m.copy.event = e THEN {n + 1} ELSE {}
  <2>1. \A i : i \in 1 .. n + 1 <=> i \in 1 .. n \/ i = n + 1
    BY <1>1
  <2>2. \A i : i \in Hits(more, e) <=>
                 (i \in 1 .. n /\ seq[i].copy.event = e) \/ (i = n + 1 /\ m.copy.event = e)
    BY <1>2, <1>3, <2>1 DEF Hits
  <2>3. \A i : i \in Hits(seq, e) <=> i \in 1 .. n /\ seq[i].copy.event = e
    BY <1>1 DEF Hits
  <2>. QED
    BY <2>2, <2>3
<1>5. n + 1 \notin Hits(seq, e)
  BY <1>1 DEF Hits
<1>6. IsFiniteSet(Hits(seq, e)) /\ Cardinality(Hits(seq, e)) \in Nat
  BY HitsFinite
<1>7. Cardinality(Hits(seq, e) \cup {n + 1}) = Cardinality(Hits(seq, e)) + 1
  BY <1>5, <1>6, FS_AddElement
<1>8. CASE m.copy.event = e
  <2>1. Hits(more, e) = Hits(seq, e) \cup {n + 1}
    BY <1>4, <1>8
  <2>. QED
    BY <1>7, <1>8, <2>1 DEF more
<1>9. CASE m.copy.event # e
  <2>1. Hits(more, e) = Hits(seq, e)
    BY <1>4, <1>9
  <2>. QED
    BY <1>6, <1>9, <2>1 DEF more
<1>. QED
  BY <1>8, <1>9

LEMMA HitsTail ==
  ASSUME NEW S, NEW seq \in Seq(S), seq # <<>>, NEW e
  PROVE  Cardinality(Hits(Tail(seq), e))
           = Cardinality(Hits(seq, e)) - IF Head(seq).copy.event = e THEN 1 ELSE 0
<1> DEFINE n == Len(seq)
           rest == Tail(seq)
           later == Hits(seq, e) \ {1}
           f == [i \in Hits(rest, e) |-> i + 1]
<1>1. DOMAIN seq = 1 .. n /\ n \in Nat /\ n >= 1 /\ Head(seq) = seq[1]
  BY LenProperties, EmptySeq
<1>2. /\ rest \in Seq(S) /\ Len(rest) = n - 1
      /\ \A i \in 1 .. n - 1 : rest[i] = seq[i + 1]
  BY HeadTailProperties
<1>3. DOMAIN rest = 1 .. n - 1
  BY <1>2, LenProperties
<1> HIDE DEF n, rest
<1>4. \A i : i \in Hits(rest, e) <=> i \in 1 .. n - 1 /\ seq[i + 1].copy.event = e
  BY <1>2, <1>3 DEF Hits
<1>5. \A i : i \in Hits(seq, e) <=> i \in 1 .. n /\ seq[i].copy.event = e
  BY <1>1 DEF Hits
<1>6. f \in Bijection(Hits(rest, e), later)
  <2>1. \A i \in Hits(rest, e) : i \in Int /\ f[i] = i + 1 /\ i + 1 \in later
    BY <1>1, <1>4, <1>5
  <2>2. \A j \in later : j - 1 \in Hits(rest, e) /\ f[j - 1] = j
    <3>1. \A j \in later : j \in 2 .. n /\ seq[j].copy.event = e
      BY <1>1, <1>5
    <3>2. \A j \in later : j - 1 \in 1 .. n - 1 /\ (j - 1) + 1 = j
      BY <1>1, <3>1
    <3>3. \A j \in later : j - 1 \in Hits(rest, e)
      BY <1>4, <3>1, <3>2
    <3>. QED
      BY <3>2, <3>3
  <2>3. f \in [Hits(rest, e) -> later]
    BY <2>1
  <2> HIDE DEF f, later
  <2>4. \A i, j \in Hits(rest, e) : f[i] = f[j] => i = j
    BY <2>1
  <2>5. f \in Injection(Hits(rest, e), later)
    BY <2>3, <2>4 DEF Injection, IsInjective
  <2>6. f \in Surjection(Hits(rest, e), later)
    BY <2>2, <2>3 DEF Surjection
  <2>. QED
    BY <2>5, <2>6 DEF Bijection
<1>7. IsFiniteSet(Hits(seq, e)) /\ Cardinality(Hits(seq, e)) \in Nat
  BY HitsFinite
<1>8. IsFiniteSet(Hits(rest, e))
  BY <1>2, HitsFinite
<1>9. Cardinality(Hits(rest, e)) = Cardinality(later)
  <2>1. ExistsBijection(Hits(rest, e), later)
    BY <1>6 DEF ExistsBijection
  <2> HIDE DEF later
  <2>. QED
    BY <1>8, <2>1, FS_Bijection
<1>10. Cardinality(later) = IF 1 \in Hits(seq, e) THEN Cardinality(Hits(seq, e)) - 1
                            ELSE Cardinality(Hits(seq, e))
  BY <1>7, FS_RemoveElement
<1>11. 1 \in Hits(seq, e) <=> Head(seq).copy.event = e
  BY <1>1, <1>5
<1> HIDE DEF later, f
<1>. QED
  BY <1>7, <1>9, <1>10, <1>11 DEF rest

CountsOK(e) ==
  /\ InQueue(e) \in Nat
  /\ IsFiniteSet(Running(e)) /\ Cardinality(Running(e)) \in Nat
  /\ SentOf(e) \in [Processes -> Nat]
  /\ OnWires(e) \in Nat
  /\ IsFiniteSet(Spent(e)) /\ Cardinality(Spent(e)) \in Nat
  /\ CopiesOf(e) = InQueue(e) + Cardinality(Running(e)) + OnWires(e)

LEMMA CountTypes == \A e \in Events : MsgTypeOK => CountsOK(e)
<1> SUFFICES ASSUME MsgTypeOK, NEW e \in Events PROVE CountsOK(e)
  OBVIOUS
<1>1. InQueue(e) \in Nat
  <2>1. \A c \in OfEvent(e) : queue[c] \in Nat
    BY DEF MsgTypeOK, OfEvent
  <2>. QED
    BY <2>1, EventCopiesFinite, SumType DEF InQueue
<1>2. IsFiniteSet(Running(e)) /\ Cardinality(Running(e)) \in Nat
  <2>1. Running(e) \subseteq Slots
    BY DEF Running
  <2>. QED
    BY <2>1, FinitenessAssumption, FS_Subset, FS_CardinalityType
<1>3. SentOf(e) \in [Processes -> Nat]
  <2>1. \A p \in Processes : wire[p] \in Seq(Sent)
    BY DEF MsgTypeOK
  <2>2. \A p \in Processes : Cardinality(Hits(wire[p], e)) \in Nat
    BY <2>1, HitsFinite
  <2>. QED
    BY <2>2 DEF SentOf
<1>4. OnWires(e) \in Nat
  BY <1>3, FinitenessAssumption, SumType DEF OnWires
<1>5. IsFiniteSet(Spent(e)) /\ Cardinality(Spent(e)) \in Nat
  <2>1. Spent(e) \subseteq Processes
    BY DEF Spent
  <2>. QED
    BY <2>1, FinitenessAssumption, FS_Subset, FS_CardinalityType
<1>6. CopiesOf(e) = InQueue(e) + Cardinality(Running(e)) + OnWires(e)
  BY DEF CopiesOf, InQueue, OfEvent, Running, OnWires, SentOf, Hits
<1>. QED
  BY <1>1, <1>2, <1>3, <1>4, <1>5, <1>6 DEF CountsOK

LEMMA CountTypesNext == \A e \in Events : MsgTypeOK' => CountsOK(e)'
<1>1. (\A e \in Events : MsgTypeOK => CountsOK(e))'
  BY CountTypes, PTL
<1>. QED
  BY <1>1

\* The queue count of one copy changes.
LEMMA QueueMoves ==
  ASSUME MsgTypeOK, NEW e \in Events, NEW c \in Copy, NEW n \in Nat,
         queue' = [queue EXCEPT ![c] = n]
  PROVE  InQueue(e)' = IF c.event = e THEN InQueue(e) - queue[c] + n ELSE InQueue(e)
<1>1. queue'[c] = n /\ \A d \in Copy : d # c => queue'[d] = queue[d]
  BY DEF MsgTypeOK
<1>2. \A d \in OfEvent(e) : queue[d] \in Nat /\ queue'[d] \in Nat
  BY <1>1 DEF MsgTypeOK, OfEvent
<1>3. CASE c.event = e
  <2>1. c \in OfEvent(e)
    BY <1>3 DEF OfEvent
  <2>2. \A d \in OfEvent(e) : d # c => queue'[d] = queue[d]
    BY <1>1 DEF OfEvent
  <2>3. PICK before, after : before = queue /\ after = queue'
    OBVIOUS
  <2>4. SumOver(after, OfEvent(e)) = SumOver(before, OfEvent(e)) - before[c] + after[c]
    <3>1. IsFiniteSet(OfEvent(e))
      BY EventCopiesFinite
    <3>2. /\ \A d \in OfEvent(e) : before[d] \in Nat /\ after[d] \in Nat
          /\ \A d \in OfEvent(e) : d # c => after[d] = before[d]
      BY <1>2, <2>2, <2>3
    <3>. QED
      BY <2>1, <3>1, <3>2, SumPoint
  <2>. QED
    BY <1>1, <1>3, <2>3, <2>4 DEF InQueue
<1>4. CASE c.event # e
  <2>1. \A d \in OfEvent(e) : queue[d] = queue'[d]
    BY <1>1, <1>4 DEF OfEvent
  <2>2. SumOver(queue, OfEvent(e)) = SumOver(queue', OfEvent(e))
    BY <2>1, SumSame
  <2>. QED
    BY <1>4, <2>2 DEF InQueue
<1>. QED
  BY <1>3, <1>4

\* A handler starts to run for an event, or ends.
LEMMA RunningMoves ==
  ASSUME MsgTypeOK, NEW e \in Events, NEW s \in Slots,
         \A t \in Slots : t # s => slot'[t] = slot[t]
  PROVE  /\ s \notin Running(e) /\ s \in Running(e)' =>
              Cardinality(Running(e))' = Cardinality(Running(e)) + 1
         /\ s \in Running(e) /\ s \notin Running(e)' =>
              Cardinality(Running(e))' = Cardinality(Running(e)) - 1
         /\ (s \in Running(e) <=> s \in Running(e)') =>
              Cardinality(Running(e))' = Cardinality(Running(e))
<1>1. \A t : t # s => (t \in Running(e)' <=> t \in Running(e))
  BY DEF Running
<1>2. IsFiniteSet(Running(e)) /\ Cardinality(Running(e)) \in Nat
  BY CountTypes DEF CountsOK
<1>3. ASSUME s \notin Running(e), s \in Running(e)'
      PROVE  Cardinality(Running(e))' = Cardinality(Running(e)) + 1
  <2>1. Running(e)' = Running(e) \cup {s}
    BY <1>1, <1>3
  <2>2. Cardinality(Running(e) \cup {s}) = Cardinality(Running(e)) + 1
    BY <1>2, <1>3, FS_AddElement
  <2>. QED
    BY <2>1, <2>2
<1>4. ASSUME s \in Running(e), s \notin Running(e)'
      PROVE  Cardinality(Running(e))' = Cardinality(Running(e)) - 1
  <2>1. Running(e)' = Running(e) \ {s}
    BY <1>1, <1>4
  <2>2. Cardinality(Running(e) \ {s}) = Cardinality(Running(e)) - 1
    BY <1>2, <1>4, FS_RemoveElement
  <2>. QED
    BY <2>1, <2>2
<1>5. ASSUME s \in Running(e) <=> s \in Running(e)'
      PROVE  Cardinality(Running(e))' = Cardinality(Running(e))
  <2>1. Running(e)' = Running(e)
    BY <1>1, <1>5
  <2>. QED
    BY <2>1
<1>. QED
  BY <1>3, <1>4, <1>5

\* What one channel has sent changes.
LEMMA WireMoves ==
  ASSUME MsgTypeOK, MsgTypeOK', NEW e \in Events, NEW p \in Processes,
         \A r \in Processes : r # p => wire'[r] = wire[r]
  PROVE  OnWires(e)' = OnWires(e) - Cardinality(Hits(wire[p], e)) + Cardinality(Hits(wire'[p], e))
<1>1. \A r \in Processes : SentOf(e)[r] = Cardinality(Hits(wire[r], e))
  BY DEF SentOf
<1>2. \A r \in Processes : SentOf(e)'[r] = Cardinality(Hits(wire'[r], e))
  BY DEF SentOf
<1>3. \A r \in Processes : SentOf(e)[r] \in Nat
  BY CountTypes DEF CountsOK
<1>4. \A r \in Processes : SentOf(e)'[r] \in Nat
  <2>1. \A r \in Processes : wire'[r] \in Seq(Sent)
    BY DEF MsgTypeOK
  <2>. QED
    BY <1>2, <2>1, HitsFinite
<1>5. \A r \in Processes : r # p => SentOf(e)'[r] = SentOf(e)[r]
  BY <1>1, <1>2
<1>6. SumOver(SentOf(e)', Processes)
        = SumOver(SentOf(e), Processes) - SentOf(e)[p] + SentOf(e)'[p]
  BY <1>3, <1>4, <1>5, FinitenessAssumption, SumPoint
<1>. QED
  BY <1>1, <1>2, <1>6 DEF OnWires

LEMMA SendCounts ==
  ASSUME MsgTypeOK, MsgTypeOK', NEW e \in Events, NEW p \in Processes, NEW s \in Sender,
         NEW key \in {"execution", "dead-letter"}, NEW copy \in Copy, Send(p, s, key, copy)
  PROVE  OnWires(e)' = OnWires(e) + IF copy.event = e THEN 1 ELSE 0
<1>1. PICK m \in Sent : m = [by |-> s, key |-> key, copy |-> copy]
  BY DEF Sent
<1>2. wire[p] \in Seq(Sent) /\ wire'[p] = Append(wire[p], m)
      /\ \A r \in Processes : r # p => wire'[r] = wire[r]
  BY <1>1 DEF MsgTypeOK, Send
<1>3. Cardinality(Hits(Append(wire[p], m), e))
        = Cardinality(Hits(wire[p], e)) + IF m.copy.event = e THEN 1 ELSE 0
  BY <1>2, HitsAppend
<1>4. OnWires(e)' = OnWires(e) - Cardinality(Hits(wire[p], e)) + Cardinality(Hits(wire'[p], e))
  BY <1>2, WireMoves
<1>5. Cardinality(Hits(wire[p], e)) \in Nat /\ OnWires(e) \in Nat
  BY <1>2, HitsFinite, CountTypes DEF CountsOK
<1>6. m.copy = copy
  BY <1>1
<1>7. Cardinality(Hits(wire'[p], e))
        = Cardinality(Hits(wire[p], e)) + IF copy.event = e THEN 1 ELSE 0
  BY <1>2, <1>3, <1>6
<1>. QED
  BY <1>4, <1>5, <1>7

LEMMA TakeCounts ==
  ASSUME MsgTypeOK, MsgTypeOK', NEW e \in Events, NEW p \in Processes, wire[p] # <<>>,
         wire' = [wire EXCEPT ![p] = Tail(@)]
  PROVE  OnWires(e)' = OnWires(e) - IF Head(wire[p]).copy.event = e THEN 1 ELSE 0
<1>1. wire[p] \in Seq(Sent) /\ wire'[p] = Tail(wire[p])
      /\ \A r \in Processes : r # p => wire'[r] = wire[r]
  BY DEF MsgTypeOK
<1>2. Cardinality(Hits(Tail(wire[p]), e))
        = Cardinality(Hits(wire[p], e)) - IF Head(wire[p]).copy.event = e THEN 1 ELSE 0
  BY <1>1, HitsTail
<1>3. OnWires(e)' = OnWires(e) - Cardinality(Hits(wire[p], e)) + Cardinality(Hits(wire'[p], e))
  BY <1>1, WireMoves
<1>4. Cardinality(Hits(wire[p], e)) \in Nat /\ OnWires(e) \in Nat
  BY <1>1, HitsFinite, CountTypes DEF CountsOK
<1>. QED
  BY <1>1, <1>2, <1>3, <1>4

LEMMA SpentStays ==
  ASSUME NEW e \in Events, NEW p \in Processes,
         \A q \in Processes : q # p => pub'[q] = pub[q],
         published \subseteq published', p \in Spent(e) => p \in Spent(e)'
  PROVE  Spent(e) \subseteq Spent(e)'
<1>1. ASSUME NEW q \in Spent(e) PROVE q \in Spent(e)'
  <2>1. CASE q = p
    BY <1>1, <2>1
  <2>2. CASE q # p
    BY <1>1, <2>2 DEF Spent
  <2>. QED
    BY <2>1, <2>2
<1>. QED
  BY <1>1

\* A step that adds no copy, and one that spends a process's turn for one copy.
LEMMA OnceStays ==
  ASSUME MsgTypeOK, MsgTypeOK', NEW e \in Events, Spent(e) \subseteq Spent(e)',
         CopiesOf(e) <= Cardinality(Spent(e)),
         InQueue(e)' + Cardinality(Running(e))' + OnWires(e)'
           <= InQueue(e) + Cardinality(Running(e)) + OnWires(e)
  PROVE  CopiesOf(e)' <= Cardinality(Spent(e))'
<1>1. /\ CopiesOf(e) = InQueue(e) + Cardinality(Running(e)) + OnWires(e)
      /\ InQueue(e) \in Nat /\ Cardinality(Running(e)) \in Nat /\ OnWires(e) \in Nat
      /\ Cardinality(Spent(e)) \in Nat
  BY CountTypes DEF CountsOK
<1>2. /\ CopiesOf(e)' = InQueue(e)' + Cardinality(Running(e))' + OnWires(e)'
      /\ InQueue(e)' \in Nat /\ Cardinality(Running(e))' \in Nat /\ OnWires(e)' \in Nat
      /\ IsFiniteSet(Spent(e))' /\ Cardinality(Spent(e))' \in Nat
  BY CountTypesNext DEF CountsOK
<1>3. Cardinality(Spent(e)) <= Cardinality(Spent(e))'
  <2>1. PICK S, T : S = Spent(e) /\ T = Spent(e)'
    OBVIOUS
  <2>. QED
    BY <1>2, <2>1, FS_Subset
<1>. QED
  BY <1>1, <1>2, <1>3

LEMMA OncePublished ==
  ASSUME MsgTypeOK, MsgTypeOK', NEW e \in Events, Spent(e) \subseteq Spent(e)',
         CopiesOf(e) <= Cardinality(Spent(e)),
         NEW p, p \notin Spent(e), p \in Spent(e)',
         InQueue(e)' + Cardinality(Running(e))' + OnWires(e)'
           <= InQueue(e) + Cardinality(Running(e)) + OnWires(e) + 1
  PROVE  CopiesOf(e)' <= Cardinality(Spent(e))'
<1>1. /\ CopiesOf(e) = InQueue(e) + Cardinality(Running(e)) + OnWires(e)
      /\ InQueue(e) \in Nat /\ Cardinality(Running(e)) \in Nat /\ OnWires(e) \in Nat
      /\ IsFiniteSet(Spent(e)) /\ Cardinality(Spent(e)) \in Nat
  BY CountTypes DEF CountsOK
<1>2. /\ CopiesOf(e)' = InQueue(e)' + Cardinality(Running(e))' + OnWires(e)'
      /\ InQueue(e)' \in Nat /\ Cardinality(Running(e))' \in Nat /\ OnWires(e)' \in Nat
      /\ IsFiniteSet(Spent(e))' /\ Cardinality(Spent(e))' \in Nat
  BY CountTypesNext DEF CountsOK
<1>3. Cardinality(Spent(e)) + 1 <= Cardinality(Spent(e))'
  <2>1. PICK S, T : S = Spent(e) /\ T = Spent(e)'
    OBVIOUS
  <2>2. IsFiniteSet(S) /\ IsFiniteSet(T) /\ S \cup {p} \in SUBSET T /\ p \notin S
    BY <1>1, <1>2, <2>1
  <2>3. Cardinality(S \cup {p}) = Cardinality(S) + 1 /\ Cardinality(S \cup {p}) <= Cardinality(T)
    BY <2>2, FS_AddElement, FS_Subset
  <2>. QED
    BY <2>1, <2>3
<1>. QED
  BY <1>1, <1>2, <1>3

\* A step that fails is counted.
LEMMA Faultless ==
  ASSUME MsgTypeOK, [MsgNext]_msgVars, faults' = 0
  PROVE  faults = 0 /\ ~ Fault
<1>1. faults \in Nat
  BY LimitsAssumption DEF MsgTypeOK
<1>2. ~ Fault
  BY <1>1 DEF Fault
<1>3. UNCHANGED faults
  BY <1>2 DEF MsgNext, PublishBatch, Consume, Enqueue, Poll, Publish, PublishConfirmed,
     PublishFails, Mark, MarkFails, BrokerTakes, Reconnect, ChannelLost, Crash, Close,
     ConsumerCancelled, StaleEnds, Deliver, HandlerReturns, HandlerThrows, ReplacementConfirmed,
     ReplacementFails, Acked, msgVars
<1>. QED
  BY <1>2, <1>3

LEMMA StepOnce ==
  ASSUME MsgInv, MsgInv', Once, [MsgNext]_msgVars
  PROVE  Once'
<1> SUFFICES ASSUME faults' = 0
             PROVE  up' = Processes /\ \A e \in Events : CopiesOf(e)' <= Cardinality(Spent(e))'
  BY DEF Once
<1>0. /\ MsgTypeOK /\ MsgTypeOK' /\ PubOK /\ SlotOK /\ OneEach
      /\ faults = 0 /\ ~ Fault /\ up = Processes
      /\ \A e \in Events : CopiesOf(e) <= Cardinality(Spent(e))
  <2>1. MsgTypeOK /\ MsgTypeOK' /\ PubOK /\ SlotOK /\ OneEach
    BY TypeParts DEF MsgInv
  <2>2. faults = 0 /\ ~ Fault
    BY <2>1, Faultless
  <2>. QED
    BY <2>1, <2>2 DEF Once
<1>1. up' = Processes
  BY <1>0 DEF MsgNext, PublishBatch, Consume, Enqueue, Poll, Publish, PublishConfirmed,
     PublishFails, Mark, MarkFails, BrokerTakes, Reconnect, ChannelLost, Crash, Close,
     ConsumerCancelled, StaleEnds, Deliver, HandlerReturns, HandlerThrows, ReplacementConfirmed,
     ReplacementFails, Acked, msgVars, channel
<1> SUFFICES ASSUME NEW e \in Events PROVE CopiesOf(e)' <= Cardinality(Spent(e))'
  BY <1>1
<1>2. /\ InQueue(e) \in Nat /\ Cardinality(Running(e)) \in Nat /\ OnWires(e) \in Nat
      /\ CopiesOf(e) <= Cardinality(Spent(e))
  BY <1>0, CountTypes DEF CountsOK
<1>3. UNCHANGED queue => InQueue(e)' = InQueue(e)
  BY DEF InQueue
<1>4. UNCHANGED slot => Cardinality(Running(e))' = Cardinality(Running(e))
  BY DEF Running
<1>5. UNCHANGED wire => OnWires(e)' = OnWires(e)
  BY DEF OnWires, SentOf
<1>6. UNCHANGED <<pub, published>> => Spent(e) \subseteq Spent(e)'
  BY DEF Spent
<1> DEFINE Goal == CopiesOf(e)' <= Cardinality(Spent(e))'
<1>7. ASSUME Spent(e) \subseteq Spent(e)', UNCHANGED <<queue, wire>>,
             Cardinality(Running(e))' <= Cardinality(Running(e))
      PROVE  Goal
  <2>2. Cardinality(Running(e))' \in Nat
    BY <1>0, CountTypesNext DEF CountsOK
  <2>3. InQueue(e)' + Cardinality(Running(e))' + OnWires(e)'
          <= InQueue(e) + Cardinality(Running(e)) + OnWires(e)
    BY <1>2, <1>3, <1>5, <1>7, <2>2
  <2>. QED
    BY <1>0, <1>2, <1>7, <2>3, OnceStays
<1> HIDE DEF Goal
<1>8. ASSUME \/ \E f \in Events : Enqueue(f)
             \/ \E p \in Processes : \E f \in Events : StaleEnds(p, f)
             \/ UNCHANGED msgVars
      PROVE  Goal
  <2>1. UNCHANGED <<pub, published, queue, wire, slot>>
    BY <1>8 DEF Enqueue, StaleEnds, msgVars, rows, channel, broker, handlers
  <2>. QED
    BY <1>2, <1>4, <1>6, <1>7, <2>1
<1>9. ASSUME NEW p \in Processes, Poll(p) \/ PublishConfirmed(p) \/ Mark(p) PROVE Goal
  <2>1. UNCHANGED <<queue, wire, slot>>
    BY <1>9 DEF Poll, PublishConfirmed, Mark, channel, broker, handlers
  <2>2. /\ published \subseteq published'
        /\ \A q \in Processes : q # p => pub'[q] = pub[q]
    BY <1>0, <1>9 DEF Poll, PublishConfirmed, Mark, SetPub, PubOK, rows
  <2>3. ASSUME p \in Spent(e) PROVE p \in Spent(e)'
    <3>1. CASE Poll(p)
      <4>1. PICK B \in SUBSET (enqueued \ published) : SetPub(p, "publish", B, None)
        BY <3>1 DEF Poll
      <4>2. pub'[p].batch = B /\ pub[p].row = None /\ UNCHANGED published
        BY <1>0, <3>1, <4>1 DEF Poll, Idle, SetPub, PubOK, rows
      <4>3. e \in published
        BY <2>3, <4>2, NoneAssumption DEF Spent
      <4>. QED
        BY <4>1, <4>2, <4>3 DEF Spent
    <3>2. CASE PublishConfirmed(p)
      <4>1. pub'[p].batch = pub[p].batch /\ pub'[p].row = pub[p].row /\ UNCHANGED published
        BY <1>0, <3>2 DEF PublishConfirmed, SetPub, PubOK, rows
      <4>. QED
        BY <2>3, <4>1 DEF Spent
    <3>3. CASE Mark(p)
      <4>1. /\ pub'[p].batch = pub[p].batch \ {pub[p].row}
            /\ published' = published \cup {pub[p].row}
        BY <1>0, <3>3 DEF Mark, SetPub, PubOK
      <4>. QED
        BY <2>3, <4>1 DEF Spent
    <3>. QED
      BY <1>9, <3>1, <3>2, <3>3
  <2>4. Spent(e) \subseteq Spent(e)'
    BY <2>2, <2>3, SpentStays
  <2>. QED
    BY <1>2, <1>4, <1>7, <2>1, <2>4
<1>10. ASSUME NEW p \in Processes, NEW f \in Events, Publish(p, f) PROVE Goal
  <2>1. /\ UNCHANGED <<queue, slot, published>>
        /\ Send(p, p, "execution", [event |-> f, retries |-> 0])
        /\ SetPub(p, "confirm", pub[p].batch, f)
        /\ pub[p].phase = "publish" /\ f \in pub[p].batch
    BY <1>10 DEF Publish, rows, broker, handlers
  <2>2. PICK c \in Copy : c = [event |-> f, retries |-> 0]
    <3>1. 0 \in 0 .. MaxRetries
      BY LimitsAssumption
    <3>. QED
      BY <3>1 DEF Copy
  <2>3. OnWires(e)' = OnWires(e) + IF f = e THEN 1 ELSE 0
    <3>1. Send(p, p, "execution", c) /\ c.event = f /\ p \in Sender
      BY <2>1, <2>2 DEF Sender
    <3>. QED
      BY <1>0, <3>1, SendCounts
  <2>4. /\ pub[p].row = None /\ pub'[p].row = f /\ pub'[p].batch = pub[p].batch
        /\ \A q \in Processes : q # p => pub'[q] = pub[q]
    BY <1>0, <2>1 DEF PubOK, SetPub
  <2>5. Spent(e) \subseteq Spent(e)'
    <3>1. p \in Spent(e) => p \in Spent(e)'
      BY <2>1, <2>4, NoneAssumption DEF Spent
    <3>. QED
      BY <2>1, <2>4, <3>1, SpentStays
  <2>6. CASE f = e
    <3>1. p \notin Spent(e) /\ p \in Spent(e)'
      BY <2>1, <2>4, <2>6, NoneAssumption DEF Spent
    <3>2. InQueue(e)' + Cardinality(Running(e))' + OnWires(e)'
            <= InQueue(e) + Cardinality(Running(e)) + OnWires(e) + 1
      BY <1>2, <1>3, <1>4, <2>1, <2>3, <2>6
    <3>. QED
      BY <1>0, <1>2, <2>5, <3>1, <3>2, OncePublished DEF Goal
  <2>7. CASE f # e
    <3>1. InQueue(e)' + Cardinality(Running(e))' + OnWires(e)'
            <= InQueue(e) + Cardinality(Running(e)) + OnWires(e)
      BY <1>2, <1>3, <1>4, <2>1, <2>3, <2>7
    <3>. QED
      BY <1>0, <1>2, <2>5, <3>1, OnceStays DEF Goal
  <2>. QED
    BY <2>6, <2>7
<1>11. ASSUME NEW p \in Processes, BrokerTakes(p) PROVE Goal
  <2> DEFINE m == Head(wire[p])
  <2>1. /\ wire[p] # <<>> /\ wire' = [wire EXCEPT ![p] = Tail(@)]
        /\ UNCHANGED <<pub, published, slot>>
        /\ \/ m.key = "execution" /\ queue' = [queue EXCEPT ![m.copy] = @ + 1]
           \/ UNCHANGED queue
    BY <1>11 DEF BrokerTakes, rows, handlers
  <2>2. OnWires(e)' = OnWires(e) - IF m.copy.event = e THEN 1 ELSE 0
    BY <1>0, <2>1, TakeCounts
  <2>3. m \in Sent
    BY <1>0, <2>1, TakeEffect
  <2> HIDE DEF m
  <2>4. PICK c \in Copy : c = m.copy
    BY <2>3 DEF Sent
  <2>5. InQueue(e)' <= InQueue(e) + IF c.event = e THEN 1 ELSE 0
    <3>1. CASE UNCHANGED queue
      BY <1>2, <1>3, <3>1
    <3>2. CASE queue' = [queue EXCEPT ![c] = @ + 1]
      <4>1. queue[c] \in Nat
        BY <1>0 DEF MsgTypeOK
      <4>2. PICK n \in Nat : n = queue[c] + 1
        BY <4>1
      <4>3. queue' = [queue EXCEPT ![c] = n]
        BY <3>2, <4>2
      <4>4. InQueue(e)' = IF c.event = e THEN InQueue(e) - queue[c] + n ELSE InQueue(e)
        BY <1>0, <4>3, QueueMoves
      <4>. QED
        BY <1>2, <4>1, <4>2, <4>4
    <3>. QED
      BY <2>1, <2>4, <3>1, <3>2
  <2>6. InQueue(e)' \in Nat /\ OnWires(e)' \in Nat
    BY <1>0, CountTypesNext DEF CountsOK
  <2>7. InQueue(e)' + Cardinality(Running(e))' + OnWires(e)'
          <= InQueue(e) + Cardinality(Running(e)) + OnWires(e)
    BY <1>2, <1>4, <2>1, <2>2, <2>4, <2>5, <2>6
  <2>. QED
    BY <1>0, <1>2, <1>6, <2>1, <2>7, OnceStays DEF Goal
<1>12. ASSUME NEW s \in Slots, Deliver(s) PROVE Goal
  <2>1. PICK c \in Copy : /\ queue[c] > 0 /\ queue' = [queue EXCEPT ![c] = @ - 1]
                          /\ SetSlot(s, "handle", c)
    BY <1>12 DEF Deliver
  <2>2. slot[s].phase = "free" /\ UNCHANGED <<pub, published, wire>>
    BY <1>12 DEF Deliver, rows, channel
  <2>3. /\ s \notin Running(e)
        /\ s \in Running(e)' <=> c.event = e
        /\ \A t \in Slots : t # s => slot'[t] = slot[t]
    BY <1>0, <2>1, <2>2 DEF Running, SetSlot, SlotOK
  <2>4. Cardinality(Running(e))' = Cardinality(Running(e)) + IF c.event = e THEN 1 ELSE 0
    BY <1>0, <1>2, <2>3, RunningMoves
  <2>5. InQueue(e)' = InQueue(e) - IF c.event = e THEN 1 ELSE 0
    <3>1. queue[c] \in Nat
      BY <1>0 DEF MsgTypeOK
    <3>2. PICK n \in Nat : n = queue[c] - 1
      BY <2>1, <3>1
    <3>3. queue' = [queue EXCEPT ![c] = n]
      BY <2>1, <3>2
    <3>4. InQueue(e)' = IF c.event = e THEN InQueue(e) - queue[c] + n ELSE InQueue(e)
      BY <1>0, <3>3, QueueMoves
    <3>. QED
      BY <1>2, <3>1, <3>2, <3>4
  <2>6. InQueue(e)' + Cardinality(Running(e))' + OnWires(e)'
          <= InQueue(e) + Cardinality(Running(e)) + OnWires(e)
    BY <1>2, <1>5, <2>2, <2>4, <2>5
  <2>. QED
    BY <1>0, <1>2, <1>6, <2>2, <2>6, OnceStays DEF Goal
<1>13. ASSUME NEW s \in Slots, HandlerReturns(s) \/ ReplacementConfirmed(s) \/ Acked(s)
       PROVE  Goal
  <2>1. /\ UNCHANGED <<pub, published, queue, wire>>
        /\ slot'[s].phase # "handle" /\ \A t \in Slots : t # s => slot'[t] = slot[t]
    BY <1>0, <1>13 DEF HandlerReturns, ReplacementConfirmed, Acked, SetSlot, FreeSlot, SlotOK,
       rows, channel, broker
  <2>2. s \notin Running(e)'
    BY <2>1 DEF Running
  <2>3. Cardinality(Running(e))' <= Cardinality(Running(e))
    BY <1>0, <1>2, <2>1, <2>2, RunningMoves
  <2>. QED
    BY <1>6, <1>7, <2>1, <2>3
<1>14. ASSUME NEW s \in Slots, HandlerThrows(s) PROVE Goal
  <2>1. /\ UNCHANGED <<pub, published, queue>>
        /\ slot[s].phase = "handle" /\ SetSlot(s, "copy", slot[s].copy)
        /\ Send(Host[s], s, Replacement(slot[s].copy).key, Replacement(slot[s].copy).copy)
    BY <1>14 DEF HandlerThrows, rows, broker
  <2>2. PICK c \in Copy : c = slot[s].copy
    BY <1>0, <2>1 DEF SlotOK
  <2>3. PICK k \in {"execution", "dead-letter"}, d \in Copy :
          k = Replacement(c).key /\ d = Replacement(c).copy
    BY <2>2, ReplacementOf
  <2>4. d.event = c.event
    BY <2>3, ReplacementOf
  <2>5. OnWires(e)' = OnWires(e) + IF c.event = e THEN 1 ELSE 0
    <3>1. Send(Host[s], s, k, d) /\ Host[s] \in Processes /\ s \in Sender
      BY <2>1, <2>2, <2>3, HostAssumption DEF Sender
    <3>2. OnWires(e)' = OnWires(e) + IF d.event = e THEN 1 ELSE 0
      BY <1>0, <3>1, SendCounts
    <3>. QED
      BY <2>4, <3>2
  <2>6. /\ s \in Running(e) <=> c.event = e
        /\ s \notin Running(e)'
        /\ \A t \in Slots : t # s => slot'[t] = slot[t]
    BY <1>0, <2>1, <2>2 DEF Running, SetSlot, SlotOK
  <2>7. Cardinality(Running(e))' = Cardinality(Running(e)) - IF c.event = e THEN 1 ELSE 0
    BY <1>0, <1>2, <2>6, RunningMoves
  <2>8. InQueue(e)' + Cardinality(Running(e))' + OnWires(e)'
          <= InQueue(e) + Cardinality(Running(e)) + OnWires(e)
    BY <1>2, <1>3, <2>1, <2>5, <2>7
  <2>. QED
    BY <1>0, <1>2, <1>6, <2>1, <2>8, OnceStays DEF Goal
<1>15. ASSUME \/ \E p \in Processes :
                   \/ PublishFails(p) \/ MarkFails(p) \/ Reconnect(p) \/ ChannelLost(p)
                   \/ Crash(p) \/ ConsumerCancelled(p)
              \/ \E s \in Slots : ReplacementFails(s)
       PROVE  FALSE
  BY <1>0, <1>15 DEF PublishFails, MarkFails, Reconnect, ChannelLost, Crash, Close,
     ConsumerCancelled, ReplacementFails
<1>16. Goal
  BY <1>8, <1>9, <1>10, <1>11, <1>12, <1>13, <1>14, <1>15 DEF MsgNext, PublishBatch, Consume
<1>. QED
  BY <1>16 DEF Goal

\* Where nothing but handlers fails, an event is queued, handled or on a wire at most once
\* per process: a poll that overlaps another, or a retry, adds no copy.
THEOREM PublishedAtMostOnceEach == MsgSpec => []PublishedOncePerProcess
<1>1. MsgInit => Once
  <2> SUFFICES ASSUME MsgInit, NEW e \in Events PROVE CopiesOf(e) <= Cardinality(Spent(e))
    BY DEF Once, MsgInit
  <2>1. MsgTypeOK
    BY InitMsg DEF MsgInv
  <2>2. CopiesOf(e) = 0
    <3>1. InQueue(e) = 0
      <4>1. \A c \in OfEvent(e) : queue[c] = 0
        BY DEF MsgInit, OfEvent
      <4>2. Units(queue, OfEvent(e)) = {}
        BY <4>1 DEF Units
      <4>. QED
        BY <4>2, FS_EmptySet DEF InQueue, SumOver
    <3>2. Cardinality(Running(e)) = 0
      <4>1. Running(e) = {}
        BY DEF MsgInit, Running, FreeSlot
      <4>. QED
        BY <4>1, FS_EmptySet
    <3>3. OnWires(e) = 0
      <4>1. \A p \in Processes : Hits(wire[p], e) = {}
        BY DEF MsgInit, Hits
      <4>2. \A p \in Processes : SentOf(e)[p] = 0
        BY <4>1, FS_EmptySet DEF SentOf
      <4>3. Units(SentOf(e), Processes) = {}
        BY <4>2 DEF Units
      <4>. QED
        BY <4>3, FS_EmptySet DEF OnWires, SumOver
    <3>. QED
      BY <2>1, <3>1, <3>2, <3>3, CountTypes DEF CountsOK
  <2>. QED
    BY <2>1, <2>2, CountTypes DEF CountsOK
<1>2. Once /\ MsgInv => PublishedOncePerProcess
  <2> SUFFICES ASSUME Once, MsgInv, faults = 0, NEW e \in Events
               PROVE  CopiesOf(e) <= Cardinality(Processes)
    BY DEF PublishedOncePerProcess
  <2>1. CopiesOf(e) <= Cardinality(Spent(e)) /\ MsgTypeOK
    BY DEF Once, MsgInv
  <2>2. Cardinality(Spent(e)) <= Cardinality(Processes) /\ Cardinality(Processes) \in Nat
    <3>1. Spent(e) \in SUBSET Processes
      BY DEF Spent
    <3>. QED
      BY <3>1, FinitenessAssumption, FS_Subset, FS_CardinalityType
  <2>3. CopiesOf(e) \in Nat /\ Cardinality(Spent(e)) \in Nat
    BY <2>1, CountTypes DEF CountsOK
  <2>. QED
    BY <2>1, <2>2, <2>3
<1>3. MsgInv /\ MsgInv' /\ Once /\ [MsgNext]_msgVars => Once'
  BY StepOnce
<1>. QED
  BY <1>1, <1>2, <1>3, MsgInvariance, PTL DEF MsgSpec
=============================================================================
