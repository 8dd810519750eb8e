------------------------- MODULE WalletProxyProofs -------------------------
(***************************************************************************)
(* Proofs about WalletProxy, for any number of wallets, probes, plugins    *)
(* and sizes: nothing is performed once it was answered, every SURB        *)
(* carries one reply, who gets a 200 gets the answer to its own request,   *)
(* and the replies fit.                                                    *)
(* WalletInv is the inductive invariant.                                   *)
(***************************************************************************)
EXTENDS WalletProxy, TLAPS

(* What a call asks for is known once it is sent, and a body once it was   *)
(* read.  The prober waits for one probe at most: that one was not counted *)
(* yet.                                                                    *)
CallersInv ==
  /\ \A c \in Calls : status[c] = "none" => path[c] = None
  /\ \A c \in Requests : status[c] # "200" => body[c] = None
  /\ \A c \in Probes :
       /\ path[c] \in {None, "probe"}
       /\ status[c] = "none" <=> c > transmitted
       /\ c < transmitted => status[c] \in {"404", "replied"}
       /\ status[c] = "waiting" => received < transmitted

Holds(s, c) == \E i \in 1 .. Len(s) : s[i] = c
Distinct(s) == \A i, j \in 1 .. Len(s) : s[i] = s[j] => i = j
Queued(c, p) == Holds(inbox[p], c)
Served(c, p) == serving[p].call = c

(* The message of a call is in one place at most: it travels, or it waits  *)
(* at a plugin, or OnCommand was called for it.                            *)
OnePlace ==
  /\ \A c \in Calls :
       status[c] = "none" =>
         c \notin taken /\ \A p \in Plugins : <<c, p>> \notin forward /\ ~Queued(c, p)
  /\ \A c \in Calls, p \in Plugins :
       <<c, p>> \in forward =>
         c \notin taken /\ \A q \in Plugins : (<<c, q>> \in forward => q = p) /\ ~Queued(c, q)
  /\ \A c \in Calls, p \in Plugins :
       Queued(c, p) => c \notin taken /\ \A q \in Plugins : Queued(c, q) => q = p
  /\ \A c \in Calls, p \in Plugins :
       Served(c, p) => c \in taken /\ \A q \in Plugins : Served(c, q) => q = p
  /\ \A p \in Plugins : Distinct(inbox[p])

(* A message that is still to be answered is that of a call that waits, or *)
(* was given up for its timeout.                                           *)
Open(c) == status[c] \in {"waiting", "404"}
OpenInv ==
  \A c \in Calls, p \in Plugins :
    <<c, p>> \in forward \/ Queued(c, p) \/ Served(c, p) => Open(c)

(* What a plugin works on it understood, and the upstream performs a       *)
(* request only while a plugin works on it.                                *)
PerformedInv ==
  /\ \A c \in Requests :
       /\ c \notin taken => performed[c] = 0
       /\ performed[c] <= 1 \/ c \in Replayable
  /\ \A p \in Plugins :
       /\ serving[p].stage = "probe" => path[serving[p].call] = "probe"
       /\ serving[p].stage \in {"sent", "performed"} =>
            /\ serving[p].call \in Requests /\ path[serving[p].call] = "network"
            /\ p \in Compressing <=> serving[p].call \in Compressing
            /\ serving[p].stage = "sent" <=> performed[serving[p].call] = 0

(* A payload of the answer to request c, of a size the plugin allows.      *)
AnswerTo(c, data) ==
  /\ c \in Requests /\ path[c] = "network" /\ performed[c] > 0
  /\ data.of = c /\ data.flate = (c \in Compressing) /\ data.size <= MaxPayloadSize

(* A reply on its way is the one reply to its call, and what it carries is *)
(* meant for that call.                                                    *)
AnswersInv ==
  \A m \in writes \cup replies :
    /\ answers[m.surb] = 1
    /\ m.body.kind = "payload" => AnswerTo(m.surb, m.body.data)
    /\ m.body.kind = "nil" => path[m.surb] = "probe"

WalletInv ==
  /\ TypeOK
  /\ CallersInv
  /\ OnePlace
  /\ OpenInv
  /\ PerformedInv
  /\ AnswersInv
  /\ AnswerOwn
  /\ SurbUsedOnce

-----------------------------------------------------------------------------
(* Requests, probes and plugins are told apart. *)
LEMMA CallsApart ==
  /\ None \notin Calls /\ None \notin Plugins /\ None \notin Paths
  /\ \A c \in Requests : c \in Calls /\ c \notin Probes
  /\ \A c \in Probes : c \in Calls /\ c \in Nat /\ c >= 1 /\ c <= TestProbeCount
  /\ TestProbeCount \in Nat
BY NoneAssumption, RequestsAssumption, PathsAssumption DEF Calls, Probes

(* A plugin that works on nothing serves no call. *)
LEMMA ServesCall ==
  ASSUME TypeOK, NEW p \in Plugins
  PROVE  /\ serving[p] # Idle => serving[p].call \in Calls
         /\ serving[p].stage \in {"sent", "performed", "probe"} <=> serving[p] # Idle
         /\ serving[p] = Idle <=> serving[p].call = None
<1>1. serving[p] \in [call : Calls, stage : {"sent", "performed", "probe"}] \cup {Idle}
  BY DEF TypeOK
<1> QED BY <1>1, CallsApart DEF Idle

(* Queues of distinct elements. *)
LEMMA TailOfQueue ==
  ASSUME NEW S, NEW s \in Seq(S), s # <<>>, Distinct(s)
  PROVE  /\ Tail(s) \in Seq(S) /\ Head(s) \in S /\ Holds(s, Head(s)) /\ Distinct(Tail(s))
         /\ \A c : Holds(Tail(s), c) <=> Holds(s, c) /\ c # Head(s)
<1>1. /\ Len(s) \in Nat /\ Len(s) > 0 /\ Tail(s) \in Seq(S) /\ Len(Tail(s)) = Len(s) - 1
      /\ Head(s) = s[1] /\ s[1] \in S
      /\ \A i \in 1 .. Len(s) - 1 : Tail(s)[i] = s[i + 1]
  OBVIOUS
<1>2. Distinct(Tail(s)) /\ Holds(s, Head(s)) BY <1>1 DEF Distinct, Holds
<1>3. ASSUME NEW c, Holds(Tail(s), c) PROVE Holds(s, c) /\ c # Head(s)
  <2>1. PICK i \in 1 .. Len(s) - 1 : s[i + 1] = c BY <1>1, <1>3 DEF Holds
  <2>2. i + 1 \in 1 .. Len(s) /\ 1 \in 1 .. Len(s) /\ i + 1 # 1 BY <1>1, <2>1
  <2> QED BY <1>1, <2>1, <2>2 DEF Holds, Distinct
<1>4. ASSUME NEW c, Holds(s, c), c # Head(s) PROVE Holds(Tail(s), c)
  <2>1. PICK i \in 1 .. Len(s) : s[i] = c BY <1>4 DEF Holds
  <2>2. i # 1 BY <1>1, <1>4, <2>1
  <2>3. i - 1 \in 1 .. Len(s) - 1 /\ (i - 1) + 1 = i BY <1>1, <2>2
  <2> QED BY <1>1, <2>1, <2>3 DEF Holds
<1> QED BY <1>1, <1>2, <1>3, <1>4

LEMMA AppendToQueue ==
  ASSUME NEW S, NEW s \in Seq(S), NEW x \in S, Distinct(s), ~Holds(s, x)
  PROVE  /\ Append(s, x) \in Seq(S) /\ Distinct(Append(s, x))
         /\ \A c : Holds(Append(s, x), c) <=> Holds(s, c) \/ c = x
<1>1. /\ Len(s) \in Nat /\ Append(s, x) \in Seq(S) /\ Len(Append(s, x)) = Len(s) + 1
      /\ Append(s, x)[Len(s) + 1] = x
      /\ \A i \in 1 .. Len(s) : Append(s, x)[i] = s[i]
  OBVIOUS
<1>2. \A i \in 1 .. Len(s) + 1 : i \in 1 .. Len(s) \/ i = Len(s) + 1 BY <1>1
<1>3. Distinct(Append(s, x)) BY <1>1, <1>2 DEF Distinct, Holds
<1>4. ASSUME NEW c PROVE Holds(Append(s, x), c) <=> Holds(s, c) \/ c = x
  <2>1. \A i \in 1 .. Len(s) : i \in 1 .. Len(s) + 1 BY <1>1
  <2>2. Len(s) + 1 \in 1 .. Len(s) + 1 BY <1>1
  <2> QED BY <1>1, <1>2, <2>1, <2>2 DEF Holds
<1> QED BY <1>1, <1>3, <1>4

LEMMA WalletInvInit == Init => WalletInv
<1> SUFFICES ASSUME Init PROVE WalletInv OBVIOUS
<1>1. /\ path = [c \in Calls |-> None] /\ status = [c \in Calls |-> "none"]
      /\ body = [c \in Requests |-> None] /\ transmitted = 0 /\ received = 0
      /\ forward = {} /\ replies = {} /\ writes = {} /\ taken = {}
      /\ inbox = [p \in Plugins |-> <<>>] /\ serving = [p \in Plugins |-> Idle]
      /\ answers = [c \in Calls |-> 0] /\ performed = [c \in Requests |-> 0]
  BY DEF Init
<1>2. TypeOK
  <2>1. transmitted \in 0 .. TestProbeCount /\ received \in 0 .. transmitted
    BY <1>1, CallsApart
  <2>2. /\ inbox \in [Plugins -> Seq(Calls)]
        /\ path \in [Calls -> Paths \cup {None}]
        /\ status \in [Calls -> {"none", "waiting"} \cup Outcomes]
        /\ body \in [Requests -> Answers \cup {None}]
        /\ answers \in [Calls -> Nat] /\ performed \in [Requests -> Nat]
    BY <1>1
  <2>3. serving \in [Plugins -> [call : Calls, stage : {"sent", "performed", "probe"}] \cup {Idle}]
    BY <1>1
  <2> QED BY <1>1, <2>1, <2>2, <2>3 DEF TypeOK
<1>3. CallersInv BY <1>1, CallsApart DEF CallersInv
<1>4. OnePlace
  <2>1. \A p \in Plugins : inbox[p] = <<>> /\ serving[p].call = None BY <1>1 DEF Idle
  <2>2. Len(<<>>) = 0 OBVIOUS
  <2>3. \A p \in Plugins : Distinct(inbox[p]) /\ \A c : ~Queued(c, p)
    BY <2>1, <2>2 DEF Distinct, Queued, Holds
  <2>4. \A p \in Plugins, c \in Calls : ~Served(c, p) BY <2>1, CallsApart DEF Served
  <2> QED BY <1>1, <2>3, <2>4 DEF OnePlace
<1>8. OpenInv
  <2>1. \A p \in Plugins : inbox[p] = <<>> /\ serving[p].call = None BY <1>1 DEF Idle
  <2>2. Len(<<>>) = 0 OBVIOUS
  <2> QED BY <1>1, <2>1, <2>2, CallsApart DEF OpenInv, Queued, Holds, Served
<1>5. PerformedInv BY <1>1 DEF PerformedInv, Idle
<1>6. AnswersInv /\ AnswerOwn BY <1>1, CallsApart DEF AnswersInv, AnswerOwn
<1>7. SurbUsedOnce BY <1>1 DEF SurbUsedOnce
<1> QED BY <1>2, <1>3, <1>4, <1>5, <1>6, <1>7, <1>8 DEF WalletInv

-----------------------------------------------------------------------------
(* What a call on its way asks for was settled when it was sent.           *)
LEMMA OnItsWay ==
  ASSUME WalletInv, NEW c \in Calls, status[c] = "none"
  PROVE  /\ path[c] = None /\ (c \in Requests => body[c] = None)
         /\ \A p \in Plugins : <<c, p>> \notin forward /\ ~Queued(c, p) /\ ~Served(c, p)
         /\ \A m \in writes \cup replies : m.surb # c
<1>1. c \notin taken BY DEF WalletInv, OnePlace
<1>2. answers[c] = 0 BY <1>1 DEF WalletInv, SurbUsedOnce
<1> QED BY <1>1, <1>2 DEF WalletInv, OnePlace, CallersInv, AnswersInv

(* Making a call, refused, given up or sent. *)
LEMMA MakeKeeps ==
  ASSUME WalletInv, NEW c \in Calls, Make(c),
         NEW s \in {"waiting", "200", "500", "aborted"}, s = "200" => c \in Requests,
         status' = [status EXCEPT ![c] = s], received' = received,
         NEW target \in Paths \cup {None}, path' = [path EXCEPT ![c] = target],
         c \in Probes => target \in {None, "probe"},
         \/ forward' = forward /\ target = None
         \/ s = "waiting" /\ \E p \in Plugins : forward' = forward \cup {<<c, p>>}
  PROVE  WalletInv'
<1>0. TypeOK BY DEF WalletInv
<1>1. /\ status[c] = "none"
      /\ c \in Probes => /\ c = transmitted + 1
                         /\ c > 1 => status[c - 1] \in {"404", "replied"}
      /\ transmitted' = IF c \in Probes THEN transmitted + 1 ELSE transmitted
      /\ UNCHANGED <<body, inbox, serving, taken, writes, answers, replies, performed>>
  BY DEF Make, plugin
<1>2. /\ \A d \in Calls : status'[d] = IF d = c THEN s ELSE status[d]
      /\ \A d \in Calls : path'[d] = IF d = c THEN target ELSE path[d]
  BY <1>0, <1>1 DEF TypeOK
<1>3. /\ transmitted \in Nat /\ received \in Nat /\ received <= transmitted
      /\ TestProbeCount \in Nat /\ transmitted <= TestProbeCount
  BY <1>0, CallsApart DEF TypeOK
<1>14. /\ path[c] = None /\ (c \in Requests => body[c] = None)
       /\ \A p \in Plugins : <<c, p>> \notin forward /\ ~Queued(c, p) /\ ~Served(c, p)
       /\ \A m \in writes \cup replies : m.surb # c
  BY <1>1, OnItsWay
<1>4. TypeOK'
  <2>1. transmitted' \in 0 .. TestProbeCount /\ received' \in 0 .. transmitted'
    BY <1>1, <1>3, CallsApart
  <2>2. forward' \subseteq Calls \X Plugins BY <1>0 DEF TypeOK
  <2>3. /\ path' \in [Calls -> Paths \cup {None}]
        /\ status' \in [Calls -> {"none", "waiting"} \cup Outcomes]
    BY <1>0, <1>1 DEF TypeOK, Outcomes
  <2> QED BY <1>0, <1>1, <2>1, <2>2, <2>3 DEF TypeOK
<1>5. CallersInv'
  <2>1. ASSUME NEW d \in Calls, status'[d] = "none" PROVE path'[d] = None
    BY <1>1, <1>2, <2>1 DEF WalletInv, CallersInv
  <2>2. ASSUME NEW d \in Probes
        PROVE  /\ path'[d] \in {None, "probe"}
               /\ status'[d] = "none" <=> d > transmitted'
               /\ d < transmitted' => status'[d] \in {"404", "replied"}
               /\ status'[d] = "waiting" => received' < transmitted'
    <3>1. /\ path[d] \in {None, "probe"}
          /\ status[d] = "none" <=> d > transmitted
          /\ d < transmitted => status[d] \in {"404", "replied"}
          /\ status[d] = "waiting" => received < transmitted
          /\ d \in Nat /\ d >= 1 /\ d \in Calls
      BY CallsApart DEF WalletInv, CallersInv
    <3>2. CASE c \in Probes
      <4>1. transmitted' = transmitted + 1 /\ c = transmitted + 1 BY <1>1, <3>2
      <4>2. d = c - 1 => status[d] \in {"404", "replied"} BY <1>1, <3>1, <3>2, <4>1
      <4> QED BY <1>2, <1>3, <3>1, <3>2, <4>1, <4>2
    <3>3. CASE c \notin Probes BY <1>1, <1>2, <1>3, <3>1, <3>3
    <3> QED BY <3>2, <3>3
  <2>3. ASSUME NEW d \in Requests, status'[d] # "200" PROVE body'[d] = None
    <3>1. d # c => status[d] # "200" BY <1>2, <2>3, CallsApart
    <3> QED BY <1>1, <1>14, <3>1 DEF WalletInv, CallersInv
  <2> QED BY <2>1, <2>2, <2>3 DEF CallersInv
<1>6. OnePlace'
  <2>0. OnePlace BY DEF WalletInv
  <2>1. /\ c \notin taken /\ \A p \in Plugins : <<c, p>> \notin forward /\ ~Queued(c, p)
    BY <1>1, <2>0 DEF OnePlace
  <2>2. /\ \A d, p : <<d, p>> \in forward' => <<d, p>> \in forward \/ (d = c /\ s = "waiting")
        /\ \A p, q : <<c, p>> \in forward' /\ <<c, q>> \in forward' =>
             p = q \/ <<c, p>> \in forward \/ <<c, q>> \in forward
    OBVIOUS
  <2>3. /\ taken' = taken /\ \A d, p : Queued(d, p)' <=> Queued(d, p)
        /\ \A d, p : Served(d, p)' <=> Served(d, p)
        /\ \A p \in Plugins : Distinct(inbox'[p])
    BY <1>1, <2>0 DEF OnePlace, Queued, Served
  <2>4. forward \subseteq Calls \X Plugins BY <1>0 DEF TypeOK
  <2>5. ASSUME NEW d \in Calls, status'[d] = "none", NEW p \in Plugins
        PROVE  d \notin taken /\ <<d, p>> \notin forward' /\ ~Queued(d, p)
    BY <1>2, <2>0, <2>2, <2>5 DEF OnePlace
  <2>6. ASSUME NEW d \in Calls, status'[d] = "none" PROVE d \notin taken
    BY <1>2, <2>0, <2>6 DEF OnePlace
  <2>7. ASSUME NEW d \in Calls, NEW p \in Plugins, <<d, p>> \in forward'
        PROVE  /\ d \notin taken
               /\ \A q \in Plugins : (<<d, q>> \in forward' => q = p) /\ ~Queued(d, q)
    BY <2>0, <2>1, <2>2, <2>7 DEF OnePlace
  <2>8. ASSUME NEW d \in Calls, NEW p \in Plugins
        PROVE  /\ Queued(d, p) => d \notin taken /\ \A q \in Plugins : Queued(d, q) => q = p
               /\ Served(d, p) => d \in taken /\ \A q \in Plugins : Served(d, q) => q = p
    BY <2>0 DEF OnePlace
  <2> QED BY <2>3, <2>5, <2>6, <2>7, <2>8 DEF OnePlace
<1>7. PerformedInv'
  <2>1. \A q \in Plugins : serving[q].call # c BY <1>14 DEF Served
  <2>2. \A q \in Plugins : serving[q] # Idle => path'[serving[q].call] = path[serving[q].call]
    BY <1>0, <1>2, <2>1, ServesCall
  <2>3. \A q \in Plugins : serving[q].stage \in {"sent", "performed", "probe"} <=> serving[q] # Idle
    BY <1>0, ServesCall
  <2> QED BY <1>1, <2>2, <2>3 DEF WalletInv, PerformedInv
<1>8. AnswersInv'
  <2>1. \A m \in writes \cup replies : m.surb \in Calls BY <1>0 DEF TypeOK, Replies
  <2>2. \A m \in writes \cup replies : path'[m.surb] = path[m.surb] BY <1>2, <1>14, <2>1
  <2> QED BY <1>1, <2>2 DEF WalletInv, AnswersInv, AnswerTo
<1>9. AnswerOwn'
  <2> SUFFICES ASSUME NEW d \in Requests, status'[d] = "200"
               PROVE  IF path'[d] = "network"
                        THEN /\ body[d] # None /\ body[d].of = d /\ ~body[d].flate
                             /\ performed[d] > 0
                        ELSE body[d] = None /\ path'[d] # "unknown"
    BY <1>1 DEF AnswerOwn
  <2>1. CASE d = c
    <3>1. target = None BY <1>2, <2>1, CallsApart
    <3> QED BY <1>2, <1>14, <2>1, <3>1, CallsApart DEF Paths
  <2>2. CASE d # c
    <3>1. status[d] = "200" /\ path'[d] = path[d] BY <1>2, <2>2, CallsApart
    <3> QED BY <3>1 DEF WalletInv, AnswerOwn
  <2> QED BY <2>1, <2>2
<1>10. SurbUsedOnce' BY <1>1 DEF WalletInv, SurbUsedOnce
<1>11. OpenInv'
  <2> SUFFICES ASSUME NEW d \in Calls, NEW p \in Plugins,
                      <<d, p>> \in forward' \/ Queued(d, p)' \/ Served(d, p)'
               PROVE  Open(d)'
    BY DEF OpenInv
  <2>1. <<d, p>> \in forward' \/ Queued(d, p) \/ Served(d, p) BY <1>1 DEF Queued, Served
  <2>2. CASE d = c
    <3>1. <<c, p>> \in forward' /\ <<c, p>> \notin forward BY <1>14, <2>1, <2>2
    <3> QED BY <1>2, <2>2, <3>1 DEF Open
  <2>3. CASE d # c
    <3>1. <<d, p>> \in forward' => <<d, p>> \in forward BY <2>3
    <3> QED BY <1>2, <2>1, <2>3, <3>1 DEF WalletInv, OpenInv, Open
  <2> QED BY <2>2, <2>3
<1> QED BY <1>4, <1>5, <1>6, <1>7, <1>8, <1>9, <1>10, <1>11 DEF WalletInv

(* Ending a call that waits. *)
LEMMA EndKeeps ==
  ASSUME WalletInv, NEW c \in Calls, status[c] = "waiting",
         NEW outcome \in {"404", "replied", "200", "500"}, End(c, outcome),
         c \in Probes => outcome \in {"404", "replied"},
         outcome = "404" \/ answers[c] = 1,
         UNCHANGED <<path, transmitted, forward, plugin, performed>>,
         replies' \subseteq replies,
         body' \in [Requests -> Answers \cup {None}],
         \A d \in Requests : status'[d] # "200" => body'[d] = None,
         AnswerOwn'
  PROVE  WalletInv'
<1>0. TypeOK BY DEF WalletInv
<1>1. /\ status' = [status EXCEPT ![c] = outcome]
      /\ received' = IF c \in Probes /\ outcome = "replied" THEN received + 1 ELSE received
      /\ UNCHANGED <<path, transmitted, forward, inbox, serving, taken, writes, answers,
                     performed>>
  BY DEF End, plugin
<1>2. \A d \in Calls : status'[d] = IF d = c THEN outcome ELSE status[d]
  BY <1>0, <1>1 DEF TypeOK
<1>3. /\ transmitted \in Nat /\ received \in Nat /\ received <= transmitted
      /\ c \in Probes => received < transmitted
  <2>1. c \in Probes => received < transmitted BY DEF WalletInv, CallersInv
  <2> QED BY <1>0, <2>1, CallsApart DEF TypeOK
<1>4. TypeOK'
  <2>1. received' \in 0 .. transmitted' BY <1>1, <1>3
  <2>2. status' \in [Calls -> {"none", "waiting"} \cup Outcomes]
    BY <1>0, <1>1 DEF TypeOK, Outcomes
  <2> QED BY <1>0, <1>1, <2>1, <2>2 DEF TypeOK
<1>5. CallersInv'
  <2>1. ASSUME NEW d \in Calls, status'[d] = "none" PROVE path'[d] = None
    BY <1>1, <1>2, <2>1 DEF WalletInv, CallersInv
  <2>2. ASSUME NEW d \in Probes
        PROVE  /\ path'[d] \in {None, "probe"}
               /\ status'[d] = "none" <=> d > transmitted'
               /\ d < transmitted' => status'[d] \in {"404", "replied"}
               /\ status'[d] = "waiting" => received' < transmitted'
    <3>1. /\ path[d] \in {None, "probe"}
          /\ status[d] = "none" <=> d > transmitted
          /\ d < transmitted => status[d] \in {"404", "replied"}
          /\ status[d] = "waiting" => received < transmitted
          /\ d \in Nat /\ d \in Calls
      BY CallsApart DEF WalletInv, CallersInv
    <3>2. CASE c \in Probes
      <4>1. /\ status[c] = "none" <=> c > transmitted
            /\ c < transmitted => status[c] \in {"404", "replied"}
            /\ c \in Nat
        BY <3>2, CallsApart DEF WalletInv, CallersInv
      <4>2. c = transmitted BY <4>1, <1>3
      <4>3. d # c => status[d] # "waiting"
        BY <1>3, <3>1, <4>2
      <4> QED BY <1>1, <1>2, <3>1, <3>2, <4>3
    <3>3. CASE c \notin Probes BY <1>1, <1>2, <1>3, <3>1, <3>3
    <3> QED BY <3>2, <3>3
  <2> QED BY <2>1, <2>2 DEF CallersInv
<1>6. \A d, p : (Queued(d, p)' <=> Queued(d, p)) /\ (Served(d, p)' <=> Served(d, p))
  BY <1>1 DEF Queued, Served
<1>7. OnePlace'
  <2>1. \A d \in Calls : status'[d] = "none" => status[d] = "none" BY <1>2
  <2> QED BY <1>1, <1>6, <2>1 DEF WalletInv, OnePlace
<1>8. OpenInv'
  <2> SUFFICES ASSUME NEW d \in Calls, NEW p \in Plugins,
                      <<d, p>> \in forward' \/ Queued(d, p)' \/ Served(d, p)'
               PROVE  Open(d)'
    BY DEF OpenInv
  <2>1. <<d, p>> \in forward \/ Queued(d, p) \/ Served(d, p) BY <1>1, <1>6
  <2>2. Open(d) BY <2>1 DEF WalletInv, OpenInv
  <2>3. CASE d = c /\ outcome # "404"
    <3>1. answers[c] = 1 BY <2>3
    <3>2. c \in taken /\ ~Served(c, p)
      BY <3>1 DEF WalletInv, SurbUsedOnce, Served
    <3>3. <<c, p>> \notin forward /\ ~Queued(c, p) BY <3>2 DEF WalletInv, OnePlace
    <3> QED BY <2>1, <2>3, <3>2, <3>3
  <2>4. CASE d # c \/ outcome = "404" BY <1>2, <2>2, <2>4 DEF Open
  <2> QED BY <2>3, <2>4
<1>9. PerformedInv' BY <1>1 DEF WalletInv, PerformedInv
<1>10. AnswersInv' BY <1>1 DEF WalletInv, AnswersInv, AnswerTo
<1>11. SurbUsedOnce' BY <1>1 DEF WalletInv, SurbUsedOnce
<1> QED BY <1>4, <1>5, <1>7, <1>8, <1>9, <1>10, <1>11 DEF WalletInv

(* What Handler reads out of a reply that carries an answer.               *)
LEMMA Reads ==
  ASSUME WalletInv, NEW m \in replies, m.surb \in Requests, m.body.kind = "payload"
  PROVE  LET data == DecompressData(m.surb \in Compressing, m.body.data)
         IN /\ data \in Answers /\ data.of = m.surb /\ ~data.flate
            /\ path[m.surb] = "network" /\ performed[m.surb] > 0
<1> DEFINE c == m.surb
<1>1. AnswerTo(c, m.body.data) BY DEF WalletInv, AnswersInv
<1>2. m.body.data \in Answers
  <2>1. m.body \in Bodies BY DEF WalletInv, TypeOK, Replies
  <2> QED BY <2>1 DEF Bodies, ErrorReply, NilReply
<1>3. (m.body.data.flate /\ ~(c \in Compressing)) = FALSE BY <1>1 DEF AnswerTo
<1>4. DecompressData(c \in Compressing, m.body.data) = [m.body.data EXCEPT !.flate = FALSE]
  BY <1>3 DEF DecompressData
<1> QED BY <1>1, <1>2, <1>4 DEF AnswerTo, Answers

(* A caller gets the reply to its own call, and reads in it what the       *)
(* upstream answered.                                                      *)
LEMMA ReceiveKeeps ==
  ASSUME WalletInv, NEW m \in replies, Receive(m) PROVE WalletInv'
<1>0. TypeOK /\ AnswersInv /\ AnswerOwn /\ CallersInv BY DEF WalletInv
<1>1. m.surb \in Calls BY <1>0 DEF TypeOK, Replies
<1>2. PICK c \in Calls : c = m.surb BY <1>1
<1> DEFINE data == DecompressData(c \in Compressing, m.body.data)
<1>3. /\ status[c] = "waiting" /\ replies' = replies \ {m}
      /\ UNCHANGED <<path, transmitted, forward, plugin, performed>>
      /\ \/ c \in Probes /\ End(c, "replied") /\ body' = body
         \/ /\ c \in Requests /\ Readable(c, m.body) /\ End(c, "200")
            /\ body' = [body EXCEPT ![c] = data]
         \/ c \in Requests /\ ReadAsEmpty(c, m.body) /\ End(c, "200") /\ body' = body
         \/ c \in Requests /\ End(c, "500") /\ body' = body
  BY <1>2 DEF Receive
<1>4. c \in Requests /\ Readable(c, m.body) =>
        /\ data \in Answers /\ data.of = c /\ ~data.flate
        /\ path[c] = "network" /\ performed[c] > 0
  BY <1>2, Reads DEF Readable
<1>5. c \in Requests /\ ReadAsEmpty(c, m.body) => path[c] = "probe"
  BY <1>0, <1>2 DEF ReadAsEmpty, AnswersInv
<1>6. answers[c] = 1 BY <1>0, <1>2 DEF AnswersInv
<1> HIDE DEF data
<1>7. PICK outcome \in {"replied", "200", "500"} :
        /\ End(c, outcome) /\ (c \in Probes <=> outcome = "replied")
        /\ IF outcome = "200" /\ Readable(c, m.body)
             THEN body' = [body EXCEPT ![c] = data]
             ELSE body' = body /\ (outcome = "200" => path[c] = "probe")
  <2>1. c \in Requests => c \notin Probes BY CallsApart
  <2>2. ReadAsEmpty(c, m.body) => ~Readable(c, m.body) BY DEF ReadAsEmpty, Readable
  <2>3. CASE c \in Probes BY <1>3, <2>1, <2>3
  <2>4. CASE c \in Requests /\ Readable(c, m.body) /\ End(c, "200")
              /\ body' = [body EXCEPT ![c] = data]
    BY <2>1, <2>4
  <2>5. CASE c \in Requests /\ ReadAsEmpty(c, m.body) /\ End(c, "200") /\ body' = body
    BY <1>5, <2>1, <2>2, <2>5
  <2>6. CASE c \in Requests /\ End(c, "500") /\ body' = body BY <2>1, <2>6
  <2> QED BY <1>3, <2>3, <2>4, <2>5, <2>6
<1>8. \A d \in Calls : status'[d] = IF d = c THEN outcome ELSE status[d]
  BY <1>0, <1>7 DEF TypeOK, End
<1>9. outcome # "replied" => c \in Requests BY <1>7 DEF Calls
<1>10. body' \in [Requests -> Answers \cup {None}]
  BY <1>0, <1>4, <1>7, <1>9 DEF TypeOK
<1>11. /\ \A d \in Requests : d # c => body'[d] = body[d]
       /\ outcome = "200" => body'[c] = IF Readable(c, m.body) THEN data ELSE body[c]
       /\ outcome # "200" => body' = body
  BY <1>0, <1>7, <1>9 DEF TypeOK
<1>12. c \in Requests => body[c] = None BY <1>0, <1>3 DEF CallersInv
<1>13. \A d \in Requests : status'[d] # "200" => body'[d] = None
  <2> SUFFICES ASSUME NEW d \in Requests, status'[d] # "200" PROVE body'[d] = None OBVIOUS
  <2>1. CASE d = c BY <1>8, <1>11, <1>12, <2>1
  <2>2. CASE d # c BY <1>0, <1>8, <1>11, <2>2, CallsApart DEF CallersInv
  <2> QED BY <2>1, <2>2
<1>14. AnswerOwn'
  <2> SUFFICES ASSUME NEW d \in Requests, status'[d] = "200"
               PROVE  IF path[d] = "network"
                        THEN /\ body'[d] # None /\ body'[d].of = d /\ ~body'[d].flate
                             /\ performed[d] > 0
                        ELSE body'[d] = None /\ path[d] # "unknown"
    BY <1>3 DEF AnswerOwn
  <2>1. CASE d = c
    <3>1. outcome = "200" BY <1>8, <2>1
    <3>2. CASE Readable(c, m.body)
      BY <1>4, <1>9, <1>11, <2>1, <3>1, <3>2, AnswersAssumption
    <3>3. CASE ~Readable(c, m.body) BY <1>7, <1>11, <1>12, <2>1, <3>1, <3>3
    <3> QED BY <3>2, <3>3
  <2>2. CASE d # c
    <3>1. status[d] = "200" BY <1>8, <2>2, CallsApart
    <3> QED BY <1>0, <1>11, <2>2, <3>1 DEF AnswerOwn
  <2> QED BY <2>1, <2>2
<1> QED BY <1>3, <1>6, <1>7, <1>10, <1>13, <1>14, EndKeeps

LEMMA NoReplyKeeps ==
  ASSUME WalletInv, NEW c \in Calls, NoReply(c) PROVE WalletInv'
<1>0. TypeOK /\ AnswerOwn /\ CallersInv BY DEF WalletInv
<1>1. /\ status[c] = "waiting" /\ End(c, "404")
      /\ UNCHANGED <<path, transmitted, forward, plugin, performed, body, replies>>
  BY DEF NoReply
<1>2. \A d \in Requests : status'[d] = "200" <=> status[d] = "200"
  <2>1. \A d \in Calls : status'[d] = IF d = c THEN "404" ELSE status[d]
    BY <1>0, <1>1 DEF TypeOK, End
  <2> QED BY <1>1, <2>1, CallsApart
<1>3. AnswerOwn' BY <1>0, <1>1, <1>2 DEF AnswerOwn
<1>4. \A d \in Requests : status'[d] # "200" => body'[d] = None
  BY <1>0, <1>1, <1>2 DEF CallersInv
<1>5. body' \in [Requests -> Answers \cup {None}] BY <1>0, <1>1 DEF TypeOK
<1> QED BY <1>1, <1>3, <1>4, <1>5, EndKeeps

-----------------------------------------------------------------------------
(* What no step of the network or of a plugin touches. *)
LEMMA CallersUntouched ==
  ASSUME WalletInv, UNCHANGED wallet PROVE CallersInv'
BY DEF WalletInv, CallersInv, wallet

LEMMA OpenKept ==
  ASSUME WalletInv, UNCHANGED status,
         \A d \in Calls, q \in Plugins :
           <<d, q>> \in forward' \/ Queued(d, q)' \/ Served(d, q)' =>
             \E r \in Plugins : <<d, r>> \in forward \/ Queued(d, r) \/ Served(d, r)
  PROVE  OpenInv'
BY DEF WalletInv, OpenInv, Open

LEMMA DeliverKeeps ==
  ASSUME WalletInv, NEW c \in Calls, NEW p \in Plugins, Deliver(c, p) PROVE WalletInv'
<1>0. TypeOK /\ OnePlace BY DEF WalletInv
<1>1. /\ <<c, p>> \in forward /\ forward' = forward \ {<<c, p>>}
      /\ inbox' = [inbox EXCEPT ![p] = Append(inbox[p], c)]
      /\ UNCHANGED <<path, status, body, transmitted, received, serving, taken, writes,
                     answers, replies, performed>>
  BY DEF Deliver, wallet
<1>2. /\ status[c] # "none" /\ c \notin taken
      /\ \A q \in Plugins : (<<c, q>> \in forward => q = p) /\ ~Queued(c, q)
  BY <1>0, <1>1 DEF OnePlace
<1>3. inbox[p] \in Seq(Calls) /\ Distinct(inbox[p]) /\ ~Holds(inbox[p], c)
  BY <1>0, <1>2 DEF TypeOK, OnePlace, Queued
<1>4. /\ Append(inbox[p], c) \in Seq(Calls) /\ Distinct(Append(inbox[p], c))
      /\ \A d : Holds(Append(inbox[p], c), d) <=> Holds(inbox[p], d) \/ d = c
  BY <1>3, AppendToQueue
<1> DEFINE s == Append(inbox[p], c)
<1> HIDE DEF s
<1>5. \A q \in Plugins : inbox'[q] = IF q = p THEN s ELSE inbox[q]
  BY <1>0, <1>1 DEF TypeOK, s
<1>6. \A d, q : q \in Plugins => (Queued(d, q)' <=> Queued(d, q) \/ (d = c /\ q = p))
  BY <1>4, <1>5 DEF Queued, s
<1>7. \A d, q : Served(d, q)' <=> Served(d, q) BY <1>1 DEF Served
<1>8. TypeOK'
  <2>1. inbox' \in [Plugins -> Seq(Calls)] BY <1>0, <1>1, <1>4 DEF TypeOK
  <2>2. forward' \subseteq Calls \X Plugins BY <1>0, <1>1 DEF TypeOK
  <2> QED BY <1>0, <1>1, <2>1, <2>2 DEF TypeOK
<1>9. OnePlace'
  <2>1. ASSUME NEW d \in Calls, status[d] = "none"
        PROVE  d \notin taken /\ \A q \in Plugins : <<d, q>> \notin forward' /\ ~Queued(d, q)'
    BY <1>0, <1>1, <1>2, <1>6, <2>1 DEF OnePlace
  <2>2. ASSUME NEW d \in Calls, NEW q \in Plugins, <<d, q>> \in forward'
        PROVE  d \notin taken /\ \A r \in Plugins : (<<d, r>> \in forward' => r = q) /\ ~Queued(d, r)'
    <3>1. <<d, q>> \in forward /\ ~(d = c /\ q = p) BY <1>1, <2>2
    <3>2. d # c BY <1>2, <3>1
    <3> QED BY <1>0, <1>1, <1>6, <3>1, <3>2 DEF OnePlace
  <2>3. ASSUME NEW d \in Calls, NEW q \in Plugins, Queued(d, q)'
        PROVE  d \notin taken /\ \A r \in Plugins : Queued(d, r)' => r = q
    <3>1. CASE d = c
      <4>1. \A r \in Plugins : Queued(d, r)' => r = p
        <5>1. \A r \in Plugins : ~Queued(d, r) BY <1>2, <3>1
        <5> QED BY <1>6, <5>1
      <4> QED BY <1>2, <2>3, <3>1, <4>1
    <3>2. CASE d # c BY <1>0, <1>6, <2>3, <3>2 DEF OnePlace
    <3> QED BY <3>1, <3>2
  <2>4. \A q \in Plugins : Distinct(inbox'[q]) BY <1>0, <1>4, <1>5 DEF OnePlace, s
  <2> QED BY <1>0, <1>1, <1>7, <2>1, <2>2, <2>3, <2>4 DEF OnePlace
<1>10. CallersInv' BY <1>1, CallersUntouched DEF wallet
<1>11. PerformedInv' BY <1>1 DEF WalletInv, PerformedInv
<1>12. AnswersInv' BY <1>1 DEF WalletInv, AnswersInv, AnswerTo
<1>13. AnswerOwn' /\ SurbUsedOnce' BY <1>1 DEF WalletInv, AnswerOwn, SurbUsedOnce
<1>14. OpenInv' BY <1>1, <1>6, <1>7, OpenKept
<1> QED BY <1>8, <1>9, <1>10, <1>11, <1>12, <1>13, <1>14 DEF WalletInv

(* A command OnCommand is called for was not taken before, and is in no    *)
(* other place.                                                            *)
LEMMA TakeEffect ==
  ASSUME WalletInv, NEW p \in Plugins, Take(p)
  PROVE  /\ Head(inbox[p]) \in Calls /\ Head(inbox[p]) \notin taken /\ serving[p] = Idle
         /\ status[Head(inbox[p])] # "none"
         /\ \A q \in Plugins : <<Head(inbox[p]), q>> \notin forward
         /\ \A q \in Plugins : ~Served(Head(inbox[p]), q)
         /\ taken' = taken \cup {Head(inbox[p])}
         /\ inbox' \in [Plugins -> Seq(Calls)]
         /\ \A q \in Plugins : Distinct(inbox'[q])
         /\ \A d, q : q \in Plugins =>
              (Holds(inbox'[q], d) <=> Queued(d, q) /\ ~(d = Head(inbox[p]) /\ q = p))
         /\ Queued(Head(inbox[p]), p)
         /\ \A q \in Plugins : Queued(Head(inbox[p]), q) => q = p
<1>0. TypeOK /\ OnePlace BY DEF WalletInv
<1>1. /\ serving[p] = Idle /\ inbox[p] # <<>>
      /\ inbox' = [inbox EXCEPT ![p] = Tail(inbox[p])]
      /\ taken' = taken \cup {Head(inbox[p])}
  BY DEF Take
<1>2. inbox[p] \in Seq(Calls) /\ Distinct(inbox[p]) BY <1>0 DEF TypeOK, OnePlace
<1> DEFINE t == Tail(inbox[p])
           c == Head(inbox[p])
<1>3. /\ t \in Seq(Calls) /\ c \in Calls /\ Queued(c, p) /\ Distinct(t)
      /\ \A d : Holds(t, d) <=> Queued(d, p) /\ d # c
  BY <1>1, <1>2, TailOfQueue DEF Queued
<1>4. inbox' = [inbox EXCEPT ![p] = t] /\ taken' = taken \cup {c} BY <1>1
<1> HIDE DEF t, c
<1>5. \A q \in Plugins : inbox'[q] = IF q = p THEN t ELSE inbox[q]
  BY <1>0, <1>4 DEF TypeOK
<1>6. inbox' \in [Plugins -> Seq(Calls)] BY <1>0, <1>3, <1>4 DEF TypeOK
<1>7. \A q \in Plugins : Distinct(inbox'[q]) BY <1>0, <1>3, <1>5 DEF OnePlace
<1>8. \A d, q : q \in Plugins => (Holds(inbox'[q], d) <=> Queued(d, q) /\ ~(d = c /\ q = p))
  BY <1>3, <1>5 DEF Queued
<1>9. /\ c \notin taken /\ status[c] # "none" /\ \A q \in Plugins : <<c, q>> \notin forward
      /\ \A q \in Plugins : ~Served(c, q) /\ (Queued(c, q) => q = p)
  BY <1>0, <1>3 DEF OnePlace
<1> QED BY <1>1, <1>3, <1>4, <1>6, <1>7, <1>8, <1>9 DEF c

LEMMA TakePlaces ==
  ASSUME WalletInv, NEW p \in Plugins, Take(p),
         \/ serving' = serving
         \/ \E stage : serving' = [serving EXCEPT ![p] = [call |-> Head(inbox[p]), stage |-> stage]]
  PROVE  OnePlace' /\ OpenInv'
<1> DEFINE c == Head(inbox[p])
<1>0. TypeOK /\ OnePlace BY DEF WalletInv
<1>1. UNCHANGED <<status, forward>> BY DEF Take, wallet
<1>2. /\ c \in Calls /\ c \notin taken /\ serving[p] = Idle /\ status[c] # "none"
      /\ \A q \in Plugins : <<c, q>> \notin forward
      /\ \A q \in Plugins : ~Served(c, q)
      /\ taken' = taken \cup {c}
      /\ \A q \in Plugins : Distinct(inbox'[q])
      /\ \A d, q : q \in Plugins => (Holds(inbox'[q], d) <=> Queued(d, q) /\ ~(d = c /\ q = p))
      /\ Queued(c, p) /\ \A q \in Plugins : Queued(c, q) => q = p
  BY TakeEffect
<1>3. \A d, q : q \in Plugins /\ Served(d, q)' => Served(d, q) \/ (d = c /\ q = p)
  BY <1>0 DEF TypeOK, Served
<1> HIDE DEF c
<1>4. \A d, q : q \in Plugins => (Queued(d, q)' <=> Queued(d, q) /\ ~(d = c /\ q = p))
  BY <1>2 DEF Queued
<1>5. ASSUME NEW d \in Calls, status[d] = "none"
      PROVE  d \notin taken' /\ \A q \in Plugins : <<d, q>> \notin forward /\ ~Queued(d, q)'
  BY <1>0, <1>2, <1>4, <1>5 DEF OnePlace
<1>6. ASSUME NEW d \in Calls, NEW q \in Plugins, <<d, q>> \in forward
      PROVE  d \notin taken' /\ \A r \in Plugins : (<<d, r>> \in forward => r = q) /\ ~Queued(d, r)'
  BY <1>0, <1>2, <1>4, <1>6 DEF OnePlace
<1>7. ASSUME NEW d \in Calls, NEW q \in Plugins, Queued(d, q)'
      PROVE  d \notin taken' /\ \A r \in Plugins : Queued(d, r)' => r = q
  <2>1. Queued(d, q) BY <1>4, <1>7
  <2>2. d # c
    <3>1. d = c => q = p BY <1>2, <2>1
    <3> QED BY <1>4, <1>7, <3>1
  <2> QED BY <1>0, <1>2, <1>4, <2>1, <2>2 DEF OnePlace
<1>8. ASSUME NEW d \in Calls, NEW q \in Plugins, Served(d, q)'
      PROVE  d \in taken' /\ \A r \in Plugins : Served(d, r)' => r = q
  <2>1. CASE d = c BY <1>2, <1>3, <1>8, <2>1
  <2>2. CASE d # c BY <1>0, <1>2, <1>3, <1>8, <2>2 DEF OnePlace
  <2> QED BY <2>1, <2>2
<1>9. OpenInv' BY <1>1, <1>2, <1>3, <1>4, OpenKept
<1> QED BY <1>1, <1>2, <1>5, <1>6, <1>7, <1>8, <1>9 DEF OnePlace

(* OnCommand starts to work on a command it understood. *)
LEMMA StartServingKeeps ==
  ASSUME WalletInv, NEW p \in Plugins, OnProbe(p) \/ OnNetwork(p) PROVE WalletInv'
<1> DEFINE c == Head(inbox[p])
           stage == IF OnProbe(p) THEN "probe" ELSE "sent"
           now == [call |-> c, stage |-> stage]
<1>0. TypeOK /\ OnePlace /\ CallersInv /\ PerformedInv /\ SurbUsedOnce BY DEF WalletInv
<1>1. /\ Take(p) /\ Understood(p)
      /\ UNCHANGED <<path, status, body, transmitted, received, forward, replies, performed,
                     writes, answers>>
  BY DEF OnProbe, OnNetwork, Take, wallet
<1>2. /\ serving' = [serving EXCEPT ![p] = now]
      /\ \/ stage = "probe" /\ path[c] = "probe"
         \/ stage = "sent" /\ path[c] = "network"
  BY DEF OnProbe, OnNetwork, Wanted
<1>3. OnePlace' /\ OpenInv' BY <1>1, <1>2, TakePlaces
<1>4. /\ c \in Calls /\ c \notin taken /\ taken' = taken \cup {c}
      /\ inbox' \in [Plugins -> Seq(Calls)] /\ status[c] # "none" /\ serving[p] = Idle
      /\ \A q \in Plugins : ~Served(c, q)
  BY <1>1, TakeEffect
<1>5. /\ now \in [call : Calls, stage : {"sent", "performed", "probe"}]
      /\ now.call = c /\ now.stage = stage
  BY <1>2, <1>4
<1>6. /\ stage = "sent" => c \in Requests /\ performed[c] = 0
      /\ p \in Compressing <=> c \in Compressing
  <2>1. stage = "sent" => c \in Requests
    BY <1>0, <1>2, <1>4, CallsApart DEF CallersInv, Calls, Paths
  <2> QED BY <1>0, <1>1, <1>4, <2>1 DEF PerformedInv, Understood
<1> HIDE DEF now, stage, c
<1>7. \A q \in Plugins : serving'[q] = IF q = p THEN now ELSE serving[q]
  BY <1>0, <1>2 DEF TypeOK
<1>8. TypeOK'
  <2>1. serving' \in [Plugins -> [call : Calls, stage : {"sent", "performed", "probe"}] \cup {Idle}]
    BY <1>0, <1>2, <1>5 DEF TypeOK
  <2> QED BY <1>0, <1>1, <1>4, <2>1 DEF TypeOK
<1>9. CallersInv' BY <1>1, CallersUntouched DEF wallet
<1>10. PerformedInv'
  <2> SUFFICES ASSUME NEW q \in Plugins
               PROVE  /\ serving'[q].stage = "probe" => path[serving'[q].call] = "probe"
                      /\ serving'[q].stage \in {"sent", "performed"} =>
                           /\ serving'[q].call \in Requests /\ path[serving'[q].call] = "network"
                           /\ q \in Compressing <=> serving'[q].call \in Compressing
                           /\ serving'[q].stage = "sent" <=> performed[serving'[q].call] = 0
    BY <1>0, <1>1, <1>4 DEF PerformedInv
  <2>1. CASE q = p
    <3>1. serving'[q].call = c /\ serving'[q].stage = stage BY <1>5, <1>7, <2>1
    <3> QED BY <1>2, <1>6, <2>1, <3>1
  <2>2. CASE q # p BY <1>0, <1>7, <2>2 DEF PerformedInv
  <2> QED BY <2>1, <2>2
<1>11. AnswersInv' /\ AnswerOwn' BY <1>1 DEF WalletInv, AnswersInv, AnswerTo, AnswerOwn
<1>12. SurbUsedOnce'
  <2> SUFFICES ASSUME NEW d \in Calls
               PROVE  answers[d] = IF d \in taken' /\ \A q \in Plugins : serving'[q].call # d
                                     THEN 1 ELSE 0
    BY <1>1 DEF SurbUsedOnce
  <2>1. CASE d = c
    <3>1. answers[d] = 0 BY <1>0, <1>4, <2>1 DEF SurbUsedOnce
    <3>2. serving'[p].call = d BY <1>5, <1>7, <2>1
    <3> QED BY <3>1, <3>2
  <2>2. CASE d # c
    <3>1. serving[p].call # d BY <1>0, <1>4, ServesCall, CallsApart
    <3>2. \A q \in Plugins : serving'[q].call # d <=> serving[q].call # d
      BY <1>5, <1>7, <2>2, <3>1
    <3>3. d \in taken' <=> d \in taken BY <1>4, <2>2
    <3> QED BY <1>0, <3>2, <3>3 DEF SurbUsedOnce
  <2> QED BY <2>1, <2>2
<1> QED BY <1>3, <1>8, <1>9, <1>10, <1>11, <1>12 DEF WalletInv

(* The reply a plugin writes keeps the types, is the first to its call and *)
(* carries, if anything, the answer to it.                                 *)
LEMMA ReplyTypes ==
  ASSUME WalletInv, NEW p \in Plugins, NEW c \in Calls, NEW b \in Bodies, Reply(p, c, b),
         answers[c] = 0, UNCHANGED <<path, replies, performed>>,
         b.kind = "payload" => AnswerTo(c, b.data),
         b.kind = "nil" => path[c] = "probe"
  PROVE  /\ writes' \subseteq Replies /\ AnswersInv' /\ answers' \in [Calls -> Nat]
         /\ \A d \in Calls : answers'[d] = IF d = c THEN answers[d] + 1 ELSE answers[d]
<1> DEFINE w == [by |-> p, surb |-> c, body |-> b]
<1>0. TypeOK /\ AnswersInv BY DEF WalletInv
<1>1. writes' = writes \cup {w} /\ answers' = [answers EXCEPT ![c] = @ + 1] BY DEF Reply
<1>2. w \in Replies /\ w.body = b /\ w.surb = c BY DEF Replies
<1> HIDE DEF w
<1>3. \A d \in Calls : answers'[d] = IF d = c THEN answers[d] + 1 ELSE answers[d]
  BY <1>0, <1>1 DEF TypeOK
<1>4. AnswersInv'
  <2> SUFFICES ASSUME NEW m \in writes' \cup replies'
               PROVE  /\ answers'[m.surb] = 1
                      /\ m.body.kind = "payload" => AnswerTo(m.surb, m.body.data)
                      /\ m.body.kind = "nil" => path[m.surb] = "probe"
    BY DEF AnswersInv, AnswerTo
  <2>1. CASE m = w BY <1>2, <1>3, <2>1
  <2>2. CASE m \in writes \cup replies
    <3>1. answers[m.surb] = 1 /\ m.surb \in Calls
      BY <1>0, <2>2 DEF AnswersInv, TypeOK, Replies
    <3> QED BY <1>0, <1>3, <2>2, <3>1 DEF AnswersInv
  <2> QED BY <1>1, <2>1, <2>2
<1> QED BY <1>0, <1>1, <1>2, <1>3, <1>4 DEF TypeOK

(* OnCommand answers a command it does not understand at once. *)
LEMMA OnInvalidKeeps ==
  ASSUME WalletInv, NEW p \in Plugins, OnInvalid(p) PROVE WalletInv'
<1> DEFINE c == Head(inbox[p])
<1>0. TypeOK /\ PerformedInv /\ SurbUsedOnce BY DEF WalletInv
<1>1. /\ Take(p) /\ Reply(p, c, ErrorReply)
      /\ UNCHANGED <<path, status, body, transmitted, received, forward, replies, performed,
                     serving>>
  BY DEF OnInvalid, Take, wallet
<1>2. OnePlace' /\ OpenInv' BY <1>1, TakePlaces
<1>3. /\ c \in Calls /\ c \notin taken /\ taken' = taken \cup {c}
      /\ inbox' \in [Plugins -> Seq(Calls)] /\ \A q \in Plugins : ~Served(c, q)
  BY <1>1, TakeEffect
<1> HIDE DEF c
<1>4. /\ ErrorReply \in Bodies /\ ErrorReply.kind \notin {"payload", "nil"}
      /\ answers[c] = 0
  BY <1>0, <1>3 DEF Bodies, ErrorReply, SurbUsedOnce
<1>5. /\ writes' \subseteq Replies /\ AnswersInv' /\ answers' \in [Calls -> Nat]
      /\ \A d \in Calls : answers'[d] = IF d = c THEN answers[d] + 1 ELSE answers[d]
  BY <1>1, <1>3, <1>4, ReplyTypes
<1>6. TypeOK' BY <1>0, <1>1, <1>3, <1>5 DEF TypeOK
<1>7. CallersInv' /\ AnswerOwn'
  BY <1>1, CallersUntouched DEF wallet, WalletInv, AnswerOwn
<1>8. PerformedInv' BY <1>0, <1>1, <1>3 DEF PerformedInv
<1>9. SurbUsedOnce'
  <2> SUFFICES ASSUME NEW d \in Calls
               PROVE  answers'[d] = IF d \in taken' /\ \A q \in Plugins : serving[q].call # d
                                      THEN 1 ELSE 0
    BY <1>1 DEF SurbUsedOnce
  <2>1. CASE d = c
    <3>1. answers[d] = 0 BY <1>0, <1>3, <2>1 DEF SurbUsedOnce
    <3> QED BY <1>3, <1>5, <2>1, <3>1 DEF Served
  <2>2. CASE d # c BY <1>0, <1>3, <1>5, <2>2 DEF SurbUsedOnce
  <2> QED BY <2>1, <2>2
<1> QED BY <1>2, <1>5, <1>6, <1>7, <1>8, <1>9 DEF WalletInv

(* OnCommand returns, having answered the command on its SURB. *)
LEMMA DoneKeeps ==
  ASSUME WalletInv, NEW p \in Plugins, serving[p] # Idle, NEW b \in Bodies,
         Reply(p, serving[p].call, b), Done(p),
         b.kind = "payload" => AnswerTo(serving[p].call, b.data),
         b.kind = "nil" => path[serving[p].call] = "probe"
  PROVE  WalletInv'
<1>0. TypeOK /\ OnePlace /\ PerformedInv /\ SurbUsedOnce BY DEF WalletInv
<1>1. /\ serving' = [serving EXCEPT ![p] = Idle]
      /\ UNCHANGED <<path, status, body, transmitted, received, forward, inbox, taken, replies,
                     performed>>
  BY DEF Done, wallet
<1>2. serving[p].call \in Calls BY <1>0, ServesCall
<1>3. PICK c \in Calls : c = serving[p].call BY <1>2
<1>4. /\ writes' \subseteq Replies /\ AnswersInv' /\ answers' \in [Calls -> Nat]
      /\ \A d \in Calls : answers'[d] = IF d = c THEN answers[d] + 1 ELSE answers[d]
  <2>1. Reply(p, c, b) BY <1>3
  <2>2. answers[c] = 0 BY <1>0, <1>3 DEF SurbUsedOnce
  <2>3. b.kind = "payload" => AnswerTo(c, b.data) BY <1>3
  <2>4. b.kind = "nil" => path[c] = "probe" BY <1>3
  <2> QED BY <1>1, <2>1, <2>2, <2>3, <2>4, ReplyTypes
<1>5. \A q \in Plugins : serving'[q] = IF q = p THEN Idle ELSE serving[q]
  BY <1>0, <1>1 DEF TypeOK
<1>6. Idle.call = None /\ Idle.stage = "idle" BY DEF Idle
<1>7. TypeOK'
  <2>1. serving' \in [Plugins -> [call : Calls, stage : {"sent", "performed", "probe"}] \cup {Idle}]
    BY <1>0, <1>1 DEF TypeOK
  <2> QED BY <1>0, <1>1, <1>4, <2>1 DEF TypeOK
<1>8. CallersInv' /\ AnswerOwn'
  BY <1>1, CallersUntouched DEF wallet, WalletInv, AnswerOwn
<1>9. OnePlace'
  <2>1. \A d \in Calls, q \in Plugins : Served(d, q)' => Served(d, q)
    BY <1>5, <1>6, CallsApart DEF Served
  <2>2. /\ \A d, q : Queued(d, q)' <=> Queued(d, q)
        /\ \A q \in Plugins : Distinct(inbox'[q])
    BY <1>0, <1>1 DEF Queued, OnePlace
  <2> QED BY <1>0, <1>1, <2>1, <2>2 DEF OnePlace
<1>10. PerformedInv'
  <2>1. ASSUME NEW q \in Plugins, serving'[q].stage \in {"sent", "performed", "probe"}
        PROVE  serving'[q] = serving[q]
    BY <1>5, <1>6, <2>1
  <2> QED BY <1>0, <1>1, <2>1 DEF PerformedInv
<1>12. OpenInv'
  <2>1. \A d \in Calls, q \in Plugins : Served(d, q)' => Served(d, q)
    BY <1>5, <1>6, CallsApart DEF Served
  <2>2. \A d, q : Queued(d, q)' <=> Queued(d, q) BY <1>1 DEF Queued
  <2> QED BY <1>1, <2>1, <2>2, OpenKept
<1>11. SurbUsedOnce'
  <2> SUFFICES ASSUME NEW d \in Calls
               PROVE  answers'[d] = IF d \in taken /\ \A q \in Plugins : serving'[q].call # d
                                      THEN 1 ELSE 0
    BY <1>1 DEF SurbUsedOnce
  <2>1. CASE d = c
    <3>1. c \in taken /\ \A q \in Plugins : serving[q].call = c => q = p
      BY <1>0, <1>3 DEF OnePlace, Served
    <3>2. answers[d] = 0 BY <1>0, <1>3, <2>1 DEF SurbUsedOnce
    <3>3. \A q \in Plugins : serving'[q].call # c BY <1>5, <1>6, <3>1, CallsApart
    <3> QED BY <1>4, <2>1, <3>1, <3>2, <3>3
  <2>2. CASE d # c
    <3>1. \A q \in Plugins : serving'[q].call # d <=> serving[q].call # d
      BY <1>3, <1>5, <1>6, <2>2, CallsApart
    <3> QED BY <1>0, <1>4, <2>2, <3>1 DEF SurbUsedOnce
  <2> QED BY <2>1, <2>2
<1> QED BY <1>4, <1>7, <1>8, <1>9, <1>10, <1>11, <1>12 DEF WalletInv

LEMMA UpstreamAnswersKeeps ==
  ASSUME WalletInv, NEW p \in Plugins, NEW size \in Sizes, UpstreamAnswers(p, size)
  PROVE  WalletInv'
<1> DEFINE c == serving[p].call
           data == CompressData(p \in Compressing, Answer(c, size))
           b == IF data.size > MaxPayloadSize THEN ErrorReply ELSE Payload(data)
<1>0. TypeOK /\ PerformedInv BY DEF WalletInv
<1>1. serving[p] # Idle /\ serving[p].stage = "performed" /\ Reply(p, c, b) /\ Done(p)
  BY DEF UpstreamAnswers, Serving, AnswerWith
<1>2. /\ c \in Requests /\ path[c] = "network" /\ performed[c] # 0 /\ performed[c] \in Nat
      /\ p \in Compressing <=> c \in Compressing
  BY <1>0, <1>1 DEF PerformedInv, TypeOK
<1>3. /\ data = [of |-> c, size |-> size, flate |-> (p \in Compressing)]
      /\ (p \in Compressing) = (c \in Compressing) /\ (p \in Compressing) \in BOOLEAN
  BY <1>2 DEF CompressData, Answer
<1>4. data \in Answers
  <2>1. PICK flate \in BOOLEAN : flate = (p \in Compressing) BY <1>3
  <2>2. data = [of |-> c, size |-> size, flate |-> flate] BY <1>3, <2>1
  <2> QED BY <1>2, <2>2 DEF Answers
<1>5. size \in Nat /\ MaxPayloadSize \in Int
  BY SizesAssumption DEF MaxPayloadSize
<1>6. data.size = size /\ (data.size <= MaxPayloadSize => AnswerTo(c, data))
  BY <1>2, <1>3, <1>5 DEF AnswerTo
<1> HIDE DEF data
<1>7. b \in Bodies /\ (b.kind = "payload" => AnswerTo(c, b.data)) /\ b.kind # "nil"
  <2>1. ErrorReply \in Bodies /\ ErrorReply.kind = "error" BY DEF Bodies, ErrorReply
  <2>2. /\ Payload(data) \in Bodies
        /\ Payload(data).kind = "payload" /\ Payload(data).data = data
    BY <1>4 DEF Bodies, Payload
  <2>3. CASE data.size > MaxPayloadSize
    <3>1. b = ErrorReply BY <2>3
    <3> QED BY <2>1, <3>1
  <2>4. CASE ~(data.size > MaxPayloadSize)
    <3>1. b = Payload(data) BY <2>4
    <3>2. AnswerTo(c, data) BY <1>5, <1>6, <2>4
    <3>3. AnswerTo(c, b.data) BY <2>2, <3>1, <3>2
    <3>4. b \in Bodies /\ b.kind = "payload" BY <2>2, <3>1
    <3> QED BY <3>3, <3>4
  <2> QED BY <2>3, <2>4
<1> HIDE DEF b
<1> QED BY <1>1, <1>7, DoneKeeps

(* The upstream performs the request of a command OnCommand works on, for  *)
(* the first time or because it may be repeated.                           *)
LEMMA PerformKeeps ==
  ASSUME WalletInv, NEW p \in Plugins, NEW c \in Requests, serving[p].call = c,
         serving[p].stage \in {"sent", "performed"},
         performed[c] = 0 \/ c \in Replayable,
         performed' = [performed EXCEPT ![c] = @ + 1],
         serving' = [serving EXCEPT ![p] = [call |-> c, stage |-> "performed"]],
         UNCHANGED <<wallet, forward, inbox, taken, writes, answers, replies>>
  PROVE  WalletInv'
<1>0. TypeOK /\ OnePlace /\ PerformedInv /\ SurbUsedOnce /\ AnswersInv /\ AnswerOwn
  BY DEF WalletInv
<1>1. UNCHANGED <<path, status, body, transmitted, received, forward, inbox, taken, writes,
                  answers, replies>>
  BY DEF wallet
<1>2. path[c] = "network" /\ (p \in Compressing <=> c \in Compressing)
  BY <1>0 DEF PerformedInv
<1>3. /\ c \in Calls /\ c \in taken /\ performed[c] \in Nat
      /\ \A q \in Plugins : serving[q].call = c => q = p
  BY <1>0, CallsApart DEF OnePlace, Served, TypeOK
<1> DEFINE now == [call |-> c, stage |-> "performed"]
<1>4. /\ now \in [call : Calls, stage : {"sent", "performed", "probe"}]
      /\ now.call = c /\ now.stage = "performed"
  BY <1>3
<1> HIDE DEF now
<1>5. /\ \A q \in Plugins : serving'[q] = IF q = p THEN now ELSE serving[q]
      /\ \A d \in Requests : performed'[d] = IF d = c THEN performed[c] + 1 ELSE performed[d]
  BY <1>0 DEF TypeOK, now
<1>6. TypeOK'
  <2>1. serving' \in [Plugins -> [call : Calls, stage : {"sent", "performed", "probe"}] \cup {Idle}]
    BY <1>0, <1>4 DEF TypeOK, now
  <2>2. performed' \in [Requests -> Nat] BY <1>0, <1>3 DEF TypeOK
  <2> QED BY <1>0, <1>1, <2>1, <2>2 DEF TypeOK
<1>7. CallersInv' BY CallersUntouched
<1>8. \A d, q : q \in Plugins => (serving'[q].call = d <=> serving[q].call = d)
  BY <1>4, <1>5
<1>9. /\ \A d \in Calls, q \in Plugins : Served(d, q)' <=> Served(d, q)
      /\ \A d, q : Queued(d, q)' <=> Queued(d, q)
      /\ \A q \in Plugins : Distinct(inbox'[q])
  BY <1>0, <1>1, <1>8 DEF Served, Queued, OnePlace
<1>10. OnePlace' BY <1>0, <1>1, <1>9 DEF OnePlace
<1>11. OpenInv' BY <1>1, <1>9, OpenKept
<1>12. PerformedInv'
  <2>1. ASSUME NEW q \in Plugins
        PROVE  /\ serving'[q].stage = "probe" => path[serving'[q].call] = "probe"
               /\ serving'[q].stage \in {"sent", "performed"} =>
                    /\ serving'[q].call \in Requests /\ path[serving'[q].call] = "network"
                    /\ q \in Compressing <=> serving'[q].call \in Compressing
                    /\ serving'[q].stage = "sent" <=> performed'[serving'[q].call] = 0
    <3>1. CASE q = p BY <1>2, <1>3, <1>4, <1>5, <3>1
    <3>2. CASE q # p
      <4>1. serving'[q] = serving[q] /\ serving[q].call # c BY <1>3, <1>5, <3>2
      <4> QED BY <1>0, <1>5, <4>1 DEF PerformedInv
    <3> QED BY <3>1, <3>2
  <2>2. ASSUME NEW d \in Requests
        PROVE  /\ d \notin taken => performed'[d] = 0
               /\ performed'[d] <= 1 \/ d \in Replayable
    BY <1>0, <1>3, <1>5 DEF PerformedInv
  <2> QED BY <1>1, <2>1, <2>2 DEF PerformedInv
<1>13. \A d \in Requests : performed[d] > 0 => performed'[d] > 0 BY <1>3, <1>5
<1>14. AnswersInv' BY <1>0, <1>1, <1>13 DEF AnswersInv, AnswerTo
<1>15. AnswerOwn' BY <1>0, <1>1, <1>13 DEF AnswerOwn
<1>16. SurbUsedOnce' BY <1>0, <1>1, <1>8 DEF SurbUsedOnce
<1> QED BY <1>6, <1>7, <1>10, <1>11, <1>12, <1>14, <1>15, <1>16 DEF WalletInv

LEMMA UpstreamPerformsKeeps ==
  ASSUME WalletInv, NEW p \in Plugins, UpstreamPerforms(p) \/ UpstreamPerformsAgain(p)
  PROVE  WalletInv'
<1>0. TypeOK /\ PerformedInv BY DEF WalletInv
<1>1. serving[p] # Idle /\ serving[p].stage \in {"sent", "performed"}
  BY DEF UpstreamPerforms, UpstreamPerformsAgain, Serving
<1>2. serving[p].call \in Requests BY <1>0, <1>1 DEF PerformedInv
<1>3. PICK c \in Requests : c = serving[p].call BY <1>2
<1>4. serving[p] \in [call : Calls, stage : {"sent", "performed", "probe"}]
  BY <1>0, <1>1 DEF TypeOK
<1>5. CASE UpstreamPerforms(p)
  <2>1. /\ serving[p].stage = "sent"
        /\ serving' = [serving EXCEPT ![p].stage = "performed"]
        /\ performed' = [performed EXCEPT ![c] = @ + 1]
        /\ UNCHANGED <<wallet, forward, inbox, taken, writes, answers, replies>>
    BY <1>3, <1>5 DEF UpstreamPerforms, Serving
  <2>2. serving' = [serving EXCEPT ![p] = [call |-> c, stage |-> "performed"]]
    <3>1. [serving[p] EXCEPT !.stage = "performed"] = [call |-> c, stage |-> "performed"]
      BY <1>3, <1>4
    <3>2. serving' = [serving EXCEPT ![p] = [serving[p] EXCEPT !.stage = "performed"]]
      BY <2>1
    <3> QED BY <3>1, <3>2
  <2>3. performed[c] = 0 BY <1>0, <1>3, <2>1 DEF PerformedInv
  <2> QED BY <1>1, <1>3, <2>1, <2>2, <2>3, PerformKeeps
<1>6. CASE UpstreamPerformsAgain(p)
  <2>1. /\ serving[p].stage = "performed" /\ c \in Replayable
        /\ performed' = [performed EXCEPT ![c] = @ + 1]
        /\ serving' = serving
        /\ UNCHANGED <<wallet, forward, inbox, taken, writes, answers, replies>>
    BY <1>3, <1>6 DEF UpstreamPerformsAgain, Serving, plugin
  <2>2. serving' = [serving EXCEPT ![p] = [call |-> c, stage |-> "performed"]]
    BY <1>0, <1>3, <1>4, <2>1 DEF TypeOK
  <2> QED BY <1>1, <1>3, <2>1, <2>2, PerformKeeps
<1> QED BY <1>5, <1>6

(* A goroutine hands its reply to the network. *)
LEMMA WriteKeeps ==
  ASSUME WalletInv, NEW w \in writes, Write(w) PROVE WalletInv'
<1>0. TypeOK BY DEF WalletInv
<1>1. /\ writes' = writes \ {w} /\ replies' = replies \cup {w}
      /\ UNCHANGED <<path, status, body, transmitted, received, forward, inbox, serving, taken,
                     answers, performed>>
  BY DEF Write, wallet
<1>2. TypeOK' BY <1>0, <1>1 DEF TypeOK
<1>3. CallersInv' /\ AnswerOwn'
  BY <1>1, CallersUntouched DEF wallet, WalletInv, AnswerOwn
<1>4. OnePlace'
  <2>1. /\ \A d, q : Queued(d, q)' <=> Queued(d, q)
        /\ \A d, q : Served(d, q)' <=> Served(d, q)
    BY <1>1 DEF Queued, Served
  <2> QED BY <1>1, <2>1 DEF WalletInv, OnePlace
<1>5. PerformedInv' BY <1>1 DEF WalletInv, PerformedInv
<1>6. AnswersInv'
  <2>1. writes' \cup replies' \subseteq writes \cup replies BY <1>1
  <2> QED BY <1>1, <2>1 DEF WalletInv, AnswersInv, AnswerTo
<1>7. SurbUsedOnce' BY <1>1 DEF WalletInv, SurbUsedOnce
<1>8. OpenInv' BY <1>1 DEF WalletInv, OpenInv, Open, Queued, Served
<1> QED BY <1>2, <1>3, <1>4, <1>5, <1>6, <1>7, <1>8 DEF WalletInv

-----------------------------------------------------------------------------
(* Where the message of a call is, and what was done with it, is known all *)
(* the way from the wallet to the upstream and back.                       *)
THEOREM WalletInvariant == Spec => []WalletInv
<1>1. WalletInv /\ [Next]_vars => WalletInv'
  <2> SUFFICES ASSUME WalletInv, [Next]_vars PROVE WalletInv' OBVIOUS
  <2>0. TypeOK BY DEF WalletInv
  <2>1. ASSUME NEW c \in Calls, Caller(c) PROVE WalletInv'
    <3>1. ASSUME NEW size \in Sizes, NEW target \in Paths, NEW p \in Plugins,
                 SendRequest(c, target, size, p)
          PROVE  WalletInv'
      <4>1. /\ Make(c) /\ status' = [status EXCEPT ![c] = "waiting"] /\ received' = received
            /\ path' = [path EXCEPT ![c] = target] /\ (c \in Probes => target = "probe")
            /\ forward' = forward \cup {<<c, p>>}
        BY <3>1 DEF SendRequest
      <4> QED BY <4>1, MakeKeeps
    <3>2. ASSUME RefuseUnparsable(c) \/ \E size \in Sizes : RefuseTooBig(c, size) \/ NoService(c, size)
          PROVE  WalletInv'
      <4>1. PICK s \in {"200", "500", "aborted"} :
              /\ Make(c) /\ status' = [status EXCEPT ![c] = s] /\ (s = "200" => c \in Requests)
              /\ received' = received /\ path' = path /\ forward' = forward
        BY <3>2 DEF RefuseUnparsable, RefuseTooBig, NoService, End
      <4>2. path[c] = None BY <4>1, OnItsWay DEF Make
      <4>3. path' = [path EXCEPT ![c] = None] BY <2>0, <4>1, <4>2 DEF TypeOK
      <4> QED BY <4>1, <4>3, MakeKeeps
    <3>3. ASSUME NEW m \in replies, Receive(m) PROVE WalletInv'
      BY <3>3, ReceiveKeeps
    <3> QED BY <2>1, <3>1, <3>2, <3>3, NoReplyKeeps DEF Caller
  <2>2. ASSUME NEW c \in Calls, NEW p \in Plugins, Deliver(c, p) PROVE WalletInv'
    BY <2>2, DeliverKeeps
  <2>3. ASSUME NEW p \in Plugins, OnCommand(p) PROVE WalletInv'
    <3>1. CASE ProbeEnds(p)
      <4>1. NilReply \in Bodies /\ NilReply.kind # "payload" BY DEF Bodies, NilReply
      <4>2. serving[p] # Idle /\ path[serving[p].call] = "probe"
        BY <3>1 DEF ProbeEnds, Serving, WalletInv, PerformedInv
      <4> QED BY <3>1, <4>1, <4>2, DoneKeeps DEF ProbeEnds
    <3> QED BY <2>3, <3>1, StartServingKeeps, OnInvalidKeeps DEF OnCommand
  <2>4. ASSUME NEW p \in Plugins, Upstream(p) PROVE WalletInv'
    <3>1. CASE UpstreamFails(p)
      <4>1. ErrorReply \in Bodies /\ ErrorReply.kind \notin {"payload", "nil"}
        BY DEF Bodies, ErrorReply
      <4> QED BY <3>1, <4>1, DoneKeeps DEF UpstreamFails, Serving
    <3> QED BY <2>4, <3>1, UpstreamPerformsKeeps, UpstreamAnswersKeeps DEF Upstream
  <2>5. ASSUME NEW w \in writes, Write(w) PROVE WalletInv' BY <2>5, WriteKeeps
  <2>6. CASE UNCHANGED vars
    <3>1. TypeOK' BY <2>0, <2>6 DEF vars, wallet, plugin, TypeOK
    <3>2. CallersInv' BY <2>6, CallersUntouched DEF vars
    <3>3. OnePlace'
      <4>1. /\ \A d, q : Queued(d, q)' <=> Queued(d, q)
            /\ \A d, q : Served(d, q)' <=> Served(d, q)
        BY <2>6 DEF Queued, Served, vars, plugin
      <4> QED BY <2>6, <4>1 DEF WalletInv, OnePlace, vars, wallet, plugin
    <3>4. PerformedInv' BY <2>6 DEF WalletInv, PerformedInv, vars, wallet, plugin
    <3>5. AnswersInv' BY <2>6 DEF WalletInv, AnswersInv, AnswerTo, vars, wallet, plugin
    <3>7. OpenInv'
      BY <2>6 DEF WalletInv, OpenInv, Open, Queued, Served, vars, wallet, plugin
    <3>6. AnswerOwn' /\ SurbUsedOnce'
      BY <2>6 DEF WalletInv, AnswerOwn, SurbUsedOnce, vars, wallet, plugin
    <3> QED BY <3>1, <3>2, <3>3, <3>4, <3>5, <3>6, <3>7 DEF WalletInv
  <2> QED BY <2>1, <2>2, <2>3, <2>4, <2>5, <2>6 DEF Next
<1> QED BY WalletInvInit, <1>1, PTL DEF Spec

(* Callers, messages and plugins keep their types; the prober never counts *)
(* more replies than it sent probes.                                       *)
THEOREM WalletTypeCorrect == Spec => []TypeOK
<1>1. WalletInv => TypeOK BY DEF WalletInv
<1> QED BY <1>1, WalletInvariant, PTL

(* A wallet that gets a 200 for the path of a network gets the upstream's  *)
(* answer to its own request, decompressed, however late or out of order   *)
(* replies come and however the programs were built; any other 200, that   *)
(* for an unparsable URI or for the path of a probe, is empty.             *)
THEOREM WalletsGetTheirAnswer == Spec => []AnswerOwn
<1>1. WalletInv => AnswerOwn BY DEF WalletInv
<1> QED BY <1>1, WalletInvariant, PTL

(* What was answered is over: the upstream performs a request only while   *)
(* its wallet waits or after it gave up, and more than once only if        *)
(* http.Client may repeat it.                                              *)
THEOREM AnsweredIsOver == Spec => PerformedWhileOpen
<1>1. WalletInv /\ [Next]_vars =>
        [\A c \in Requests : performed'[c] # performed[c] =>
           /\ status[c] \in {"waiting", "404"}
           /\ performed[c] > 0 => c \in Replayable]_vars
  <2> SUFFICES ASSUME WalletInv, Next, NEW c \in Requests, performed'[c] # performed[c]
               PROVE  /\ status[c] \in {"waiting", "404"}
                      /\ performed[c] > 0 => c \in Replayable
    OBVIOUS
  <2>1. PICK p \in Plugins : UpstreamPerforms(p) \/ UpstreamPerformsAgain(p)
    BY DEF Next, Caller, RefuseUnparsable, RefuseTooBig, NoService, SendRequest, NoReply,
           Receive, Make, Deliver, OnCommand, OnProbe, OnNetwork, OnInvalid, ProbeEnds, Take,
           Upstream, UpstreamFails, UpstreamAnswers, Done, Write
  <2>2. serving[p] # Idle /\ serving[p].stage \in {"sent", "performed"}
    BY <2>1 DEF UpstreamPerforms, UpstreamPerformsAgain, Serving
  <2>3. performed' = [performed EXCEPT ![serving[p].call] = @ + 1]
    BY <2>1 DEF UpstreamPerforms, UpstreamPerformsAgain
  <2>4. serving[p].call = c BY <2>3 DEF WalletInv, TypeOK
  <2>5. Open(c) BY <2>4, CallsApart DEF WalletInv, OpenInv, Served
  <2>6. performed[c] > 0 => c \in Replayable
    <3>1. UpstreamPerforms(p) => performed[c] = 0
      BY <2>4 DEF UpstreamPerforms, Serving, WalletInv, PerformedInv
    <3>2. UpstreamPerformsAgain(p) => c \in Replayable
      BY <2>4 DEF UpstreamPerformsAgain
    <3> QED BY <2>1, <3>1, <3>2
  <2> QED BY <2>5, <2>6 DEF Open
<1> QED BY <1>1, WalletInvariant, PTL DEF Spec, PerformedWhileOpen

(* A command OnCommand returned from was answered on its SURB once. *)
THEOREM OneReplyPerSurb == Spec => []SurbUsedOnce
<1>1. WalletInv => SurbUsedOnce BY DEF WalletInv
<1> QED BY <1>1, WalletInvariant, PTL

(* The encoding of an answer of at most MaxPayloadSize bytes fits in a     *)
(* message, as long as that size is written in two bytes.                  *)
LEMMA MarginIsEnough ==
  ASSUME NEW size \in Nat, size <= MaxPayloadSize, MaxPayloadSize < 65536
  PROVE  ResponseLength(size) <= UserForwardPayloadLength
BY SizesAssumption DEF MaxPayloadSize, ResponseLength, BytesLength

(* It is not when it takes more: the margin is one byte short.             *)
LEMMA MarginIsShort ==
  ASSUME MaxPayloadSize >= 65536
  PROVE  ResponseLength(MaxPayloadSize) = UserForwardPayloadLength + 1
BY SizesAssumption DEF MaxPayloadSize, ResponseLength, BytesLength

(* No reply is too long for the message it travels in, for every length of *)
(* a message below 64 KiB; genconfig and the plugin are set to 30000.      *)
THEOREM RepliesFit == MaxPayloadSize < 65536 => (Spec => []ReplyFits)
<1>1. ASSUME MaxPayloadSize < 65536 PROVE WalletInv => ReplyFits
  <2> SUFFICES ASSUME WalletInv, NEW w \in writes, w.body.kind = "payload"
               PROVE  ResponseLength(w.body.data.size) <= UserForwardPayloadLength
    BY DEF ReplyFits
  <2>1. w.body \in Bodies BY DEF WalletInv, TypeOK, Replies
  <2>2. w.body.data.size \in Nat
    <3>1. w.body.data \in Answers BY <2>1 DEF Bodies, ErrorReply, NilReply
    <3>2. w.body.data.size \in Sizes BY <3>1 DEF Answers
    <3> QED BY <3>2, SizesAssumption
  <2>3. w.body.data.size <= MaxPayloadSize BY DEF WalletInv, AnswersInv, AnswerTo
  <2> QED BY <1>1, <2>2, <2>3, MarginIsEnough
<1>2. CASE MaxPayloadSize < 65536
  <2>1. WalletInv => ReplyFits BY <1>1, <1>2
  <2> QED BY <2>1, WalletInvariant, PTL
<1> QED BY <1>2

=============================================================================
