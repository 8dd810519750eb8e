---------------------------- MODULE WalletProxy ----------------------------
(***************************************************************************)
(* HTTP requests of wallets, carried through the mix network to an         *)
(* upstream HTTP server and back: apps/walletshield takes a request,       *)
(* packs it in one message and waits for one reply, the http_proxy plugin  *)
(* of a service node performs the request and answers on the SURB that     *)
(* came with it.  A walletshield started with -probe sends test probes.    *)
(*                                                                         *)
(* The mix network delivers messages late, in any order, or never.  How    *)
(* long anything takes is left open: a timeout may come at any time.       *)
(***************************************************************************)
EXTENDS Integers, Sequences, FiniteSets

CONSTANTS
  Requests,         \* HTTP requests wallets make, each once
  TestProbeCount,   \* the probes a walletshield in probe mode sends
  Plugins,          \* the http_proxy processes of the service nodes
  Compressing,      \* the plugins, and the calls of walletshields, that were
                    \* built with CompressionEnabled
  Replayable,       \* requests http.Client may send again: GET, HEAD and the
                    \* like without a body
  MaxResends,       \* how often it does (bound)
  Sizes,            \* bytes of a payload once packed (bound)
  UserForwardPayloadLength,   \* bytes a message of the mix network takes
  None

ASSUME RequestsAssumption ==
  IsFiniteSet(Requests) /\ TestProbeCount \in Nat \ {0} /\ Requests \cap Nat = {}
ASSUME PluginsAssumption == IsFiniteSet(Plugins)
ASSUME ReplayableAssumption == Replayable \subseteq Requests /\ MaxResends \in Nat
ASSUME SizesAssumption == Sizes \subseteq Nat /\ UserForwardPayloadLength \in Nat
ASSUME NoneAssumption == None \notin Requests \cup Nat \cup Plugins

(* Probes are numbered in the order they are sent. *)
Probes == 1 .. TestProbeCount
Calls == Requests \cup Probes

(* Mutant: the room for the encoding is forgotten. *)
MaxPayloadSizeWhole == UserForwardPayloadLength

MaxPayloadSize == UserForwardPayloadLength - 20

-----------------------------------------------------------------------------
(* Data.  A payload is the request or the answer it stands for; flate says *)
(* that it is compressed, size counts its bytes as it travels.             *)

CompressData(enabled, data) == [data EXCEPT !.flate = enabled]

(* What is not compressed does not decompress. *)
Decompresses(enabled, data) == enabled => data.flate
DecompressData(enabled, data) == [data EXCEPT !.flate = @ /\ ~enabled]

(* CBOR: a byte string has a header that grows with it.  Request is a map  *)
(* of "Payload", Response of "Payload" and "Error".                        *)
BytesLength(n) ==
  n + (IF n < 24 THEN 1 ELSE IF n < 256 THEN 2 ELSE IF n < 65536 THEN 3 ELSE 5)
RequestLength(size) == 1 + 8 + BytesLength(size)
ResponseLength(size) == 1 + 8 + BytesLength(size) + 6 + 1

(* What a plugin writes: the marshalled answer, an error, or nothing. *)
Answer(c, size) == [of |-> c, size |-> size, flate |-> FALSE]
Answers == [of : Requests, size : Sizes, flate : BOOLEAN]
ASSUME AnswersAssumption == None \notin Answers
Payload(data) == [kind |-> "payload", data |-> data]
ErrorReply == [kind |-> "error"]
NilReply == [kind |-> "nil"]
Bodies == [kind : {"payload"}, data : Answers] \cup {ErrorReply, NilReply}
Replies == [by : Plugins, surb : Calls, body : Bodies]

VARIABLES
  path,         \* the path each message that was sent asks for
  status,       \* how each call stands at its caller
  body,         \* what a wallet got with a 200, None if that was empty
  transmitted, received,      \* packetsTransmitted, packetsReceived
  forward,      \* requests the mix network carries, and to which plugin
  inbox,        \* commands that wait for OnCommand, per plugin
  serving,      \* the command OnCommand works on
  taken,        \* the calls OnCommand was called for
  writes,       \* the replies of goroutines that run s.write
  replies,      \* replies the mix network carries
  answers,      \* how many replies each call's SURB was used for
  performed     \* how often the upstream performed each request

wallet == <<path, status, body, transmitted, received>>
plugin == <<inbox, serving, taken, writes, answers>>
vars == <<wallet, forward, plugin, replies, performed>>

(* A path that a network is configured for, another, that of a probe.      *)
Paths == {"network", "unknown", "probe"}
ASSUME PathsAssumption == None \notin Paths
Idle == [call |-> None, stage |-> "idle"]
Outcomes == {"200", "404", "500", "aborted", "replied"}

TypeOK ==
  /\ path \in [Calls -> Paths \cup {None}]
  /\ status \in [Calls -> {"none", "waiting"} \cup Outcomes]
  /\ body \in [Requests -> Answers \cup {None}]
  /\ transmitted \in 0 .. TestProbeCount /\ received \in 0 .. transmitted
  /\ forward \subseteq Calls \X Plugins
  /\ inbox \in [Plugins -> Seq(Calls)]
  /\ serving \in [Plugins -> [call : Calls, stage : {"sent", "performed", "probe"}] \cup {Idle}]
  /\ taken \subseteq Calls
  /\ writes \subseteq Replies /\ replies \subseteq Replies
  /\ answers \in [Calls -> Nat]
  /\ performed \in [Requests -> Nat]

Init ==
  /\ path = [c \in Calls |-> None]
  /\ status = [c \in Calls |-> "none"]
  /\ body = [c \in Requests |-> None]
  /\ transmitted = 0 /\ received = 0
  /\ forward = {} /\ replies = {} /\ writes = {}
  /\ inbox = [p \in Plugins |-> <<>>]
  /\ serving = [p \in Plugins |-> Idle]
  /\ taken = {}
  /\ answers = [c \in Calls |-> 0]
  /\ performed = [c \in Requests |-> 0]

-----------------------------------------------------------------------------
(* The caller: sendRequest, and what Handler or SendTestProbes make of it. *)

(* End a call: an HTTP request is answered, a probe is counted. *)
End(c, outcome) ==
  /\ status' = [status EXCEPT ![c] = outcome]
  /\ received' = IF c \in Probes /\ outcome = "replied" THEN received + 1 ELSE received

(* The prober is one loop: it sends a probe when the last one is through.  *)
Make(c) ==
  /\ status[c] = "none"
  /\ c \in Probes =>
       /\ c = transmitted + 1
       /\ c > 1 => status[c - 1] \in {"404", "replied"}
  /\ transmitted' = IF c \in Probes THEN transmitted + 1 ELSE transmitted
  /\ UNCHANGED <<body, plugin, replies, performed>>

(* url.Parse refuses the URI, though the HTTP server took it: Handler      *)
(* returns, and the HTTP server answers 200 with an empty body.            *)
RefuseUnparsable(c) ==
  /\ c \in Requests
  /\ Make(c) /\ End(c, "200")
  /\ UNCHANGED <<path, forward>>

Fits(size) == RequestLength(size) <= UserForwardPayloadLength

RefuseTooBig(c, size) ==
  /\ c \in Requests /\ ~Fits(size)
  /\ Make(c) /\ End(c, "500")
  /\ UNCHANGED <<path, forward>>

(* GetService found no plugin and sendRequest panicked: the HTTP server    *)
(* gives the connection up, a prober dies.                                 *)
NoService(c, size) ==
  /\ Fits(size)
  /\ Make(c) /\ End(c, "aborted")
  /\ UNCHANGED <<path, forward>>

(* A prober asks for the path of a probe, a wallet for any.                *)
SendRequest(c, target, size, p) ==
  /\ Fits(size) /\ (c \in Probes => target = "probe")
  /\ Make(c)
  /\ status' = [status EXCEPT ![c] = "waiting"]
  /\ path' = [path EXCEPT ![c] = target]
  /\ forward' = forward \cup {<<c, p>>}
  /\ UNCHANGED received

(* Mutant: who had no answer in time asks again. *)
AskAgain(c) ==
  /\ status[c] = "waiting"
  /\ \/ End(c, "404") /\ UNCHANGED forward
     \/ /\ forward' = forward \cup ({c} \X Plugins)
        /\ UNCHANGED <<status, received>>
  /\ UNCHANGED <<path, body, transmitted, plugin, replies, performed>>

(* The timeout, or any other error of BlockingSendMessage. *)
NoReply(c) ==
  /\ status[c] = "waiting"
  /\ End(c, "404")
  /\ UNCHANGED <<path, body, transmitted, forward, plugin, replies, performed>>

(* Whether Handler gets the upstream's answer out of a reply. *)
Readable(c, b) ==
  b.kind = "payload" /\ Decompresses(c \in Compressing, b.data)

(* A reply without a payload arrives as padding.  If the CBOR library took *)
(* that for a Response, it would be an empty one, and what is empty does   *)
(* not decompress.                                                         *)
ReadAsEmpty(c, b) == b.kind = "nil" /\ c \notin Compressing

(* The thin client gives a caller the reply to its own SURB, if the caller *)
(* still waits; any reply will do for a prober.                            *)
Receive(m) ==
  LET c == m.surb
  IN /\ status[c] = "waiting"
     /\ replies' = replies \ {m}
     /\ \/ c \in Probes /\ End(c, "replied") /\ UNCHANGED body
        \/ /\ c \in Requests /\ Readable(c, m.body)
           /\ End(c, "200")
           /\ body' = [body EXCEPT ![c] = DecompressData(c \in Compressing, m.body.data)]
        \/ c \in Requests /\ ReadAsEmpty(c, m.body) /\ End(c, "200") /\ UNCHANGED body
        \/ c \in Requests /\ ~Readable(c, m.body) /\ End(c, "500") /\ UNCHANGED body
     /\ UNCHANGED <<path, transmitted, forward, plugin, performed>>

-----------------------------------------------------------------------------
(* The plugin.  OnCommand is called for one command after the other. *)

Deliver(c, p) ==
  /\ <<c, p>> \in forward
  /\ forward' = forward \ {<<c, p>>}
  /\ inbox' = [inbox EXCEPT ![p] = Append(@, c)]
  /\ UNCHANGED <<wallet, serving, taken, writes, answers, replies, performed>>

Reply(p, c, b) ==
  /\ writes' = writes \cup {[by |-> p, surb |-> c, body |-> b]}
  /\ answers' = [answers EXCEPT ![c] = @ + 1]

(* Mutant: OnCommand writes its reply itself. *)
TakeWhenWritten(p) ==
  /\ serving[p] = Idle /\ inbox[p] # <<>> /\ \A w \in writes : w.by # p
  /\ inbox' = [inbox EXCEPT ![p] = Tail(@)]
  /\ taken' = taken \cup {Head(inbox[p])}
  /\ UNCHANGED <<wallet, forward, replies, performed>>

Take(p) ==
  /\ serving[p] = Idle /\ inbox[p] # <<>>
  /\ inbox' = [inbox EXCEPT ![p] = Tail(@)]
  /\ taken' = taken \cup {Head(inbox[p])}
  /\ UNCHANGED <<wallet, forward, replies, performed>>

(* The request comes out of its payload as it went in. *)
Understood(p) == p \in Compressing <=> Head(inbox[p]) \in Compressing

Wanted(p) == path[Head(inbox[p])]

OnProbe(p) ==
  /\ Take(p) /\ Understood(p) /\ Wanted(p) = "probe"
  /\ serving' = [serving EXCEPT ![p] = [call |-> Head(inbox[p]), stage |-> "probe"]]
  /\ UNCHANGED <<writes, answers>>

OnNetwork(p) ==
  /\ Take(p) /\ Understood(p) /\ Wanted(p) = "network"
  /\ serving' = [serving EXCEPT ![p] = [call |-> Head(inbox[p]), stage |-> "sent"]]
  /\ UNCHANGED <<writes, answers>>

(* Mutant: the error is sent without the SURB. *)
OnInvalidNoSurb(p) ==
  /\ Take(p) /\ (Understood(p) => Wanted(p) = "unknown")
  /\ writes' = writes \cup {[by |-> p, surb |-> None, body |-> ErrorReply]}
  /\ UNCHANGED <<serving, answers>>

(* The request does not decompress, is no HTTP request, or is for an URI   *)
(* not configured.                                                         *)
OnInvalid(p) ==
  /\ Take(p) /\ (Understood(p) => Wanted(p) = "unknown")
  /\ Reply(p, Head(inbox[p]), ErrorReply)
  /\ UNCHANGED serving

Serving(p, stage) == serving[p] # Idle /\ serving[p].stage = stage

Done(p) ==
  /\ serving' = [serving EXCEPT ![p] = Idle]
  /\ UNCHANGED <<wallet, forward, inbox, taken, replies, performed>>

(* The probe's delay is slept in OnCommand. *)
ProbeEnds(p) ==
  /\ Serving(p, "probe")
  /\ Reply(p, serving[p].call, NilReply)
  /\ Done(p)

(* The upstream, of which nothing is known but that it performs a request  *)
(* before it answers.  What the client does to follow a redirect is a part *)
(* of that.                                                                *)
UpstreamPerforms(p) ==
  /\ Serving(p, "sent")
  /\ serving' = [serving EXCEPT ![p].stage = "performed"]
  /\ performed' = [performed EXCEPT ![serving[p].call] = @ + 1]
  /\ UNCHANGED <<wallet, forward, inbox, taken, writes, answers, replies>>

(* A connection that was used before broke with no answer yet, and         *)
(* http.DefaultClient.Do sends the request on another one.                 *)
UpstreamPerformsAgain(p) ==
  LET c == serving[p].call
  IN /\ Serving(p, "performed")
     /\ c \in Replayable /\ performed[c] <= MaxResends
     /\ performed' = [performed EXCEPT ![c] = @ + 1]
     /\ UNCHANGED <<wallet, forward, plugin, replies>>

(* http.DefaultClient.Do or reading the answer failed. *)
UpstreamFails(p) ==
  /\ Serving(p, "sent") \/ Serving(p, "performed")
  /\ Reply(p, serving[p].call, ErrorReply)
  /\ Done(p)

(* Mutant: the error that an answer is too big does not end OnCommand. *)
AnswerAnyway(p, data) ==
  LET c == serving[p].call
      Written(b) == [by |-> p, surb |-> c, body |-> b]
  IN IF data.size > MaxPayloadSize
       THEN /\ writes' = writes \cup {Written(ErrorReply), Written(Payload(data))}
            /\ answers' = [answers EXCEPT ![c] = @ + 2]
       ELSE Reply(p, c, Payload(data))

AnswerWith(p, data) ==
  Reply(p, serving[p].call, IF data.size > MaxPayloadSize THEN ErrorReply ELSE Payload(data))

UpstreamAnswers(p, size) ==
  /\ Serving(p, "performed")
  /\ AnswerWith(p, CompressData(p \in Compressing, Answer(serving[p].call, size)))
  /\ Done(p)

(* Mutant: the goroutine reads the SURB of the command at hand. *)
WriteToCurrent(w) ==
  /\ writes' = writes \ {w}
  /\ replies' = replies \cup
       {IF serving[w.by] = Idle THEN w ELSE [w EXCEPT !.surb = serving[w.by].call]}
  /\ UNCHANGED <<wallet, forward, inbox, serving, taken, answers, performed>>

(* A goroutine of sendError or of OnCommand gets to run. *)
Write(w) ==
  /\ writes' = writes \ {w}
  /\ replies' = replies \cup {w}
  /\ UNCHANGED <<wallet, forward, inbox, serving, taken, answers, performed>>

-----------------------------------------------------------------------------
Caller(c) ==
  \/ RefuseUnparsable(c)
  \/ \E size \in Sizes :
       \/ RefuseTooBig(c, size) \/ NoService(c, size)
       \/ \E target \in Paths, p \in Plugins : SendRequest(c, target, size, p)
  \/ NoReply(c)
  \/ \E m \in replies : m.surb = c /\ Receive(m)

OnCommand(p) == OnProbe(p) \/ OnNetwork(p) \/ OnInvalid(p) \/ ProbeEnds(p)

Upstream(p) ==
  \/ UpstreamPerforms(p) \/ UpstreamPerformsAgain(p) \/ UpstreamFails(p)
  \/ \E size \in Sizes : UpstreamAnswers(p, size)

Next ==
  \/ \E c \in Calls : Caller(c)
  \/ \E c \in Calls, p \in Plugins : Deliver(c, p)
  \/ \E p \in Plugins : OnCommand(p) \/ Upstream(p)
  \/ \E w \in writes : Write(w)

(* A plugin goes on to its next command, and the delay of a probe ends.    *)
(* The mix network may lose or keep any message, the upstream may never    *)
(* answer, and nobody has to take a reply from the goroutine that writes.  *)
Fairness == \A p \in Plugins : WF_vars(OnCommand(p))

Spec == Init /\ [][Next]_vars /\ Fairness

-----------------------------------------------------------------------------
(* A wallet that gets a 200 for the path of a network gets the upstream's  *)
(* answer to the very request it made, decompressed: not that to a request *)
(* another wallet had under way, nor one that came too late for its own,   *)
(* and never what a program built otherwise made of it.  Any other 200 is  *)
(* empty, and none is for a network that is not configured.                *)
AnswerOwn ==
  \A c \in Requests : status[c] = "200" =>
    IF path[c] = "network"
      THEN body[c] # None /\ body[c].of = c /\ ~body[c].flate /\ performed[c] > 0
      ELSE body[c] = None /\ path[c] # "unknown"

(* A request is performed while its wallet waits, or after it gave up on   *)
(* it, but never once it was answered, with an error or not: only a 404    *)
(* leaves open what becomes of a request.  And it is performed once,       *)
(* unless http.Client takes it for one that may be repeated.               *)
PerformedWhileOpen ==
  [][\A c \in Requests : performed'[c] # performed[c] =>
       /\ status[c] \in {"waiting", "404"}
       /\ performed[c] > 0 => c \in Replayable]_vars

(* A SURB carries one reply: whatever way OnCommand takes, a command it    *)
(* returned from was answered on its SURB exactly once.                    *)
SurbUsedOnce ==
  \A c \in Calls :
    answers[c] = IF c \in taken /\ \A p \in Plugins : serving[p].call # c THEN 1 ELSE 0

(* No reply is too long for the message it travels in: the margin of       *)
(* MaxPayloadSize is enough for the encoding of an answer.                 *)
ReplyFits ==
  \A w \in writes : w.body.kind = "payload" =>
    ResponseLength(w.body.data.size) <= UserForwardPayloadLength

(* The one thing that keeps a plugin from its commands is an upstream that *)
(* does not answer: if every request of the plugin ends, so is every       *)
(* command answered that it got, behind however many others, delayed       *)
(* probes and invalid ones among them, and though no reply is taken from   *)
(* it or another plugin is held up for good.                               *)
CommandsAnswered ==
  \A p \in Plugins :
    []<>~(Serving(p, "sent") \/ Serving(p, "performed")) =>
      \A c \in Calls : (\E i \in DOMAIN inbox[p] : inbox[p][i] = c) ~> answers[c] = 1
=============================================================================
