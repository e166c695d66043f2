-------------------------------- MODULE Rtsp --------------------------------
(***************************************************************************)
(* scripts/sink.py: source_connect, the RTSP exchange M1 to M7 with the    *)
(* source and the keepalives after it, over one TCP connection.            *)
(*                                                                         *)
(* TCP keeps the order of the messages, not their boundaries: recv returns *)
(* what has arrived, one message or several (that it returns a part of one *)
(* is left out; all are short).  The code takes what a recv returns for    *)
(* the one message it waits for.  When the source has closed, recv returns *)
(* nothing at the end of the stream; when the source closed with unread    *)
(* data or was sent some afterwards, any call on the socket may raise.     *)
(*                                                                         *)
(* The source is a model of a correct one: it has at most one request      *)
(* unanswered, numbers its requests from 1, and may leave at any moment.   *)
(*                                                                         *)
(* A definition whose comment begins with "Slip" is not part of the        *)
(* specification: put in the place of the one it is named after, it is a   *)
(* plausible mistake that breaks the property it names.                    *)
(***************************************************************************)
EXTENDS Naturals, Sequences, SequencesExt

CONSTANT MaxKeepalives   \* bound: keepalive requests in a connection

ASSUME KeepalivesAssumption == MaxKeepalives \in Nat

VARIABLES
  stage,      \* what the sink's next recv is for; or how the function ended
  cseq,       \* the number of the next keepalive answer
  to_sink, to_source,  \* the two directions of the connection
  source,     \* what the source is doing
  asked,      \* the number of the source's unanswered request, or 0
  last_cseq,  \* the number of the source's last request
  reset,      \* calls on the sink's socket may raise
  merged,     \* auxiliary: some recv returned more than one message
  granted     \* auxiliary: which of SETUP (M6) and PLAY (M7) the source granted

connection == <<to_sink, to_source, source, asked, last_cseq, reset, merged, granted>>
rtspVars   == <<stage, cseq, connection>>

Request(n, c)  == [type |-> "request",  name |-> n, cseq |-> c]
Response(n, c) == [type |-> "response", name |-> n, cseq |-> c]

Names == {"M1", "M2", "M3", "M4", "M5", "M6", "M7", "M16", "TEARDOWN"}

Message == [type : {"request", "response"}, name : Names, cseq : Nat]

Receiving == {"m1_req", "m2_rsp", "m3_req", "m4_req", "m5_req", "m6_rsp",
              "m7_rsp", "keepalive"}

RtspTypeOK ==
  /\ stage \in {"none", "closed", "raised"} \cup Receiving
  /\ cseq \in Nat
  /\ to_sink \in Seq(Message) /\ to_source \in Seq(Message)
  /\ source \in {"away", "talking", "playing", "left"}
  /\ asked \in Nat /\ last_cseq \in Nat
  /\ {reset, merged} \subseteq BOOLEAN /\ granted \subseteq {"M6", "M7"}

RtspInit ==
  /\ stage = "none" /\ cseq = 0
  /\ to_sink = <<>> /\ to_source = <<>>
  /\ source = "away" /\ asked = 0 /\ last_cseq = 0
  /\ reset = FALSE /\ merged = FALSE /\ granted = {}

(* s.close: nothing of the connection is left.                             *)
Forget ==
  /\ stage' = "none" /\ cseq' = 0
  /\ to_sink' = <<>> /\ to_source' = <<>>
  /\ source' = "away" /\ asked' = 0 /\ last_cseq' = 0
  /\ reset' = FALSE /\ merged' = FALSE /\ granted' = {}

(* s.connect: the source accepts and sends M1.                             *)
Open ==
  /\ stage' = "m1_req" /\ UNCHANGED cseq
  /\ to_sink' = <<Request("M1", 1)>> /\ to_source' = <<>>
  /\ source' = "talking" /\ asked' = 1 /\ last_cseq' = 1
  /\ reset' = FALSE /\ merged' = FALSE /\ granted' = {}

-----------------------------------------------------------------------------
(* The sink.                                                               *)

(* Slip, HandshakeCompletes: SETUP is not sent after the answer to M5.     *)
Exchange_NoSetup ==
  [m1_req |-> [says |-> <<Response("M1", 1), Request("M2", 2)>>, next |-> "m2_rsp"],
   m2_rsp |-> [says |-> <<>>, next |-> "m3_req"],
   m3_req |-> [says |-> <<Response("M3", 2)>>, next |-> "m4_req"],
   m4_req |-> [says |-> <<Response("M4", 3)>>, next |-> "m5_req"],
   m5_req |-> [says |-> <<Response("M5", 4)>>, next |-> "m6_rsp"],
   m6_rsp |-> [says |-> <<Request("M7", 5)>>, next |-> "m7_rsp"],
   m7_rsp |-> [says |-> <<>>, next |-> "keepalive"]]

(* What the code sends when the recv of a stage has returned, whatever it  *)
(* returned, and the stage it goes on to.  The numbers are constants.      *)
Exchange ==
  [m1_req |-> [says |-> <<Response("M1", 1), Request("M2", 2)>>, next |-> "m2_rsp"],
   m2_rsp |-> [says |-> <<>>, next |-> "m3_req"],
   m3_req |-> [says |-> <<Response("M3", 2)>>, next |-> "m4_req"],
   m4_req |-> [says |-> <<Response("M4", 3)>>, next |-> "m5_req"],
   m5_req |-> [says |-> <<Response("M5", 4), Request("M6", 4)>>, next |-> "m6_rsp"],
   m6_rsp |-> [says |-> <<Request("M7", 5)>>, next |-> "m7_rsp"],
   m7_rsp |-> [says |-> <<>>, next |-> "keepalive"]]

(* s.recv returns data.                                                    *)
Recv(data) ==
  \/ \E n \in 1 .. Len(to_sink) :
       /\ data = SubSeq(to_sink, 1, n)
       /\ to_sink' = SubSeq(to_sink, n + 1, Len(to_sink))
       /\ merged' = (merged \/ n > 1)
  \/ /\ to_sink = <<>> /\ source = "left"
     /\ data = <<>>
     /\ UNCHANGED <<to_sink, merged>>

(* What recv can return now.                                               *)
Receivable ==
  {SubSeq(to_sink, 1, n) : n \in 1 .. Len(to_sink)}
    \cup (IF to_sink = <<>> /\ source = "left" THEN {<<>>} ELSE {})

(* s.send: data for a source that has left makes it reset the connection.  *)
Send(msgs) ==
  IF source = "left"
  THEN /\ reset' = (reset \/ msgs # <<>>)
       /\ UNCHANGED to_source
  ELSE /\ to_source' = to_source \o msgs
       /\ UNCHANGED reset

Carries(data, n) == \E i \in DOMAIN data : data[i].name = n

(* Slip, PlayGranted: no session number is needed to send PLAY.            *)
HasSession_Unchecked(data) == TRUE

(* re.search finds the session number that the answer to SETUP carries.    *)
HasSession(data) == Carries(data, "M6")

Shake ==
  /\ stage \in DOMAIN Exchange
  /\ \E data \in Receivable :
       /\ Recv(data)
       /\ stage = "m6_rsp" => HasSession(data)
       /\ Send(Exchange[stage].says)
       /\ stage' = Exchange[stage].next
       /\ cseq' = IF stage' = "keepalive" THEN 5 ELSE cseq
  /\ UNCHANGED <<source, asked, last_cseq, granted>>

(* match.group(1) of None.                                                 *)
NoSession ==
  /\ stage = "m6_rsp"
  /\ \E data \in Receivable : Recv(data) /\ ~ HasSession(data)
  /\ stage' = "raised"
  /\ UNCHANGED <<cseq, to_source, source, asked, last_cseq, reset, granted>>

(* Slip, AnswersInTurn: cseq is not counted on.                            *)
Keepalive_SameNumber ==
  /\ stage = "keepalive"
  /\ \E data \in Receivable :
       /\ Recv(data)
       /\ data # <<>> /\ ~ Carries(data, "TEARDOWN")
  /\ Send(<<Response("M16", cseq)>>)
  /\ UNCHANGED <<stage, cseq, source, asked, last_cseq, granted>>

(* Any request is answered as a keepalive.                                 *)
Keepalive ==
  /\ stage = "keepalive"
  /\ \E data \in Receivable :
       /\ Recv(data)
       /\ data # <<>> /\ ~ Carries(data, "TEARDOWN")
  /\ Send(<<Response("M16", cseq)>>)
  /\ cseq' = cseq + 1
  /\ UNCHANGED <<stage, source, asked, last_cseq, granted>>

(* Slip, BackAtTheTop: the end of the stream is not taken for the end.     *)
IsEnd_TeardownOnly(data) == Carries(data, "TEARDOWN")

(* The stream is at its end, or the source tears the session down.         *)
IsEnd(data) == data = <<>> \/ Carries(data, "TEARDOWN")

Finish ==
  /\ stage = "keepalive"
  /\ \E data \in Receivable : Recv(data) /\ IsEnd(data)
  /\ stage' = "closed"
  /\ UNCHANGED <<cseq, to_source, source, asked, last_cseq, reset, granted>>

(* A call on a socket that was reset raises; nothing catches it.           *)
Raise ==
  /\ stage \in Receiving
  /\ reset
  /\ stage' = "raised"
  /\ UNCHANGED <<cseq, connection>>

Sink == Shake \/ NoSession \/ Keepalive \/ Finish \/ Raise

-----------------------------------------------------------------------------
(* The source.                                                             *)
Say(msgs, c) ==
  /\ to_sink' = to_sink \o msgs
  /\ last_cseq' = c
  /\ UNCHANGED <<stage, cseq, reset, merged>>

(* What the source sends on a message of the sink; its own next request    *)
(* has the number after last_cseq.                                         *)
Follow(m) ==
  LET next == last_cseq + 1
  IN  CASE m = Request("M2", 2)  -> <<Response("M2", 2), Request("M3", next)>>
        [] m = Response("M3", 2) -> <<Request("M4", next)>>
        [] m = Response("M4", 3) -> <<Request("M5", next)>>
        [] m = Request("M6", 4)  -> <<Response("M6", 4)>>
        [] m = Request("M7", 5)  -> <<Response("M7", 5)>>
        [] OTHER -> <<>>

SourceReact ==
  /\ source \in {"talking", "playing"}
  /\ to_source # <<>>
  /\ LET m == Head(to_source)
         asks == \E i \in DOMAIN Follow(m) : Follow(m)[i].type = "request"
     IN  /\ to_source' = Tail(to_source)
         /\ Say(Follow(m), IF asks THEN last_cseq + 1 ELSE last_cseq)
         /\ asked' = IF asks THEN last_cseq + 1
                     ELSE IF m = Response(m.name, asked) THEN 0 ELSE asked
         /\ source' = IF m.name = "M7" THEN "playing" ELSE source
         /\ granted' = granted \cup ({m.name} \cap {"M6", "M7"})

SourceKeepalive ==
  /\ source = "playing" /\ asked = 0
  /\ last_cseq < 4 + MaxKeepalives
  /\ asked' = last_cseq + 1
  /\ Say(<<Request("M16", last_cseq + 1)>>, last_cseq + 1)
  /\ UNCHANGED <<to_source, source, granted>>

(* Unread data in the source's buffer resets the connection.               *)
SourceLeaves ==
  /\ source \in {"talking", "playing"}
  /\ \/ to_sink' = to_sink
     \/ /\ source = "playing"
        /\ to_sink' = Append(to_sink, Request("TEARDOWN", last_cseq + 1))
  /\ source' = "left"
  /\ reset' = (to_source # <<>>)
  /\ UNCHANGED <<stage, cseq, to_source, asked, last_cseq, merged, granted>>

Source == SourceReact \/ SourceKeepalive \/ SourceLeaves

-----------------------------------------------------------------------------
(* PLAY is asked for only after the source granted SETUP, and the loop of  *)
(* keepalives is entered only with PLAY granted, or for a source that has  *)
(* left: whatever was merged, and whenever the source leaves.              *)
PlayGranted ==
  /\ stage \in {"m7_rsp", "keepalive"} => "M6" \in granted
  /\ stage = "keepalive" => "M7" \in granted \/ source = "left"

(* Every response under way to a source that is there bears the number of  *)
(* the request it has open: the fixed numbers, the count of the keepalives *)
(* and the merging of messages never put the two sides out of step.        *)
AnswersInTurn ==
  source \in {"talking", "playing"} =>
    \A i \in DOMAIN to_source :
      to_source[i].type = "response" => to_source[i].cseq = asked

(* If no two messages are merged and the source stays, the sink plays.     *)
HandshakeCompletes ==
  stage = "m1_req" ~> stage = "keepalive" \/ merged \/ source = "left"
=============================================================================
