---------------------------- MODULE SessionProofs ----------------------------
(***************************************************************************)
(* Proofs about Session, the loop of scripts/piracast.py with the RTSP     *)
(* exchange of scripts/sink.py inside, for any number of sources, of       *)
(* requests, leases and keepalives.                                        *)
(*                                                                         *)
(* AnswersInTurn is not inductive: that an answer bears the right number   *)
(* depends on which request the source has open, and that on all the       *)
(* messages that were sent.  InStep says it: while the source is there,    *)
(* the stage of the sink leaves only a few places at which the             *)
(* conversation can be, each with what is on its way in both directions    *)
(* and the numbers on both sides (AtM1 to AtPlay).  That recv may merge    *)
(* messages shows in the places where nothing is left to receive although  *)
(* a request is open: at M3 and in the loop of keepalives the sink has     *)
(* taken that request together with the message before it.                 *)
(*                                                                         *)
(* DiesForAReason needs what the lease file says: Fresh.                   *)
(***************************************************************************)
EXTENDS Session, SequenceLemmas

(* The source is there.                                                    *)
There == source \in {"talking", "playing"}

(* What is on its way to the sink and to the source, the open request and  *)
(* the last number of the source.                                          *)
Conv(ts, tq, a, l) ==
  /\ to_sink = ts /\ to_source = tq /\ asked = a /\ last_cseq = l

(* The places of the conversation, by the stage of the sink.               *)
AtM1 == Conv(<<Request("M1", 1)>>, <<>>, 1, 1)

AtM2 == \/ Conv(<<>>, <<Response("M1", 1), Request("M2", 2)>>, 1, 1)
        \/ Conv(<<>>, <<Request("M2", 2)>>, 0, 1)
        \/ Conv(<<Response("M2", 2), Request("M3", 2)>>, <<>>, 2, 2)

AtM3 == \/ Conv(<<Request("M3", 2)>>, <<>>, 2, 2)
        \/ Conv(<<>>, <<>>, 2, 2)

AtM4 == \/ Conv(<<>>, <<Response("M3", 2)>>, 2, 2)
        \/ Conv(<<Request("M4", 3)>>, <<>>, 3, 3)

AtM5 == \/ Conv(<<>>, <<Response("M4", 3)>>, 3, 3)
        \/ Conv(<<Request("M5", 4)>>, <<>>, 4, 4)

AtM6 == \/ Conv(<<>>, <<Response("M5", 4), Request("M6", 4)>>, 4, 4)
        \/ Conv(<<>>, <<Request("M6", 4)>>, 0, 4)
        \/ Conv(<<Response("M6", 4)>>, <<>>, 0, 4)

AtM7 == \/ Conv(<<>>, <<Request("M7", 5)>>, 0, 4) /\ source = "talking"
        \/ Conv(<<Response("M7", 5)>>, <<>>, 0, 4) /\ source = "playing"
        \/ Conv(<<Response("M7", 5), Request("M16", 5)>>, <<>>, 5, 5) /\ source = "playing"

AtPlay ==
  /\ last_cseq >= 4
  /\ \/ Conv(<<>>, <<>>, 0, last_cseq) /\ cseq = last_cseq + 1
     \/ Conv(<<Request("M16", last_cseq)>>, <<>>, last_cseq, last_cseq) /\ cseq = last_cseq
     \/ Conv(<<>>, <<Response("M16", last_cseq)>>, last_cseq, last_cseq)
          /\ cseq = last_cseq + 1
     \/ Conv(<<>>, <<>>, last_cseq, last_cseq)

(* The stages before PLAY.                                                 *)
Early == {"m1_req", "m2_rsp", "m3_req", "m4_req", "m5_req", "m6_rsp"}

InStep ==
  There =>
    /\ ~ reset /\ stage \in Receiving
    /\ stage \in Early => source = "talking"
    /\ stage = "keepalive" => source = "playing"
    /\ source = "playing" => "M7" \in granted
    /\ stage = "m1_req" => AtM1
    /\ stage = "m2_rsp" => AtM2
    /\ stage = "m3_req" => AtM3
    /\ stage = "m4_req" => AtM4
    /\ stage = "m5_req" => AtM5
    /\ stage = "m6_rsp" => AtM6
    /\ stage = "m7_rsp" => AtM7
    /\ stage = "keepalive" => AtPlay

(* PLAY follows a granted SETUP, also when the source has left.            *)
SetUp ==
  /\ stage \in {"m7_rsp", "keepalive"} => "M6" \in granted
  /\ Carries(to_sink, "M6") => "M6" \in granted

RtspInv == RtspTypeOK /\ InStep /\ SetUp /\ (stage = "none" <=> source = "away")

(* Where the script is tells whether there is a connection.                *)
Called ==
  /\ pc \notin {"rtsp", "dead"} => stage = "none"
  /\ pc = "rtsp" => stage # "none"
  /\ pc = "dead" => stage = "raised" \/ (stage = "none" /\ renewed)

(* The part of the loop in which stations associate and get addresses.     *)
Admitting == {"disable", "enable", "poll", "scan", "nego", "hostapd", "wps", "station",
              "lease", "connect"}

(* Leases written since the time stamp are leases of stations of the       *)
(* present access point, and so is the one the script reads, unless a      *)
(* lease was written before the last access point was killed.              *)
Fresh ==
  /\ prev_ts <= Len(leases) /\ Len(leases) <= MaxLeases
  /\ ~ renewed =>
       /\ pc = "killall" => Len(leases) = prev_ts
       /\ pc \in Admitting => \A i \in prev_ts + 1 .. Len(leases) : leases[i] \in stations
       /\ pc = "connect" => ip \in stations

IInv == TypeOK /\ RtspInv /\ Called /\ Fresh

-----------------------------------------------------------------------------
(* Short sequences.                                                        *)
LEMMA One ==
  ASSUME NEW S, NEW a \in S
  PROVE  /\ <<a>> \in Seq(S) /\ Len(<<a>>) = 1 /\ <<a>>[1] = a
         /\ <<>> \o <<a>> = <<a>> /\ Head(<<a>>) = a /\ Tail(<<a>>) = <<>>
         /\ SubSeq(<<a>>, 1, 1) = <<a>> /\ SubSeq(<<a>>, 2, 1) = <<>>
<1>1. <<a>> \in Seq(S) /\ Len(<<a>>) = 1 /\ <<a>>[1] = a
  OBVIOUS
<1>2. <<>> \o <<a>> = <<a>> /\ Head(<<a>>) = a /\ Tail(<<a>>) = <<>>
  OBVIOUS
<1> DEFINE s == <<a>>
<1>3. s \in Seq(S) /\ Len(s) = 1
  BY <1>1
<1> HIDE DEF s
<1>4. SubSeq(s, 1, Len(s)) = s
  BY <1>3, SubSeqFull
<1>5. SubSeq(s, 2, 1) = <<>>
  BY SubSeqEmpty
<1> QED
  BY <1>1, <1>2, <1>3, <1>4, <1>5 DEF s

LEMMA Two ==
  ASSUME NEW S, NEW a \in S, NEW b \in S
  PROVE  /\ <<a, b>> \in Seq(S) /\ Len(<<a, b>>) = 2 /\ <<a, b>>[1] = a /\ <<a, b>>[2] = b
         /\ <<>> \o <<a, b>> = <<a, b>> /\ <<a>> \o <<b>> = <<a, b>>
         /\ Head(<<a, b>>) = a /\ Tail(<<a, b>>) = <<b>>
         /\ SubSeq(<<a, b>>, 1, 1) = <<a>> /\ SubSeq(<<a, b>>, 2, 2) = <<b>>
         /\ SubSeq(<<a, b>>, 1, 2) = <<a, b>> /\ SubSeq(<<a, b>>, 3, 2) = <<>>
<1>1. <<a, b>> \in Seq(S) /\ Len(<<a, b>>) = 2 /\ <<a, b>>[1] = a /\ <<a, b>>[2] = b
  OBVIOUS
<1>2. <<>> \o <<a, b>> = <<a, b>> /\ Head(<<a, b>>) = a /\ Tail(<<a, b>>) = <<b>>
  OBVIOUS
<1>3. <<a>> \in Seq(S) /\ Len(<<a>>) = 1 /\ <<a>>[1] = a
  BY One
<1>4. <<b>> \in Seq(S) /\ Len(<<b>>) = 1 /\ <<b>>[1] = b
  BY One
<1> DEFINE s == <<a, b>>
           x == <<a>>
           y == <<b>>
<1>5. /\ s \in Seq(S) /\ Len(s) = 2 /\ s[1] = a /\ s[2] = b
      /\ x \in Seq(S) /\ Len(x) = 1 /\ x[1] = a
      /\ y \in Seq(S) /\ Len(y) = 1 /\ y[1] = b
  BY <1>1, <1>3, <1>4
<1> HIDE DEF s, x, y
<1>6. x \o y = s
  <2>1. /\ x \o y \in Seq(S) /\ Len(x \o y) = Len(x) + Len(y)
        /\ \A i \in 1 .. Len(x) + Len(y) :
             (x \o y)[i] = IF i <= Len(x) THEN x[i] ELSE y[i - Len(x)]
    BY <1>5, ConcatProperties
  <2>2. Len(x \o y) = Len(s) /\ \A i \in 1 .. Len(x \o y) : i = 1 \/ i = 2
    BY <1>5, <2>1
  <2>3. (x \o y)[1] = s[1] /\ (x \o y)[2] = s[2]
    <3>1. 1 \in 1 .. Len(x) + Len(y) /\ 2 \in 1 .. Len(x) + Len(y)
      BY <1>5
    <3> QED
      BY <1>5, <2>1, <3>1
  <2>4. \A i \in 1 .. Len(x \o y) : (x \o y)[i] = s[i]
    BY <2>2, <2>3
  <2> QED
    BY <1>5, <2>1, <2>2, <2>4, SeqEqual
<1>7. SubSeq(s, 1, 2) = s
  BY <1>5, SubSeqFull
<1>8. SubSeq(s, 3, 2) = <<>>
  BY SubSeqEmpty
<1>9. SubSeq(s, 1, 1) = x
  <2>1. 1 \in Int /\ \A i \in 1 .. 1 : s[i] \in S
    BY <1>5
  <2>2. /\ SubSeq(s, 1, 1) \in Seq(S) /\ Len(SubSeq(s, 1, 1)) = 1
        /\ \A i \in 1 .. 1 : SubSeq(s, 1, 1)[i] = s[i]
    <3>1. /\ SubSeq(s, 1, 1) \in Seq(S)
          /\ Len(SubSeq(s, 1, 1)) = IF 1 <= 1 THEN 1 - 1 + 1 ELSE 0
          /\ \A i \in 1 .. 1 - 1 + 1 : SubSeq(s, 1, 1)[i] = s[1 + i - 1]
      BY <2>1, SubSeqProperties
    <3> QED
      BY <3>1
  <2>3. Len(SubSeq(s, 1, 1)) = Len(x) /\ \A i \in 1 .. Len(SubSeq(s, 1, 1)) : i = 1
    BY <1>5, <2>2
  <2>4. \A i \in 1 .. Len(SubSeq(s, 1, 1)) : SubSeq(s, 1, 1)[i] = x[i]
    BY <1>5, <2>2, <2>3
  <2> QED
    BY <1>5, <2>2, <2>3, <2>4, SeqEqual
<1>10. SubSeq(s, 2, 2) = y
  <2>1. 2 \in Int /\ \A i \in 2 .. 2 : s[i] \in S
    BY <1>5
  <2>2. /\ SubSeq(s, 2, 2) \in Seq(S) /\ Len(SubSeq(s, 2, 2)) = 1
        /\ SubSeq(s, 2, 2)[1] = s[2]
    <3>1. /\ SubSeq(s, 2, 2) \in Seq(S)
          /\ Len(SubSeq(s, 2, 2)) = IF 2 <= 2 THEN 2 - 2 + 1 ELSE 0
          /\ \A i \in 1 .. 2 - 2 + 1 : SubSeq(s, 2, 2)[i] = s[2 + i - 1]
      BY <2>1, SubSeqProperties
    <3> QED
      BY <3>1
  <2>3. Len(SubSeq(s, 2, 2)) = Len(y) /\ \A i \in 1 .. Len(SubSeq(s, 2, 2)) : i = 1
    BY <1>5, <2>2
  <2>4. \A i \in 1 .. Len(SubSeq(s, 2, 2)) : SubSeq(s, 2, 2)[i] = y[i]
    BY <1>5, <2>2, <2>3
  <2> QED
    BY <1>5, <2>2, <2>3, <2>4, SeqEqual
<1> QED
  BY <1>1, <1>2, <1>6, <1>7, <1>8, <1>9, <1>10 DEF s, x, y

-----------------------------------------------------------------------------
LEMMA Messages ==
  \A n \in Names, c \in Nat : Request(n, c) \in Message /\ Response(n, c) \in Message
BY DEF Request, Response, Message

LEMMA RecvNone ==
  ASSUME to_sink = <<>>, source # "left", NEW data PROVE ~ Recv(data)
<1>1. Len(to_sink) = 0
  BY EmptyElements
<1> QED
  BY <1>1 DEF Recv

LEMMA RecvOne ==
  ASSUME NEW m \in Message, to_sink = <<m>>, NEW data, Recv(data)
  PROVE  data = <<m>> /\ to_sink' = <<>>
<1>1. Len(to_sink) = 1 /\ to_sink # <<>>
  BY One, EmptyElements
<1>2. PICK n \in 1 .. Len(to_sink) :
        /\ data = SubSeq(to_sink, 1, n)
        /\ to_sink' = SubSeq(to_sink, n + 1, Len(to_sink))
  BY <1>1 DEF Recv
<1>3. n = 1 /\ n + 1 = 2
  BY <1>1
<1> QED
  BY <1>1, <1>2, <1>3, One

LEMMA RecvTwo ==
  ASSUME NEW a \in Message, NEW b \in Message, to_sink = <<a, b>>, NEW data, Recv(data)
  PROVE  \/ data = <<a>> /\ to_sink' = <<b>>
         \/ data = <<a, b>> /\ to_sink' = <<>>
<1>1. Len(to_sink) = 2 /\ to_sink # <<>>
  BY Two, EmptyElements
<1>2. PICK n \in 1 .. Len(to_sink) :
        /\ data = SubSeq(to_sink, 1, n)
        /\ to_sink' = SubSeq(to_sink, n + 1, Len(to_sink))
  BY <1>1 DEF Recv
<1>3. n = 1 \/ n = 2
  BY <1>1
<1>4. /\ SubSeq(<<a, b>>, 1, 1) = <<a>> /\ SubSeq(<<a, b>>, 2, 2) = <<b>>
      /\ SubSeq(<<a, b>>, 1, 2) = <<a, b>> /\ SubSeq(<<a, b>>, 3, 2) = <<>>
  BY Two, ZenonT(60)
<1>5. /\ data = SubSeq(<<a, b>>, 1, n)
      /\ to_sink' = SubSeq(<<a, b>>, n + 1, 2)
  BY <1>1, <1>2
<1>6. CASE n = 1
  <2>1. n + 1 = 2
    BY <1>6
  <2>2. data = SubSeq(<<a, b>>, 1, 1) /\ to_sink' = SubSeq(<<a, b>>, 2, 2)
    BY <1>5, <1>6, <2>1
  <2> QED
    BY <1>4, <2>2
<1>7. CASE n = 2
  <2>1. n + 1 = 3
    BY <1>7
  <2>2. data = SubSeq(<<a, b>>, 1, 2) /\ to_sink' = SubSeq(<<a, b>>, 3, 2)
    BY <1>5, <1>7, <2>1
  <2> QED
    BY <1>4, <2>2
<1> QED
  BY <1>3, <1>6, <1>7
-----------------------------------------------------------------------------
(* What a correct source makes of a message of the sink.                   *)
LEMMA Followed ==
  /\ \A c \in Nat : Follow(Response("M1", c)) = <<>>
  /\ Follow(Request("M2", 2)) = <<Response("M2", 2), Request("M3", last_cseq + 1)>>
  /\ Follow(Response("M3", 2)) = <<Request("M4", last_cseq + 1)>>
  /\ Follow(Response("M4", 3)) = <<Request("M5", last_cseq + 1)>>
  /\ \A c \in Nat : Follow(Response("M5", c)) = <<>>
  /\ Follow(Request("M6", 4)) = <<Response("M6", 4)>>
  /\ Follow(Request("M7", 5)) = <<Response("M7", 5)>>
  /\ \A c \in Nat : Follow(Response("M16", c)) = <<>>
<1>1. \A c \in Nat : Follow(Response("M1", c)) = <<>>
  BY DEF Follow, Request, Response
<1>2. Follow(Request("M2", 2)) = <<Response("M2", 2), Request("M3", last_cseq + 1)>>
  BY DEF Follow, Request, Response
<1>3. Follow(Response("M3", 2)) = <<Request("M4", last_cseq + 1)>>
  BY DEF Follow, Request, Response
<1>4. Follow(Response("M4", 3)) = <<Request("M5", last_cseq + 1)>>
  BY DEF Follow, Request, Response
<1>5. \A c \in Nat : Follow(Response("M5", c)) = <<>>
  BY DEF Follow, Request, Response
<1>6. Follow(Request("M6", 4)) = <<Response("M6", 4)>>
  BY DEF Follow, Request, Response
<1>7. Follow(Request("M7", 5)) = <<Response("M7", 5)>>
  BY DEF Follow, Request, Response
<1>8. \A c \in Nat : Follow(Response("M16", c)) = <<>>
  BY DEF Follow, Request, Response
<1> QED
  BY <1>1, <1>2, <1>3, <1>4, <1>5, <1>6, <1>7, <1>8

LEMMA FollowIsAny ==
  ASSUME RtspTypeOK, NEW m
  PROVE  \/ Follow(m) = <<>>
         \/ \E c \in Nat : Follow(m) \in {<<Request("M4", c)>>, <<Request("M5", c)>>}
         \/ \E c \in Nat : Follow(m) = <<Response("M2", 2), Request("M3", c)>>
         \/ Follow(m) = <<Response("M6", 4)>> /\ m.name = "M6"
         \/ Follow(m) = <<Response("M7", 5)>> /\ m.name = "M7"
<1>1. last_cseq + 1 \in Nat
  BY DEF RtspTypeOK
<1>2. CASE m \in {Request("M2", 2), Response("M3", 2), Response("M4", 3)}
  BY <1>1, <1>2, Followed
<1>3. CASE m = Request("M6", 4)
  <2>1. m.name = "M6"
    BY <1>3 DEF Request
  <2> QED
    BY <1>3, <2>1, Followed
<1>4. CASE m = Request("M7", 5)
  <2>1. m.name = "M7"
    BY <1>4 DEF Request
  <2> QED
    BY <1>4, <2>1, Followed
<1>5. CASE /\ m \notin {Request("M2", 2), Response("M3", 2), Response("M4", 3)}
           /\ m # Request("M6", 4) /\ m # Request("M7", 5)
  BY <1>5 DEF Follow
<1> QED
  BY <1>2, <1>3, <1>4, <1>5

LEMMA FollowIsSeq ==
  ASSUME RtspTypeOK, NEW m PROVE Follow(m) \in Seq(Message)
<1>1. \A c \in Nat : /\ <<Request("M4", c)>> \in Seq(Message)
                     /\ <<Request("M5", c)>> \in Seq(Message)
  BY Messages, One DEF Names
<1>2. \A c \in Nat : <<Response("M2", 2), Request("M3", c)>> \in Seq(Message)
  BY Messages, Two DEF Names
<1>3. <<Response("M6", 4)>> \in Seq(Message) /\ <<Response("M7", 5)>> \in Seq(Message)
  BY Messages, One DEF Names
<1>4. <<>> \in Seq(Message)
  OBVIOUS
<1> QED
  BY <1>1, <1>2, <1>3, <1>4, FollowIsAny

LEMMA Reacted ==
  ASSUME RtspTypeOK, SourceReact, NEW m, m = Head(to_source)
  PROVE  /\ There /\ to_source # <<>> /\ to_source' = Tail(to_source)
         /\ to_sink' = to_sink \o Follow(m)
         /\ UNCHANGED <<stage, cseq, reset, merged>>
         /\ source' = IF m.name = "M7" THEN "playing" ELSE source
         /\ granted' = granted \cup ({m.name} \cap {"M6", "M7"})
         /\ last_cseq' \in {last_cseq, last_cseq + 1}
         /\ asked' \in {0, asked, last_cseq + 1}
         /\ Follow(m) = <<>> =>
              /\ last_cseq' = last_cseq
              /\ asked' = IF m = Response(m.name, asked) THEN 0 ELSE asked
         /\ \A x \in Message : Follow(m) = <<x>> =>
              /\ x.type = "request" => last_cseq' = last_cseq + 1 /\ asked' = last_cseq + 1
              /\ x.type # "request" =>
                   /\ last_cseq' = last_cseq
                   /\ asked' = IF m = Response(m.name, asked) THEN 0 ELSE asked
         /\ \A x, y \in Message : Follow(m) = <<x, y>> /\ y.type = "request" =>
              last_cseq' = last_cseq + 1 /\ asked' = last_cseq + 1
<1> DEFINE f == Follow(m)
           asks == \E i \in DOMAIN f : f[i].type = "request"
<1>1. /\ There /\ to_source # <<>> /\ to_source' = Tail(to_source)
      /\ to_sink' = to_sink \o f
      /\ UNCHANGED <<stage, cseq, reset, merged>>
      /\ source' = IF m.name = "M7" THEN "playing" ELSE source
      /\ granted' = granted \cup ({m.name} \cap {"M6", "M7"})
      /\ last_cseq' = IF asks THEN last_cseq + 1 ELSE last_cseq
      /\ asked' = IF asks THEN last_cseq + 1
                  ELSE IF m = Response(m.name, asked) THEN 0 ELSE asked
  BY DEF SourceReact, Say, There
<1>2. f = <<>> => ~ asks
  OBVIOUS
<1>3. ASSUME NEW x \in Message, f = <<x>>
      PROVE  asks <=> x.type = "request"
  <2>1. DOMAIN f = {1} /\ f[1] = x
    BY <1>3
  <2> QED
    BY <2>1
<1>4. ASSUME NEW x \in Message, NEW y \in Message, f = <<x, y>>, y.type = "request"
      PROVE  asks
  <2>1. 2 \in DOMAIN f /\ f[2] = y
    BY <1>4
  <2> QED
    BY <1>4, <2>1
<1> HIDE DEF asks
<1>5. /\ last_cseq' \in {last_cseq, last_cseq + 1}
      /\ asked' \in {0, asked, last_cseq + 1}
  BY <1>1
<1>6. f = <<>> =>
        /\ last_cseq' = last_cseq
        /\ asked' = IF m = Response(m.name, asked) THEN 0 ELSE asked
  BY <1>1, <1>2
<1> HIDE DEF f
<1>7. \A x \in Message : f = <<x>> =>
        /\ x.type = "request" => last_cseq' = last_cseq + 1 /\ asked' = last_cseq + 1
        /\ x.type # "request" =>
             /\ last_cseq' = last_cseq
             /\ asked' = IF m = Response(m.name, asked) THEN 0 ELSE asked
  BY <1>1, <1>3
<1>8. \A x, y \in Message : f = <<x, y>> /\ y.type = "request" =>
        last_cseq' = last_cseq + 1 /\ asked' = last_cseq + 1
  BY <1>1, <1>4
<1> QED
  BY <1>1, <1>5, <1>6, <1>7, <1>8 DEF f
LEMMA Kinds ==
  \A n, c : /\ Request(n, c).type = "request" /\ Response(n, c).type = "response"
            /\ Request(n, c).name = n /\ Response(n, c).name = n
            /\ Request(n, c).cseq = c /\ Response(n, c).cseq = c
            /\ \A k, d : /\ Request(n, c) # Response(k, d)
                         /\ Response(n, c) = Response(k, d) => c = d
BY DEF Request, Response

-----------------------------------------------------------------------------
(* A step of the source while it is there, message by message.             *)

(* It takes an answer that calls for nothing more.                         *)
LEMMA TakesAnswer ==
  ASSUME RtspTypeOK, SourceReact, NEW n \in {"M1", "M5", "M16"},
         NEW rest \in Seq(Message),
         Head(to_source) = Response(n, asked), Tail(to_source) = rest
  PROVE  /\ to_source' = rest /\ to_sink' = to_sink /\ asked' = 0
         /\ last_cseq' = last_cseq /\ source' = source /\ granted' = granted
         /\ UNCHANGED <<stage, cseq, reset>>
<1> DEFINE m == Response(n, asked)
<1>1. m = Head(to_source) /\ Follow(m) = <<>> /\ m.name = n
  BY Followed, Kinds DEF RtspTypeOK
<1>2. to_sink \o <<>> = to_sink
  BY ConcatEmptySeq DEF RtspTypeOK
<1>3. m = Response(m.name, asked) /\ m.name \notin {"M6", "M7"}
  BY <1>1
<1> HIDE DEF m
<1> QED
  BY <1>1, <1>2, <1>3, Reacted, ZenonT(60)

(* It answers a request with one message, or follows an answer up with a   *)
(* request of its own.                                                     *)
LEMMA SaysOne ==
  ASSUME RtspTypeOK, SourceReact, NEW m, NEW x \in Message, m = Head(to_source),
         Tail(to_source) = <<>>, to_sink = <<>>, Follow(m) = <<x>>
  PROVE  /\ to_source' = <<>> /\ to_sink' = <<x>>
         /\ UNCHANGED <<stage, cseq, reset>>
         /\ x.type = "request" => last_cseq' = last_cseq + 1 /\ asked' = last_cseq + 1
         /\ x.type # "request" /\ m.type = "request" =>
              last_cseq' = last_cseq /\ asked' = asked
         /\ source' = IF m.name = "M7" THEN "playing" ELSE source
<1>1. <<>> \o <<x>> = <<x>>
  BY One
<1>2. m.type = "request" => m # Response(m.name, asked)
  BY Kinds
<1>3. /\ to_source' = Tail(to_source) /\ to_sink' = to_sink \o Follow(m)
      /\ UNCHANGED <<stage, cseq, reset>>
      /\ source' = IF m.name = "M7" THEN "playing" ELSE source
  BY Reacted
<1>4. /\ x.type = "request" => last_cseq' = last_cseq + 1 /\ asked' = last_cseq + 1
      /\ x.type # "request" =>
           /\ last_cseq' = last_cseq
           /\ asked' = IF m = Response(m.name, asked) THEN 0 ELSE asked
  BY Reacted
<1> QED
  BY <1>1, <1>2, <1>3, <1>4

(* It answers M2 and asks M3 at once.                                      *)
LEMMA SaysTwo ==
  ASSUME RtspTypeOK, SourceReact, NEW m, NEW x \in Message, NEW y \in Message,
         m = Head(to_source), Tail(to_source) = <<>>, to_sink = <<>>,
         Follow(m) = <<x, y>>, y.type = "request", m.name # "M7"
  PROVE  /\ to_source' = <<>> /\ to_sink' = <<x, y>>
         /\ UNCHANGED <<stage, cseq, reset>>
         /\ last_cseq' = last_cseq + 1 /\ asked' = last_cseq + 1
         /\ source' = source
<1>1. <<>> \o <<x, y>> = <<x, y>>
  BY Two
<1>2. /\ to_source' = Tail(to_source) /\ to_sink' = to_sink \o Follow(m)
      /\ UNCHANGED <<stage, cseq, reset>>
      /\ source' = IF m.name = "M7" THEN "playing" ELSE source
  BY Reacted
<1>3. last_cseq' = last_cseq + 1 /\ asked' = last_cseq + 1
  BY Reacted
<1> QED
  BY <1>1, <1>2, <1>3

-----------------------------------------------------------------------------
(* The source answers or follows up: the conversation goes one place on    *)
(* within the sink's stage.                                                *)
LEMMA ReactInStep ==
  ASSUME RtspTypeOK, InStep, SourceReact PROVE InStep'
<1> DEFINE m == Head(to_source)
<1>1. /\ There /\ to_source # <<>> /\ stage' = stage /\ reset' = reset
      /\ source' = IF m.name = "M7" THEN "playing" ELSE source
      /\ granted' = granted \cup ({m.name} \cap {"M6", "M7"})
  <2> HIDE DEF m
  <2> QED
    BY Reacted DEF m
<1>2. /\ ~ reset /\ stage \in Receiving
      /\ stage \in Early => source = "talking"
      /\ stage = "keepalive" => source = "playing"
      /\ source = "playing" => "M7" \in granted
  BY <1>1 DEF InStep
<1>3. source' = "playing" => "M7" \in granted'
  BY <1>1, <1>2
<1>4. ~ reset' /\ stage' \in Receiving /\ (stage' = "keepalive" => source' = "playing")
  BY <1>1, <1>2
<1>5. CASE stage = "m1_req"
  BY <1>1, <1>5 DEF InStep, AtM1, Conv
<1>6. CASE stage = "m2_rsp"
  <2>1. AtM2
    BY <1>1, <1>6 DEF InStep
  <2>2. CASE Conv(<<>>, <<Response("M1", 1), Request("M2", 2)>>, 1, 1)
    <3>1. /\ Head(to_source) = Response("M1", asked)
          /\ Tail(to_source) = <<Request("M2", 2)>>
          /\ <<Request("M2", 2)>> \in Seq(Message)
      BY <2>2, Messages, One, Two DEF Conv, Names
    <3>2. /\ to_source' = <<Request("M2", 2)>> /\ to_sink' = to_sink /\ asked' = 0
          /\ last_cseq' = last_cseq /\ source' = source
      BY <3>1, TakesAnswer
    <3>3. AtM2'
      BY <2>2, <3>2 DEF AtM2, Conv
    <3> QED
      BY <1>1, <1>2, <1>3, <1>4, <1>6, <3>2, <3>3 DEF InStep, Early
  <2>3. CASE Conv(<<>>, <<Request("M2", 2)>>, 0, 1)
    <3> DEFINE n == Request("M2", 2)
               x == Response("M2", 2)
               y == Request("M3", 2)
    <3>1. Head(to_source) = n /\ Tail(to_source) = <<>>
      BY <2>3, Messages, One DEF Conv, Names
    <3>2. x \in Message /\ y \in Message /\ y.type = "request" /\ n.name # "M7"
      BY Messages, Kinds DEF Names
    <3>3. last_cseq = 1 /\ last_cseq + 1 = 2 /\ to_sink = <<>>
      BY <2>3 DEF Conv
    <3>4. Follow(n) = <<x, y>>
      BY <3>3, Followed
    <3> HIDE DEF n, x, y
    <3>5. /\ to_source' = <<>> /\ to_sink' = <<x, y>>
          /\ last_cseq' = last_cseq + 1 /\ asked' = last_cseq + 1 /\ source' = source
      BY <3>1, <3>2, <3>3, <3>4, SaysTwo
    <3>6. AtM2'
      BY <3>3, <3>5 DEF AtM2, Conv, x, y
    <3> QED
      BY <1>1, <1>2, <1>3, <1>4, <1>6, <3>5, <3>6 DEF InStep, Early
  <2>4. CASE Conv(<<Response("M2", 2), Request("M3", 2)>>, <<>>, 2, 2)
    BY <1>1, <2>4 DEF Conv
  <2> QED
    BY <2>1, <2>2, <2>3, <2>4 DEF AtM2
<1>7. CASE stage = "m3_req"
  BY <1>1, <1>7 DEF InStep, AtM3, Conv
<1>8. CASE stage = "m4_req"
  <2>1. AtM4
    BY <1>1, <1>8 DEF InStep
  <2>2. CASE Conv(<<>>, <<Response("M3", 2)>>, 2, 2)
    <3> DEFINE n == Response("M3", 2)
               x == Request("M4", 3)
    <3>1. Head(to_source) = n /\ Tail(to_source) = <<>>
      BY <2>2, Messages, One DEF Conv, Names
    <3>2. x \in Message /\ x.type = "request" /\ n.name # "M7"
      BY Messages, Kinds DEF Names
    <3>3. last_cseq = 2 /\ last_cseq + 1 = 3 /\ to_sink = <<>>
      BY <2>2 DEF Conv
    <3>4. Follow(n) = <<x>>
      BY <3>3, Followed
    <3> HIDE DEF n, x
    <3>5. /\ to_source' = <<>> /\ to_sink' = <<x>>
          /\ last_cseq' = last_cseq + 1 /\ asked' = last_cseq + 1 /\ source' = source
      BY <3>1, <3>2, <3>3, <3>4, SaysOne
    <3>6. AtM4'
      BY <3>3, <3>5 DEF AtM4, Conv, x
    <3> QED
      BY <1>1, <1>2, <1>3, <1>4, <1>8, <3>5, <3>6 DEF InStep, Early
  <2>3. CASE Conv(<<Request("M4", 3)>>, <<>>, 3, 3)
    BY <1>1, <2>3 DEF Conv
  <2> QED
    BY <2>1, <2>2, <2>3 DEF AtM4
<1>9. CASE stage = "m5_req"
  <2>1. AtM5
    BY <1>1, <1>9 DEF InStep
  <2>2. CASE Conv(<<>>, <<Response("M4", 3)>>, 3, 3)
    <3> DEFINE n == Response("M4", 3)
               x == Request("M5", 4)
    <3>1. Head(to_source) = n /\ Tail(to_source) = <<>>
      BY <2>2, Messages, One DEF Conv, Names
    <3>2. x \in Message /\ x.type = "request" /\ n.name # "M7"
      BY Messages, Kinds DEF Names
    <3>3. last_cseq = 3 /\ last_cseq + 1 = 4 /\ to_sink = <<>>
      BY <2>2 DEF Conv
    <3>4. Follow(n) = <<x>>
      BY <3>3, Followed
    <3> HIDE DEF n, x
    <3>5. /\ to_source' = <<>> /\ to_sink' = <<x>>
          /\ last_cseq' = last_cseq + 1 /\ asked' = last_cseq + 1 /\ source' = source
      BY <3>1, <3>2, <3>3, <3>4, SaysOne
    <3>6. AtM5'
      BY <3>3, <3>5 DEF AtM5, Conv, x
    <3> QED
      BY <1>1, <1>2, <1>3, <1>4, <1>9, <3>5, <3>6 DEF InStep, Early
  <2>3. CASE Conv(<<Request("M5", 4)>>, <<>>, 4, 4)
    BY <1>1, <2>3 DEF Conv
  <2> QED
    BY <2>1, <2>2, <2>3 DEF AtM5
<1>10. CASE stage = "m6_rsp"
  <2>1. AtM6
    BY <1>1, <1>10 DEF InStep
  <2>2. CASE Conv(<<>>, <<Response("M5", 4), Request("M6", 4)>>, 4, 4)
    <3>1. /\ Head(to_source) = Response("M5", asked)
          /\ Tail(to_source) = <<Request("M6", 4)>>
          /\ <<Request("M6", 4)>> \in Seq(Message)
      BY <2>2, Messages, One, Two DEF Conv, Names
    <3>2. /\ to_source' = <<Request("M6", 4)>> /\ to_sink' = to_sink /\ asked' = 0
          /\ last_cseq' = last_cseq /\ source' = source
      BY <3>1, TakesAnswer
    <3>3. AtM6'
      BY <2>2, <3>2 DEF AtM6, Conv
    <3> QED
      BY <1>1, <1>2, <1>3, <1>4, <1>10, <3>2, <3>3 DEF InStep, Early
  <2>3. CASE Conv(<<>>, <<Request("M6", 4)>>, 0, 4)
    <3> DEFINE n == Request("M6", 4)
               x == Response("M6", 4)
    <3>1. Head(to_source) = n /\ Tail(to_source) = <<>>
      BY <2>3, Messages, One DEF Conv, Names
    <3>2. /\ x \in Message /\ x.type # "request" /\ n.type = "request"
          /\ n.name # "M7" /\ Follow(n) = <<x>>
      BY Messages, Kinds, Followed DEF Names
    <3>3. to_sink = <<>> /\ asked = 0 /\ last_cseq = 4
      BY <2>3 DEF Conv
    <3> HIDE DEF n, x
    <3>4. /\ to_source' = <<>> /\ to_sink' = <<x>>
          /\ last_cseq' = last_cseq /\ asked' = asked /\ source' = source
      BY <3>1, <3>2, <3>3, SaysOne
    <3>5. AtM6'
      BY <3>3, <3>4 DEF AtM6, Conv, x
    <3> QED
      BY <1>1, <1>2, <1>3, <1>4, <1>10, <3>4, <3>5 DEF InStep, Early
  <2>4. CASE Conv(<<Response("M6", 4)>>, <<>>, 0, 4)
    BY <1>1, <2>4 DEF Conv
  <2> QED
    BY <2>1, <2>2, <2>3, <2>4 DEF AtM6
<1>11. CASE stage = "m7_rsp"
  <2>1. AtM7
    BY <1>1, <1>11 DEF InStep
  <2>2. CASE Conv(<<>>, <<Request("M7", 5)>>, 0, 4)
    <3> DEFINE n == Request("M7", 5)
               x == Response("M7", 5)
    <3>1. Head(to_source) = n /\ Tail(to_source) = <<>>
      BY <2>2, Messages, One DEF Conv, Names
    <3>2. /\ x \in Message /\ x.type # "request" /\ n.type = "request"
          /\ n.name = "M7" /\ Follow(n) = <<x>>
      BY Messages, Kinds, Followed DEF Names
    <3>3. to_sink = <<>> /\ asked = 0 /\ last_cseq = 4
      BY <2>2 DEF Conv
    <3> HIDE DEF n, x
    <3>4. /\ to_source' = <<>> /\ to_sink' = <<x>>
          /\ last_cseq' = last_cseq /\ asked' = asked /\ source' = "playing"
      BY <3>1, <3>2, <3>3, SaysOne
    <3>5. AtM7'
      BY <3>3, <3>4 DEF AtM7, Conv, x
    <3> QED
      BY <1>1, <1>2, <1>3, <1>4, <1>11, <3>4, <3>5 DEF InStep, Early
  <2>3. CASE \/ Conv(<<Response("M7", 5)>>, <<>>, 0, 4)
             \/ Conv(<<Response("M7", 5), Request("M16", 5)>>, <<>>, 5, 5)
    BY <1>1, <2>3 DEF Conv
  <2> QED
    BY <2>1, <2>2, <2>3 DEF AtM7
<1>12. CASE stage = "keepalive"
  <2>1. AtPlay
    BY <1>1, <1>12 DEF InStep
  <2>2. /\ Conv(<<>>, <<Response("M16", last_cseq)>>, last_cseq, last_cseq)
        /\ cseq = last_cseq + 1 /\ last_cseq >= 4
    BY <1>1, <2>1 DEF AtPlay, Conv
  <2>3. Response("M16", last_cseq) \in Message
    BY Messages DEF Names, RtspTypeOK
  <2>4. /\ Head(to_source) = Response("M16", asked) /\ Tail(to_source) = <<>>
        /\ <<>> \in Seq(Message)
    BY <2>2, <2>3, One DEF Conv
  <2>5. /\ to_source' = <<>> /\ to_sink' = to_sink /\ asked' = 0
        /\ last_cseq' = last_cseq /\ cseq' = cseq /\ source' = source
    BY <2>4, TakesAnswer
  <2>6. AtPlay'
    BY <2>2, <2>5 DEF AtPlay, Conv
  <2> QED
    BY <1>1, <1>2, <1>3, <1>4, <1>12, <2>5, <2>6 DEF InStep, Early
<1> QED
  BY <1>2, <1>5, <1>6, <1>7, <1>8, <1>9, <1>10, <1>11, <1>12 DEF Receiving
-----------------------------------------------------------------------------
(* A request of the source during play finds the sink ready to number its  *)
(* answer.                                                                 *)
LEMMA AskInStep ==
  ASSUME RtspTypeOK, InStep, SourceKeepalive PROVE InStep'
<1> DEFINE c == last_cseq + 1
           x == Request("M16", c)
<1>1. /\ source = "playing" /\ source' = "playing" /\ asked = 0
      /\ stage' = stage /\ cseq' = cseq /\ reset' = reset /\ granted' = granted
      /\ to_source' = to_source /\ to_sink' = to_sink \o <<x>>
      /\ asked' = c /\ last_cseq' = c
  BY DEF SourceKeepalive, Say
<1>2. /\ There /\ ~ reset /\ stage \in Receiving /\ stage \notin Early /\ "M7" \in granted
  BY <1>1 DEF InStep, There
<1>3. stage = "m7_rsp" \/ stage = "keepalive"
  BY <1>2 DEF Receiving, Early
<1>4. last_cseq \in Nat /\ c \in Nat /\ x \in Message
  BY Messages DEF RtspTypeOK, Names
<1>5. CASE stage = "m7_rsp"
  <2>1. Conv(<<Response("M7", 5)>>, <<>>, 0, 4)
    BY <1>1, <1>2, <1>5 DEF InStep, AtM7, Conv
  <2>2. c = 5 /\ x = Request("M16", 5)
    BY <2>1 DEF Conv
  <2>3. to_sink' = <<Response("M7", 5), Request("M16", 5)>>
    <3>1. Response("M7", 5) \in Message /\ Request("M16", 5) \in Message
      BY Messages DEF Names
    <3> QED
      BY <1>1, <2>1, <2>2, <3>1, Two DEF Conv
  <2>4. AtM7'
    BY <1>1, <2>1, <2>2, <2>3 DEF AtM7, Conv
  <2> QED
    BY <1>1, <1>2, <1>5, <2>4 DEF InStep, Early
<1>6. CASE stage = "keepalive"
  <2>1. Conv(<<>>, <<>>, 0, last_cseq) /\ cseq = c /\ last_cseq >= 4
    BY <1>1, <1>2, <1>4, <1>6 DEF InStep, AtPlay, Conv
  <2>2. to_sink' = <<x>>
    <3> HIDE DEF x
    <3> QED
      BY <1>1, <1>4, <2>1, One DEF Conv
  <2>3. AtPlay'
    BY <1>1, <1>4, <2>1, <2>2 DEF AtPlay, Conv
  <2> QED
    BY <1>1, <1>2, <1>6, <2>3 DEF InStep, Early
<1> QED
  BY <1>3, <1>5, <1>6

(* What is received while the source is there, stage by stage, and what is *)
(* left to receive.                                                        *)
LEMMA Received ==
  ASSUME RtspTypeOK, InStep, There, NEW data, Recv(data)
  PROVE  /\ data # <<>>
         /\ \A m \in Message : to_sink = <<m>> => data = <<m>> /\ to_sink' = <<>>
         /\ \A a, b \in Message : to_sink = <<a, b>> =>
              \/ data = <<a>> /\ to_sink' = <<b>>
              \/ data = <<a, b>> /\ to_sink' = <<>>
         /\ to_sink # <<>>
<1>1. to_sink # <<>>
  BY RecvNone DEF There
<1>2. PICK n \in 1 .. Len(to_sink) : data = SubSeq(to_sink, 1, n)
  BY <1>1 DEF Recv
<1>3. data # <<>>
  <2>1. to_sink \in Seq(Message) /\ Len(to_sink) \in Nat
    BY LenProperties DEF RtspTypeOK
  <2>2. Len(data) = n /\ n # 0
    <3>1. \A i \in 1 .. n : to_sink[i] \in Message
      BY <1>2, <2>1, ElementOfSeq
    <3>2. 1 \in Int /\ n \in Int /\ Len(SubSeq(to_sink, 1, n)) = IF 1 <= n THEN n - 1 + 1 ELSE 0
      BY <1>2, <2>1, <3>1, SubSeqProperties
    <3> QED
      BY <1>2, <2>1, <3>2
  <2> QED
    BY <2>2, EmptyElements
<1> QED
  BY <1>1, <1>3, RecvOne, RecvTwo

(* The sink sends what the exchange says and goes to the next stage.       *)
LEMMA ShakeInStep ==
  ASSUME RtspTypeOK, InStep, Shake PROVE InStep'
<1> SUFFICES ASSUME There' PROVE InStep'
  BY DEF InStep
<1>1. PICK data : Recv(data) /\ Send(Exchange[stage].says)
  BY DEF Shake
<1>2. /\ stage \in DOMAIN Exchange /\ stage' = Exchange[stage].next
      /\ cseq' = IF stage' = "keepalive" THEN 5 ELSE cseq
      /\ UNCHANGED <<source, asked, last_cseq, granted>>
  BY DEF Shake
<1>3. There /\ source # "left"
  BY <1>2 DEF There
<1>4. to_source' = to_source \o Exchange[stage].says /\ reset' = reset
  BY <1>1, <1>3 DEF Send
<1>5. /\ ~ reset' /\ (source' = "playing" => "M7" \in granted')
      /\ stage \in Early => source' = "talking"
  BY <1>2, <1>3, <1>4 DEF InStep
<1>6. stage \in {"m1_req", "m2_rsp", "m3_req", "m4_req", "m5_req", "m6_rsp", "m7_rsp"}
  BY <1>2 DEF Exchange
<1>7. CASE stage = "m1_req"
  <2>1. /\ to_sink = <<Request("M1", 1)>> /\ to_source = <<>> /\ asked = 1 /\ last_cseq = 1
    BY <1>3, <1>7 DEF InStep, AtM1, Conv
  <2>2. to_sink' = <<>>
    BY <1>1, <1>3, <2>1, Received, Messages DEF Names
  <2>3. /\ Exchange["m1_req"].next = "m2_rsp"
        /\ Exchange["m1_req"].says = <<Response("M1", 1), Request("M2", 2)>>
    BY DEF Exchange
  <2>4. to_source' = <<Response("M1", 1), Request("M2", 2)>>
    <3>1. Response("M1", 1) \in Message /\ Request("M2", 2) \in Message
      BY Messages DEF Names
    <3> QED
      BY <1>4, <1>7, <2>1, <2>3, <3>1, Two
  <2>5. AtM2' /\ stage' = "m2_rsp"
    BY <1>2, <1>7, <2>1, <2>2, <2>3, <2>4 DEF AtM2, Conv
  <2> QED
    BY <1>5, <1>7, <2>5 DEF InStep, Early, Receiving
<1>8. CASE stage = "m2_rsp"
  <2>1. /\ to_sink = <<Response("M2", 2), Request("M3", 2)>> /\ to_source = <<>>
        /\ asked = 2 /\ last_cseq = 2
    BY <1>1, <1>3, <1>8, Received DEF InStep, AtM2, Conv
  <2>2. to_sink' = <<Request("M3", 2)>> \/ to_sink' = <<>>
    BY <1>1, <1>3, <2>1, Received, Messages DEF Names
  <2>3. Exchange["m2_rsp"].next = "m3_req" /\ Exchange["m2_rsp"].says = <<>>
    BY DEF Exchange
  <2>4. to_source' = <<>>
    BY <1>4, <1>8, <2>1, <2>3, ConcatEmptySeq DEF RtspTypeOK
  <2>5. AtM3' /\ stage' = "m3_req"
    BY <1>2, <1>8, <2>1, <2>2, <2>3, <2>4 DEF AtM3, Conv
  <2> QED
    BY <1>5, <1>8, <2>5 DEF InStep, Early, Receiving
<1>9. CASE stage = "m3_req"
  <2>1. /\ to_sink = <<Request("M3", 2)>> /\ to_source = <<>> /\ asked = 2 /\ last_cseq = 2
    BY <1>1, <1>3, <1>9, Received DEF InStep, AtM3, Conv
  <2>2. to_sink' = <<>>
    BY <1>1, <1>3, <2>1, Received, Messages DEF Names
  <2>3. Exchange["m3_req"].next = "m4_req" /\ Exchange["m3_req"].says = <<Response("M3", 2)>>
    BY DEF Exchange
  <2>4. to_source' = <<Response("M3", 2)>>
    BY <1>4, <1>9, <2>1, <2>3, One, Messages DEF Names
  <2>5. AtM4' /\ stage' = "m4_req"
    BY <1>2, <1>9, <2>1, <2>2, <2>3, <2>4 DEF AtM4, Conv
  <2> QED
    BY <1>5, <1>9, <2>5 DEF InStep, Early, Receiving
<1>10. CASE stage = "m4_req"
  <2>1. /\ to_sink = <<Request("M4", 3)>> /\ to_source = <<>> /\ asked = 3 /\ last_cseq = 3
    BY <1>1, <1>3, <1>10, Received DEF InStep, AtM4, Conv
  <2>2. to_sink' = <<>>
    BY <1>1, <1>3, <2>1, Received, Messages DEF Names
  <2>3. Exchange["m4_req"].next = "m5_req" /\ Exchange["m4_req"].says = <<Response("M4", 3)>>
    BY DEF Exchange
  <2>4. to_source' = <<Response("M4", 3)>>
    BY <1>4, <1>10, <2>1, <2>3, One, Messages DEF Names
  <2>5. AtM5' /\ stage' = "m5_req"
    BY <1>2, <1>10, <2>1, <2>2, <2>3, <2>4 DEF AtM5, Conv
  <2> QED
    BY <1>5, <1>10, <2>5 DEF InStep, Early, Receiving
<1>11. CASE stage = "m5_req"
  <2>1. /\ to_sink = <<Request("M5", 4)>> /\ to_source = <<>> /\ asked = 4 /\ last_cseq = 4
    BY <1>1, <1>3, <1>11, Received DEF InStep, AtM5, Conv
  <2>2. to_sink' = <<>>
    BY <1>1, <1>3, <2>1, Received, Messages DEF Names
  <2>3. /\ Exchange["m5_req"].next = "m6_rsp"
        /\ Exchange["m5_req"].says = <<Response("M5", 4), Request("M6", 4)>>
    BY DEF Exchange
  <2>4. to_source' = <<Response("M5", 4), Request("M6", 4)>>
    <3>1. Response("M5", 4) \in Message /\ Request("M6", 4) \in Message
      BY Messages DEF Names
    <3> QED
      BY <1>4, <1>11, <2>1, <2>3, <3>1, Two
  <2>5. AtM6' /\ stage' = "m6_rsp"
    BY <1>2, <1>11, <2>1, <2>2, <2>3, <2>4 DEF AtM6, Conv
  <2> QED
    BY <1>5, <1>11, <2>5 DEF InStep, Early, Receiving
<1>12. CASE stage = "m6_rsp"
  <2>1. /\ to_sink = <<Response("M6", 4)>> /\ to_source = <<>> /\ asked = 0 /\ last_cseq = 4
    BY <1>1, <1>3, <1>12, Received DEF InStep, AtM6, Conv
  <2>2. to_sink' = <<>>
    BY <1>1, <1>3, <2>1, Received, Messages DEF Names
  <2>3. Exchange["m6_rsp"].next = "m7_rsp" /\ Exchange["m6_rsp"].says = <<Request("M7", 5)>>
    BY DEF Exchange
  <2>4. to_source' = <<Request("M7", 5)>>
    BY <1>4, <1>12, <2>1, <2>3, One, Messages DEF Names
  <2>5. source' = "talking"
    BY <1>5, <1>12 DEF Early
  <2>6. AtM7' /\ stage' = "m7_rsp"
    BY <1>2, <1>12, <2>1, <2>2, <2>3, <2>4, <2>5 DEF AtM7, Conv
  <2> QED
    BY <1>5, <2>6 DEF InStep, Early, Receiving
<1>13. CASE stage = "m7_rsp"
  <2>1. /\ source = "playing" /\ to_source = <<>>
        /\ \/ to_sink = <<Response("M7", 5)>> /\ asked = 0 /\ last_cseq = 4
           \/ to_sink = <<Response("M7", 5), Request("M16", 5)>> /\ asked = 5 /\ last_cseq = 5
    BY <1>1, <1>3, <1>13, Received DEF InStep, AtM7, Conv
  <2>2. Exchange["m7_rsp"].next = "keepalive" /\ Exchange["m7_rsp"].says = <<>>
    BY DEF Exchange
  <2>3. to_source' = <<>> /\ stage' = "keepalive" /\ cseq' = 5 /\ source' = "playing"
    BY <1>2, <1>4, <1>13, <2>1, <2>2, ConcatEmptySeq DEF RtspTypeOK
  <2>4. CASE to_sink = <<Response("M7", 5)>> /\ asked = 0 /\ last_cseq = 4
    <3>1. to_sink' = <<>>
      BY <1>1, <1>3, <2>4, Received, Messages DEF Names
    <3>2. AtPlay'
      BY <1>2, <2>3, <2>4, <3>1 DEF AtPlay, Conv
    <3> QED
      BY <1>5, <2>3, <3>2 DEF InStep, Early, Receiving
  <2>5. CASE /\ to_sink = <<Response("M7", 5), Request("M16", 5)>>
             /\ asked = 5 /\ last_cseq = 5
    <3>1. to_sink' = <<Request("M16", 5)>> \/ to_sink' = <<>>
      BY <1>1, <1>3, <2>5, Received, Messages DEF Names
    <3>2. AtPlay'
      BY <1>2, <2>3, <2>5, <3>1 DEF AtPlay, Conv
    <3> QED
      BY <1>5, <2>3, <3>2 DEF InStep, Early, Receiving
  <2> QED
    BY <2>1, <2>4, <2>5
<1> QED
  BY <1>6, <1>7, <1>8, <1>9, <1>10, <1>11, <1>12, <1>13

(* The sink answers a request during play with the number it has come to.  *)
LEMMA KeepaliveInStep ==
  ASSUME RtspTypeOK, InStep, Keepalive PROVE InStep'
<1> SUFFICES ASSUME There' PROVE InStep'
  BY DEF InStep
<1>1. PICK data : Recv(data)
  BY DEF Keepalive
<1>2. /\ stage = "keepalive" /\ stage' = "keepalive" /\ cseq' = cseq + 1
      /\ Send(<<Response("M16", cseq)>>)
      /\ UNCHANGED <<source, asked, last_cseq, granted>>
  BY DEF Keepalive
<1>3. There /\ source # "left"
  BY <1>2 DEF There
<1>4. to_source' = to_source \o <<Response("M16", cseq)>> /\ reset' = reset
  BY <1>2, <1>3 DEF Send
<1>5. /\ ~ reset' /\ source' = "playing" /\ "M7" \in granted'
  BY <1>2, <1>3, <1>4 DEF InStep
<1>6. /\ to_sink = <<Request("M16", last_cseq)>> /\ to_source = <<>>
      /\ asked = last_cseq /\ cseq = last_cseq /\ last_cseq >= 4 /\ last_cseq \in Nat
  BY <1>1, <1>2, <1>3, Received DEF InStep, AtPlay, Conv, RtspTypeOK
<1>7. /\ Request("M16", last_cseq) \in Message /\ Response("M16", cseq) \in Message
  BY <1>6, Messages DEF Names
<1>8. to_sink' = <<>>
  BY <1>1, <1>3, <1>6, <1>7, Received
<1>9. to_source' = <<Response("M16", cseq)>>
  BY <1>4, <1>6, <1>7, One
<1>10. AtPlay'
  BY <1>2, <1>6, <1>8, <1>9 DEF AtPlay, Conv
<1> QED
  BY <1>2, <1>5, <1>10 DEF InStep, Early, Receiving

(* While the source is there no answer lacks a session number, nothing     *)
(* ends the stream and no call raises.                                     *)
LEMMA StaysInPlay ==
  ASSUME RtspTypeOK, InStep, NoSession \/ Finish \/ Raise PROVE ~ There
<1> SUFFICES ASSUME There PROVE FALSE
  OBVIOUS
<1>1. CASE NoSession
  <2>1. PICK data : Recv(data) /\ ~ HasSession(data)
    BY <1>1 DEF NoSession
  <2>2. stage = "m6_rsp"
    BY <1>1 DEF NoSession
  <2>3. to_sink = <<Response("M6", 4)>>
    BY <2>1, <2>2, Received DEF InStep, AtM6, Conv
  <2>4. Response("M6", 4) \in Message
    BY Messages DEF Names
  <2>5. data = <<Response("M6", 4)>>
    BY <2>1, <2>3, <2>4, Received
  <2>6. 1 \in DOMAIN data /\ data[1] = Response("M6", 4)
    BY <2>5
  <2> QED
    BY <2>1, <2>6, Kinds DEF HasSession, Carries
<1>2. CASE Finish
  <2>1. PICK data : Recv(data) /\ IsEnd(data)
    BY <1>2 DEF Finish
  <2>2. stage = "keepalive"
    BY <1>2 DEF Finish
  <2>3. to_sink = <<Request("M16", last_cseq)>> /\ last_cseq \in Nat
    BY <2>1, <2>2, Received DEF InStep, AtPlay, Conv, RtspTypeOK
  <2>4. Request("M16", last_cseq) \in Message
    BY <2>3, Messages DEF Names
  <2>5. data = <<Request("M16", last_cseq)>> /\ data # <<>>
    BY <2>1, <2>3, <2>4, Received
  <2>6. \A i \in DOMAIN data : data[i] = Request("M16", last_cseq)
    BY <2>5
  <2> QED
    BY <2>1, <2>5, <2>6, Kinds DEF IsEnd, Carries
<1>3. CASE Raise
  BY <1>3 DEF Raise, InStep
<1> QED
  BY <1>1, <1>2, <1>3
-----------------------------------------------------------------------------
(* Types, and SETUP before PLAY.                                           *)
LEMMA PartOf ==
  ASSUME NEW S, NEW s \in Seq(S), NEW k \in Nat \ {0}, NEW n \in Nat, n <= Len(s)
  PROVE  /\ SubSeq(s, k, n) \in Seq(S)
         /\ \A i \in DOMAIN SubSeq(s, k, n) : \E j \in DOMAIN s : SubSeq(s, k, n)[i] = s[j]
<1> DEFINE t == SubSeq(s, k, n)
<1>1. Len(s) \in Nat /\ DOMAIN s = 1 .. Len(s) /\ \A i \in 1 .. Len(s) : s[i] \in S
  BY LenProperties, ElementOfSeq
<1>2. k \in Int /\ n \in Int /\ \A i \in k .. n : i \in 1 .. Len(s)
  BY <1>1
<1>3. \A i \in k .. n : s[i] \in S
  BY <1>1, <1>2
<1>4. /\ t \in Seq(S)
      /\ Len(t) = IF k <= n THEN n - k + 1 ELSE 0
      /\ \A i \in 1 .. n - k + 1 : t[i] = s[k + i - 1]
  BY <1>2, <1>3, SubSeqProperties
<1> HIDE DEF t
<1>5. DOMAIN t = 1 .. Len(t)
  BY <1>4
<1>6. ASSUME NEW i \in DOMAIN t PROVE \E j \in DOMAIN s : t[i] = s[j]
  <2>1. i \in 1 .. Len(t)
    BY <1>5
  <2>2. i \in 1 .. n - k + 1
    BY <1>2, <1>4, <2>1
  <2>3. k + i - 1 \in DOMAIN s
    BY <1>1, <1>2, <2>2
  <2> QED
    BY <1>4, <2>2, <2>3
<1> QED
  BY <1>4, <1>6 DEF t

LEMMA RecvIsPart ==
  ASSUME RtspTypeOK, NEW data, Recv(data)
  PROVE  /\ to_sink' \in Seq(Message) /\ merged' \in BOOLEAN
         /\ Carries(to_sink', "M6") => Carries(to_sink, "M6")
         /\ Carries(data, "M6") => Carries(to_sink, "M6")
<1>1. to_sink \in Seq(Message) /\ merged \in BOOLEAN /\ Len(to_sink) \in Nat
  BY LenProperties DEF RtspTypeOK
<1>2. CASE to_sink = <<>> /\ data = <<>> /\ UNCHANGED <<to_sink, merged>>
  BY <1>1, <1>2
<1>3. CASE \E n \in 1 .. Len(to_sink) :
             /\ data = SubSeq(to_sink, 1, n)
             /\ to_sink' = SubSeq(to_sink, n + 1, Len(to_sink))
             /\ merged' = (merged \/ n > 1)
  <2>1. PICK n \in 1 .. Len(to_sink) :
             /\ data = SubSeq(to_sink, 1, n)
             /\ to_sink' = SubSeq(to_sink, n + 1, Len(to_sink))
             /\ merged' = (merged \/ n > 1)
    BY <1>3
  <2>2. /\ n \in Nat /\ n <= Len(to_sink) /\ n + 1 \in Nat \ {0} /\ Len(to_sink) <= Len(to_sink)
        /\ 1 \in Nat \ {0}
    BY <1>1, <2>1
  <2>3. \A i \in DOMAIN data : \E j \in DOMAIN to_sink : data[i] = to_sink[j]
    BY <1>1, <2>1, <2>2, PartOf
  <2>4. /\ to_sink' \in Seq(Message)
        /\ \A i \in DOMAIN to_sink' : \E j \in DOMAIN to_sink : to_sink'[i] = to_sink[j]
    <3> DEFINE k == n + 1
               e == Len(to_sink)
    <3>1. k \in Nat \ {0} /\ e \in Nat /\ e <= Len(to_sink)
      BY <1>1, <2>2
    <3>2. to_sink' = SubSeq(to_sink, k, e)
      BY <2>1
    <3> HIDE DEF k, e
    <3> DEFINE t == SubSeq(to_sink, k, e)
    <3>3. /\ t \in Seq(Message)
          /\ \A i \in DOMAIN t : \E j \in DOMAIN to_sink : t[i] = to_sink[j]
      BY <1>1, <3>1, PartOf
    <3> HIDE DEF t
    <3>4. to_sink' = t
      BY <3>2 DEF t
    <3> QED
      BY <3>3, <3>4
  <2>5. merged' \in BOOLEAN
    BY <2>1
  <2> QED
    BY <2>3, <2>4, <2>5 DEF Carries
<1> QED
  BY <1>2, <1>3 DEF Recv

LEMMA SendIsSeq ==
  ASSUME RtspTypeOK, NEW msgs \in Seq(Message), Send(msgs)
  PROVE  to_source' \in Seq(Message) /\ reset' \in BOOLEAN
<1>1. to_source \in Seq(Message) /\ reset \in BOOLEAN
  BY DEF RtspTypeOK
<1>2. to_source \o msgs \in Seq(Message)
  BY <1>1, ConcatProperties
<1> QED
  BY <1>1, <1>2 DEF Send

LEMMA ExchangeType ==
  ASSUME NEW s \in DOMAIN Exchange
  PROVE  /\ Exchange[s].says \in Seq(Message)
         /\ Exchange[s].next \in Receiving
         /\ Exchange[s].next = "m7_rsp" => s = "m6_rsp"
         /\ Exchange[s].next = "keepalive" => s = "m7_rsp"
<1>1. /\ Exchange["m1_req"].says = <<Response("M1", 1), Request("M2", 2)>>
      /\ Exchange["m2_rsp"].says = <<>>
      /\ Exchange["m3_req"].says = <<Response("M3", 2)>>
      /\ Exchange["m4_req"].says = <<Response("M4", 3)>>
      /\ Exchange["m5_req"].says = <<Response("M5", 4), Request("M6", 4)>>
      /\ Exchange["m6_rsp"].says = <<Request("M7", 5)>>
      /\ Exchange["m7_rsp"].says = <<>>
  BY DEF Exchange
<1>2. /\ Exchange["m1_req"].next = "m2_rsp" /\ Exchange["m2_rsp"].next = "m3_req"
      /\ Exchange["m3_req"].next = "m4_req" /\ Exchange["m4_req"].next = "m5_req"
      /\ Exchange["m5_req"].next = "m6_rsp" /\ Exchange["m6_rsp"].next = "m7_rsp"
      /\ Exchange["m7_rsp"].next = "keepalive"
  BY DEF Exchange
<1>3. s \in {"m1_req", "m2_rsp", "m3_req", "m4_req", "m5_req", "m6_rsp", "m7_rsp"}
  BY DEF Exchange
<1>4. Exchange[s].says \in Seq(Message)
  <2>1. /\ Response("M1", 1) \in Message /\ Request("M2", 2) \in Message
        /\ Response("M3", 2) \in Message /\ Response("M4", 3) \in Message
        /\ Response("M5", 4) \in Message /\ Request("M6", 4) \in Message
        /\ Request("M7", 5) \in Message
    BY Messages DEF Names
  <2>2. <<Response("M1", 1), Request("M2", 2)>> \in Seq(Message)
    BY <2>1, Two
  <2>3. <<Response("M5", 4), Request("M6", 4)>> \in Seq(Message)
    BY <2>1, Two
  <2>4. /\ <<Response("M3", 2)>> \in Seq(Message) /\ <<Response("M4", 3)>> \in Seq(Message)
        /\ <<Request("M7", 5)>> \in Seq(Message)
    BY <2>1, One
  <2>5. <<>> \in Seq(Message)
    OBVIOUS
  <2> QED
    BY <1>1, <1>3, <2>2, <2>3, <2>4, <2>5
<1> QED
  BY <1>2, <1>3, <1>4 DEF Receiving

LEMMA SinkType ==
  ASSUME RtspTypeOK, SetUp, Sink PROVE RtspTypeOK' /\ SetUp'
<1>1. CASE Shake
  <2>1. PICK data : /\ Recv(data) /\ Send(Exchange[stage].says)
                    /\ stage = "m6_rsp" => HasSession(data)
    BY <1>1 DEF Shake
  <2>2. /\ stage \in DOMAIN Exchange /\ stage' = Exchange[stage].next
        /\ cseq' = IF stage' = "keepalive" THEN 5 ELSE cseq
        /\ UNCHANGED <<source, asked, last_cseq, granted>>
    BY <1>1 DEF Shake
  <2>3. /\ Exchange[stage].says \in Seq(Message) /\ stage' \in Receiving
        /\ stage' = "m7_rsp" => stage = "m6_rsp"
        /\ stage' = "keepalive" => stage = "m7_rsp"
    BY <2>2, ExchangeType
  <2>4. /\ to_sink' \in Seq(Message) /\ merged' \in BOOLEAN
        /\ Carries(to_sink', "M6") => Carries(to_sink, "M6")
        /\ Carries(data, "M6") => Carries(to_sink, "M6")
    BY <2>1, RecvIsPart
  <2>5. to_source' \in Seq(Message) /\ reset' \in BOOLEAN
    BY <2>1, <2>3, SendIsSeq
  <2>6. cseq' \in Nat
    BY <2>2 DEF RtspTypeOK
  <2>7. RtspTypeOK'
    BY <2>2, <2>3, <2>4, <2>5, <2>6 DEF RtspTypeOK
  <2>8. SetUp'
    BY <2>1, <2>2, <2>3, <2>4 DEF SetUp, HasSession
  <2> QED
    BY <2>7, <2>8
<1>2. CASE NoSession \/ Finish
  <2>1. PICK data : Recv(data)
    BY <1>2 DEF NoSession, Finish
  <2>2. /\ stage' \in {"raised", "closed"}
        /\ UNCHANGED <<cseq, to_source, source, asked, last_cseq, reset, granted>>
    BY <1>2 DEF NoSession, Finish
  <2>3. /\ to_sink' \in Seq(Message) /\ merged' \in BOOLEAN
        /\ Carries(to_sink', "M6") => Carries(to_sink, "M6")
    BY <2>1, RecvIsPart
  <2>4. RtspTypeOK'
    BY <2>2, <2>3 DEF RtspTypeOK
  <2>5. SetUp'
    BY <2>2, <2>3 DEF SetUp
  <2> QED
    BY <2>4, <2>5
<1>3. CASE Keepalive
  <2>1. PICK data : Recv(data)
    BY <1>3 DEF Keepalive
  <2>2. /\ Send(<<Response("M16", cseq)>>) /\ cseq' = cseq + 1
        /\ UNCHANGED <<stage, source, asked, last_cseq, granted>>
    BY <1>3 DEF Keepalive
  <2>3. /\ to_sink' \in Seq(Message) /\ merged' \in BOOLEAN
        /\ Carries(to_sink', "M6") => Carries(to_sink, "M6")
    BY <2>1, RecvIsPart
  <2>4. cseq \in Nat /\ cseq' \in Nat
    BY <2>2 DEF RtspTypeOK
  <2>5. <<Response("M16", cseq)>> \in Seq(Message)
    BY <2>4, Messages, One DEF Names
  <2>6. to_source' \in Seq(Message) /\ reset' \in BOOLEAN
    BY <2>2, <2>5, SendIsSeq
  <2>7. RtspTypeOK'
    BY <2>2, <2>3, <2>4, <2>6 DEF RtspTypeOK
  <2>8. SetUp'
    BY <2>2, <2>3 DEF SetUp
  <2> QED
    BY <2>7, <2>8
<1>4. CASE Raise
  <2>1. /\ stage' = "raised" /\ UNCHANGED <<cseq, connection>>
    BY <1>4 DEF Raise
  <2>2. RtspTypeOK'
    BY <2>1 DEF RtspTypeOK, connection
  <2>3. SetUp'
    BY <2>1 DEF SetUp, connection
  <2> QED
    BY <2>2, <2>3
<1> QED
  BY <1>1, <1>2, <1>3, <1>4 DEF Sink

(* Only the answer to SETUP carries its name.                              *)
LEMMA CarriesMore ==
  ASSUME NEW s \in Seq(Message), NEW t \in Seq(Message), NEW n, Carries(s \o t, n)
  PROVE  Carries(s, n) \/ Carries(t, n)
<1>1. /\ Len(s) \in Nat /\ Len(t) \in Nat /\ DOMAIN s = 1 .. Len(s) /\ DOMAIN t = 1 .. Len(t)
  BY LenProperties
<1>2. /\ s \o t \in Seq(Message) /\ Len(s \o t) = Len(s) + Len(t)
      /\ \A i \in 1 .. Len(s) + Len(t) :
           (s \o t)[i] = IF i <= Len(s) THEN s[i] ELSE t[i - Len(s)]
  BY ConcatProperties
<1> DEFINE u == s \o t
<1>3. u \in Seq(Message) /\ Len(u) = Len(s) + Len(t)
  BY <1>2
<1>4. PICK i \in DOMAIN u : u[i].name = n
  BY DEF Carries
<1>5. i \in 1 .. Len(s) + Len(t) /\ u[i] = IF i <= Len(s) THEN s[i] ELSE t[i - Len(s)]
  <2> HIDE DEF u
  <2>1. DOMAIN u = 1 .. Len(u)
    BY <1>3
  <2>2. i \in 1 .. Len(s) + Len(t)
    BY <1>3, <2>1
  <2> QED
    BY <1>2, <2>2 DEF u
<1> HIDE DEF u
<1>6. CASE i <= Len(s)
  <2>1. i \in DOMAIN s
    BY <1>1, <1>5, <1>6
  <2> QED
    BY <1>4, <1>5, <1>6, <2>1 DEF Carries
<1>7. CASE ~ (i <= Len(s))
  <2>1. i - Len(s) \in DOMAIN t
    BY <1>1, <1>5, <1>7
  <2> QED
    BY <1>4, <1>5, <1>7, <2>1 DEF Carries
<1> QED
  BY <1>6, <1>7

LEMMA CarriesOne ==
  ASSUME NEW x \in Message, NEW n PROVE Carries(<<x>>, n) <=> x.name = n
<1>1. DOMAIN <<x>> = {1} /\ <<x>>[1] = x
  OBVIOUS
<1> QED
  BY <1>1 DEF Carries

LEMMA CarriesTwo ==
  ASSUME NEW x \in Message, NEW y \in Message, NEW n
  PROVE  Carries(<<x, y>>, n) => x.name = n \/ y.name = n
<1>1. DOMAIN <<x, y>> = {1, 2} /\ <<x, y>>[1] = x /\ <<x, y>>[2] = y
  OBVIOUS
<1> QED
  BY <1>1 DEF Carries

LEMMA SourceType ==
  ASSUME RtspTypeOK, SetUp, Source PROVE RtspTypeOK' /\ SetUp'
<1>1. CASE SourceReact
  <2> DEFINE m == Head(to_source)
             f == Follow(m)
  <2>1. f \in Seq(Message)
    BY FollowIsSeq
  <2>2. Carries(f, "M6") => m.name = "M6"
    <3>1. ASSUME NEW c \in Nat
          PROVE  /\ ~ Carries(<<Request("M4", c)>>, "M6") /\ ~ Carries(<<Request("M5", c)>>, "M6")
                 /\ ~ Carries(<<Response("M2", 2), Request("M3", c)>>, "M6")
      <4>1. /\ Request("M4", c) \in Message /\ Request("M5", c) \in Message
            /\ Response("M2", 2) \in Message /\ Request("M3", c) \in Message
        BY Messages DEF Names
      <4>2. ~ Carries(<<Request("M4", c)>>, "M6") /\ ~ Carries(<<Request("M5", c)>>, "M6")
        BY <4>1, CarriesOne, Kinds
      <4>3. ~ Carries(<<Response("M2", 2), Request("M3", c)>>, "M6")
        BY <4>1, CarriesTwo, Kinds
      <4> QED
        BY <4>2, <4>3
    <3>2. ~ Carries(<<Response("M7", 5)>>, "M6")
      BY Messages, CarriesOne, Kinds DEF Names
    <3>3. ~ Carries(<<>>, "M6")
      BY DEF Carries
    <3> HIDE DEF m
    <3> QED
      BY <3>1, <3>2, <3>3, FollowIsAny
  <2> HIDE DEF f
  <2>3. /\ There /\ to_source # <<>> /\ to_source' = Tail(to_source)
        /\ to_sink' = to_sink \o f
        /\ UNCHANGED <<stage, cseq, reset, merged>>
        /\ source' = IF m.name = "M7" THEN "playing" ELSE source
        /\ granted' = granted \cup ({m.name} \cap {"M6", "M7"})
        /\ last_cseq' \in {last_cseq, last_cseq + 1}
        /\ asked' \in {0, asked, last_cseq + 1}
    <3> HIDE DEF m
    <3> QED
      BY <1>1, Reacted DEF m, f
  <2> HIDE DEF m
  <2>4. to_sink' \in Seq(Message) /\ to_source' \in Seq(Message)
    BY <2>1, <2>3, ConcatProperties, HeadTailElements DEF RtspTypeOK
  <2>5. last_cseq' \in Nat /\ asked' \in Nat
    BY <2>3 DEF RtspTypeOK
  <2>6. granted' \subseteq {"M6", "M7"} /\ granted \subseteq granted'
    BY <2>3 DEF RtspTypeOK
  <2>7. source' \in {"away", "talking", "playing", "left"}
    BY <2>3 DEF RtspTypeOK
  <2>8. RtspTypeOK'
    BY <2>3, <2>4, <2>5, <2>6, <2>7 DEF RtspTypeOK
  <2>9. Carries(to_sink', "M6") => Carries(to_sink, "M6") \/ m.name = "M6"
    BY <2>1, <2>2, <2>3, CarriesMore DEF RtspTypeOK
  <2>10. SetUp'
    BY <2>3, <2>6, <2>9 DEF SetUp
  <2> QED
    BY <2>8, <2>10
<1>2. CASE SourceKeepalive
  <2> DEFINE x == Request("M16", last_cseq + 1)
  <2>1. /\ to_sink' = to_sink \o <<x>> /\ last_cseq' = last_cseq + 1
        /\ asked' = last_cseq + 1
        /\ UNCHANGED <<stage, cseq, reset, merged, to_source, source, granted>>
    BY <1>2 DEF SourceKeepalive, Say
  <2>2. last_cseq + 1 \in Nat /\ x \in Message /\ x.name = "M16"
    BY Messages, Kinds DEF RtspTypeOK, Names
  <2> HIDE DEF x
  <2>3. <<x>> \in Seq(Message) /\ ~ Carries(<<x>>, "M6")
    BY <2>2, One, CarriesOne
  <2>4. to_sink' \in Seq(Message) /\ (Carries(to_sink', "M6") => Carries(to_sink, "M6"))
    BY <2>1, <2>3, ConcatProperties, CarriesMore DEF RtspTypeOK
  <2>5. RtspTypeOK'
    BY <2>1, <2>2, <2>4 DEF RtspTypeOK
  <2>6. SetUp'
    BY <2>1, <2>4 DEF SetUp
  <2> QED
    BY <2>5, <2>6
<1>3. CASE SourceLeaves
  <2> DEFINE x == Request("TEARDOWN", last_cseq + 1)
  <2>1. /\ to_sink' = to_sink \/ to_sink' = Append(to_sink, x)
        /\ source' = "left" /\ reset' \in BOOLEAN
        /\ UNCHANGED <<stage, cseq, to_source, asked, last_cseq, merged, granted>>
    BY <1>3 DEF SourceLeaves
  <2>2. x \in Message /\ x.name = "TEARDOWN"
    BY Messages, Kinds DEF RtspTypeOK, Names
  <2> HIDE DEF x
  <2>3. <<x>> \in Seq(Message) /\ ~ Carries(<<x>>, "M6")
    BY <2>2, One, CarriesOne
  <2>4. Append(to_sink, x) = to_sink \o <<x>> /\ Append(to_sink, x) \in Seq(Message)
    BY <2>2, AppendIsConcat, AppendProperties DEF RtspTypeOK
  <2>5. to_sink' \in Seq(Message) /\ (Carries(to_sink', "M6") => Carries(to_sink, "M6"))
    BY <2>1, <2>3, <2>4, CarriesMore, ZenonT(60) DEF RtspTypeOK
  <2>6. RtspTypeOK'
    BY <2>1, <2>5 DEF RtspTypeOK
  <2>7. SetUp'
    BY <2>1, <2>5 DEF SetUp
  <2> QED
    BY <2>6, <2>7
<1> QED
  BY <1>1, <1>2, <1>3 DEF Source
-----------------------------------------------------------------------------
(* A step of the sink or of the source.                                    *)
LEMMA TalkKept ==
  ASSUME RtspInv, Sink \/ Source
  PROVE  /\ RtspInv' /\ stage \in Receiving /\ stage' # "none"
         /\ Source => stage' = stage
<1>1. RtspTypeOK /\ InStep /\ SetUp /\ (stage = "none" <=> source = "away")
  BY DEF RtspInv
<1>2. RtspTypeOK' /\ SetUp'
  BY <1>1, SinkType, SourceType
<1>3. CASE Sink
  <2>1. stage \in Receiving /\ source' = source /\ stage' # "none"
    <3>1. CASE Shake
      <4>1. stage \in DOMAIN Exchange /\ stage' = Exchange[stage].next /\ source' = source
        BY <3>1 DEF Shake
      <4>2. DOMAIN Exchange \subseteq Receiving
        BY DEF Exchange, Receiving
      <4> QED
        BY <4>1, <4>2, ExchangeType DEF Receiving
    <3>2. CASE NoSession \/ Finish
      BY <3>2 DEF NoSession, Finish, Receiving
    <3>3. CASE Keepalive
      BY <3>3 DEF Keepalive, Receiving
    <3>4. CASE Raise
      BY <3>4 DEF Raise, connection
    <3> QED
      BY <1>3, <3>1, <3>2, <3>3, <3>4 DEF Sink
  <2>2. stage # "none" /\ source # "away" /\ source' # "away"
    BY <1>1, <2>1 DEF Receiving
  <2>3. InStep'
    <3>1. CASE Shake
      BY <1>1, <3>1, ShakeInStep
    <3>2. CASE Keepalive
      BY <1>1, <3>2, KeepaliveInStep
    <3>3. CASE NoSession \/ Finish \/ Raise
      <4>1. ~ There
        BY <1>1, <3>3, StaysInPlay
      <4>2. ~ There'
        BY <2>1, <4>1 DEF There
      <4> QED
        BY <4>2 DEF InStep
    <3> QED
      BY <1>3, <3>1, <3>2, <3>3 DEF Sink
  <2>4. ~ Source \/ stage' = stage
    BY DEF Source, SourceReact, SourceKeepalive, SourceLeaves, Say
  <2> QED
    BY <1>2, <2>1, <2>2, <2>3, <2>4 DEF RtspInv
<1>4. CASE Source
  <2>1. stage' = stage
    BY <1>4 DEF Source, SourceReact, SourceKeepalive, SourceLeaves, Say
  <2>2. There
    BY <1>4 DEF Source, SourceReact, SourceKeepalive, SourceLeaves, There
  <2>3. stage \in Receiving
    BY <1>1, <2>2 DEF InStep
  <2>4. source' # "away"
    BY <1>4, <2>2 DEF Source, SourceReact, SourceKeepalive, SourceLeaves, There
  <2>5. InStep'
    <3>1. CASE SourceReact
      BY <1>1, <3>1, ReactInStep
    <3>2. CASE SourceKeepalive
      BY <1>1, <3>2, AskInStep
    <3>3. CASE SourceLeaves
      <4>1. ~ There'
        BY <3>3 DEF SourceLeaves, There
      <4> QED
        BY <4>1 DEF InStep
    <3> QED
      BY <1>4, <3>1, <3>2, <3>3 DEF Source
  <2>6. stage' # "none"
    BY <2>1, <2>3 DEF Receiving
  <2> QED
    BY <1>2, <2>1, <2>3, <2>4, <2>5, <2>6 DEF RtspInv
<1> QED
  BY <1>3, <1>4

(* A connection is opened and forgotten.                                   *)
LEMMA OpenKept == ASSUME RtspInv, Open PROVE RtspInv' /\ stage' = "m1_req"
<1>1. Request("M1", 1) \in Message /\ Request("M1", 1).name # "M6"
  BY Messages, Kinds DEF Names
<1>2. <<Request("M1", 1)>> \in Seq(Message) /\ ~ Carries(<<Request("M1", 1)>>, "M6")
  BY <1>1, One, CarriesOne
<1>3. RtspTypeOK'
  <2>1. stage' \in Receiving /\ cseq' \in Nat /\ asked' \in Nat /\ last_cseq' \in Nat
    BY DEF RtspInv, RtspTypeOK, Open, Receiving
  <2>2. /\ to_sink' \in Seq(Message) /\ to_source' \in Seq(Message) /\ source' = "talking"
    BY <1>2 DEF Open
  <2>3. {reset', merged'} \subseteq BOOLEAN /\ granted' \subseteq {"M6", "M7"}
    BY DEF Open
  <2> QED
    BY <2>1, <2>2, <2>3 DEF RtspTypeOK
<1>4. SetUp'
  BY <1>2 DEF Open, SetUp
<1>5. AtM1'
  BY DEF Open, AtM1, Conv
<1>6. InStep'
  BY <1>5 DEF InStep, Open, Receiving, Early
<1> QED
  BY <1>3, <1>4, <1>6 DEF RtspInv, Open

LEMMA ForgetKept == ASSUME Forget PROVE RtspInv' /\ stage' = "none"
<1>1. RtspTypeOK'
  <2>1. stage' = "none" /\ cseq' \in Nat /\ asked' \in Nat /\ last_cseq' \in Nat
    BY DEF Forget
  <2>2. /\ to_sink' \in Seq(Message) /\ to_source' \in Seq(Message) /\ source' = "away"
    BY DEF Forget
  <2>3. {reset', merged'} \subseteq BOOLEAN /\ granted' \subseteq {"M6", "M7"}
    BY DEF Forget
  <2> QED
    BY <2>1, <2>2, <2>3 DEF RtspTypeOK
<1>2. SetUp'
  BY DEF Forget, SetUp, Carries
<1>3. InStep'
  BY DEF Forget, InStep, There
<1> QED
  BY <1>1, <1>2, <1>3 DEF RtspInv, Forget

LEMMA UntouchedKept ==
  ASSUME RtspInv, UNCHANGED rtspVars PROVE RtspInv' /\ stage' = stage
<1>1. /\ UNCHANGED <<stage, cseq, to_sink, to_source, source, asked, last_cseq, reset>>
      /\ UNCHANGED <<merged, granted>>
  BY DEF rtspVars, connection
<1>2. RtspTypeOK' /\ SetUp'
  BY <1>1 DEF RtspInv, RtspTypeOK, SetUp
<1>3. There' = There
  BY <1>1 DEF There
<1>4. InStep'
  BY <1>1, <1>3 DEF RtspInv, InStep, AtM1, AtM2, AtM3, AtM4, AtM5, AtM6, AtM7, AtPlay, Conv
<1> QED
  BY <1>1, <1>2, <1>4 DEF RtspInv

(* Every other step of the system leaves the connection alone.             *)
LEMMA RtspKept ==
  ASSUME RtspInv, [Next]_vars
  PROVE  /\ RtspInv'
         /\ UNCHANGED rtspVars \/ SinkStep \/ SourceStep \/ Connect \/ Return
<1>1. CASE SinkStep \/ SourceStep
  BY <1>1, TalkKept DEF SinkStep, SourceStep
<1>2. CASE Connect \/ Return
  <2>1. Open \/ Forget \/ UNCHANGED rtspVars
    BY <1>2 DEF Connect, Return
  <2> QED
    BY <1>2, <2>1, OpenKept, ForgetKept, UntouchedKept
<1>3. CASE UNCHANGED vars
  <2>1. UNCHANGED rtspVars
    BY <1>3 DEF vars
  <2> QED
    BY <2>1, UntouchedKept
<1>4. CASE StartDhcp \/ ReadStamp \/ ReadLease \/ StopDhcp \/ KillCore \/ ConnectionWait
  <2>1. UNCHANGED rtspVars
    BY <1>4 DEF StartDhcp, ReadStamp, ReadLease, StopDhcp, KillCore, ConnectionWait,
       KillHostapd, Disable, Enable, Poll, Scan, PollNego, StartHostapd, Wps, ReadStations
  <2> QED
    BY <2>1, UntouchedKept
<1>5. CASE DiscoveryRequest \/ GiveUp \/ Agree \/ \E d \in Devices : Associate(d) \/ Lease(d)
  <2>1. UNCHANGED rtspVars
    BY <1>5 DEF DiscoveryRequest, GiveUp, Agree, Associate, Lease
  <2> QED
    BY <2>1, UntouchedKept
<1> QED
  BY <1>1, <1>2, <1>3, <1>4, <1>5 DEF Next, Script, MainLoop, Environment
-----------------------------------------------------------------------------
(* The script, the driver and the network around the connection.           *)
Pcs == {"dhcp", "stamp", "killall", "disable", "enable", "poll", "scan", "nego",
        "hostapd", "wps", "station", "lease", "connect", "rtsp", "stop", "kill", "dead"}

ScriptTypeOK ==
  /\ pc \in Pcs
  /\ prev_ts \in 0 .. MaxLeases /\ ip \in Devices \cup {NoDevice}
  /\ count \in 0 .. 4
  /\ {core, dhcp, hostapd, wps, renewed} \subseteq BOOLEAN
  /\ p2p \in DOMAIN Reads
  /\ requests \in 0 .. MaxRequests
  /\ stations \subseteq Devices
  /\ leases \in Seq(Devices)

LEMMA Types == TypeOK <=> RtspTypeOK /\ ScriptTypeOK
BY DEF TypeOK, ScriptTypeOK, Pcs

LEMMA DriverStates == DOMAIN Reads = {"off", "listen", "request", "agreed"}
BY DEF Reads

LEMMA ScriptTypeKept ==
  ASSUME ScriptTypeOK, Fresh, [Next]_vars PROVE ScriptTypeOK'
<1> USE DEF ScriptTypeOK, Goto
<1>1. CASE StartDhcp
  BY <1>1 DEF StartDhcp, driver, network, Pcs
<1>2. CASE ReadStamp
  <2>1. prev_ts' \in 0 .. MaxLeases
    BY <1>2, LenProperties DEF ReadStamp, Fresh
  <2> QED
    BY <1>2, <2>1 DEF ReadStamp, daemons, driver, Pcs
<1>3. CASE ReadLease
  <2> DEFINE n == Len(leases)
  <2>1. n \in Nat /\ n > prev_ts /\ prev_ts \in Nat
    BY <1>3, LenProperties DEF ReadLease, Fresh
  <2>2. n \in 1 .. Len(leases) /\ Last(leases) = leases[n]
    BY <2>1 DEF Last
  <2>3. leases[n] \in Devices
    <3> HIDE DEF n
    <3> QED
      BY <2>2, ElementOfSeq
  <2>4. ip' \in Devices
    BY <1>3, <2>2, <2>3 DEF ReadLease, LeasedIp
  <2> QED
    BY <1>3, <2>4 DEF ReadLease, daemons, driver, network, Pcs
<1>4. CASE Connect
  BY <1>4 DEF Connect, daemons, driver, network, Pcs
<1>5. CASE Return
  BY <1>5 DEF Return, daemons, driver, network, Pcs
<1>6. CASE StopDhcp
  BY <1>6 DEF StopDhcp, driver, network, Pcs
<1>7. CASE KillCore
  BY <1>7 DEF KillCore, driver, network, Pcs
<1>8. CASE KillHostapd
  BY <1>8 DEF KillHostapd, driver, Pcs
<1>9. CASE Disable
  BY <1>9, DriverStates DEF Disable, P2pDisable, daemons, network, Pcs
<1>10. CASE Enable
  BY <1>10, DriverStates DEF Enable, P2pEnable, daemons, network, Pcs
<1>11. CASE Poll
  <2>1. p2p' \in DOMAIN Reads /\ count' \in 0 .. 4 /\ pc' \in Pcs
    BY <1>11, DriverStates DEF Poll, P2pEnable, Pcs
  <2> QED
    BY <1>11, <2>1 DEF Poll, daemons, network
<1>12. CASE Scan
  <2>1. p2p' \in DOMAIN Reads /\ count' \in 0 .. 4 /\ pc' \in Pcs
    BY <1>12, DriverStates DEF Scan, TriesLeft, P2pDisable, Pcs
  <2> QED
    BY <1>12, <2>1 DEF Scan, daemons, network
<1>13. CASE PollNego
  BY <1>13 DEF PollNego, daemons, driver, network, Pcs
<1>14. CASE StartHostapd
  BY <1>14 DEF StartHostapd, driver, network, Pcs
<1>15. CASE Wps
  BY <1>15 DEF Wps, driver, network, Pcs
<1>16. CASE ReadStations
  BY <1>16 DEF ReadStations, daemons, driver, network, Pcs
<1>17. CASE SinkStep
  BY <1>17 DEF SinkStep, script, daemons, driver, network
<1>18. CASE DiscoveryRequest
  <2>1. requests' \in 0 .. MaxRequests
    BY <1>18, SessionAssumption DEF DiscoveryRequest
  <2> QED
    BY <1>18, <2>1, DriverStates DEF DiscoveryRequest, script, daemons, network
<1>19. CASE GiveUp
  BY <1>19, DriverStates DEF GiveUp, script, daemons, network
<1>20. CASE Agree
  BY <1>20, DriverStates DEF Agree, script, daemons, network
<1>21. ASSUME NEW d \in Devices, Associate(d) PROVE ScriptTypeOK'
  BY <1>21 DEF Associate, script, daemons, driver
<1>22. ASSUME NEW d \in Devices, Lease(d) PROVE ScriptTypeOK'
  <2>1. leases' \in Seq(Devices)
    BY <1>22, AppendProperties DEF Lease
  <2>2. renewed' \in BOOLEAN
    BY <1>22 DEF Lease
  <2> QED
    BY <1>22, <2>1, <2>2 DEF Lease, script, daemons, driver
<1>23. CASE SourceStep
  BY <1>23 DEF SourceStep, script, daemons, driver, network
<1>24. CASE UNCHANGED vars
  BY <1>24 DEF vars, script, daemons, driver, network
<1> QED
  BY <1>1, <1>2, <1>3, <1>4, <1>5, <1>6, <1>7, <1>8, <1>9, <1>10, <1>11, <1>12, <1>13,
     <1>14, <1>15, <1>16, <1>17, <1>18, <1>19, <1>20, <1>21, <1>22, <1>23, <1>24
     DEF Next, Script, MainLoop, ConnectionWait, Environment

(* Where the script is tells whether there is a connection.                *)
LEMMA CalledKept ==
  ASSUME ScriptTypeOK, RtspInv, Called, Fresh, [Next]_vars PROVE Called'
<1> USE DEF Called
<1>1. UNCHANGED rtspVars \/ SinkStep \/ SourceStep \/ Connect \/ Return
  BY RtspKept
<1>2. CASE SinkStep \/ SourceStep
  <2>1. /\ stage \in Receiving /\ stage' # "none"
        /\ pc' = pc /\ renewed' = renewed
    BY <1>2, TalkKept DEF SinkStep, SourceStep, script, network
  <2>2. pc = "rtsp"
    BY <2>1 DEF Receiving
  <2> QED
    BY <2>1, <2>2
<1>3. CASE Connect
  <2>1. pc = "connect" /\ stage = "none" /\ renewed' = renewed
    BY <1>3 DEF Connect, network
  <2>2. CASE Open /\ pc' = "rtsp"
    BY <2>2 DEF Open
  <2>3. CASE ip \notin stations /\ pc' = "dead" /\ UNCHANGED rtspVars
    <3>1. renewed
      BY <2>1, <2>3 DEF Fresh, Admitting
    <3>2. renewed' /\ stage' = stage
      BY <2>1, <2>3, <3>1 DEF rtspVars
    <3> QED
      BY <2>1, <2>3, <3>2
  <2> QED
    BY <1>3, <2>2, <2>3 DEF Connect
<1>4. CASE Return
  <2>1. CASE Forget /\ pc' = "stop"
    BY <2>1 DEF Forget
  <2>2. CASE stage = "raised" /\ pc' = "dead" /\ UNCHANGED rtspVars
    BY <2>2 DEF rtspVars
  <2> QED
    BY <1>4, <2>1, <2>2 DEF Return
<1>5. CASE UNCHANGED rtspVars /\ ~ Connect /\ ~ Return /\ ~ SinkStep /\ ~ SourceStep
  <2>1. stage' = stage
    BY <1>5 DEF rtspVars
  <2>2. CASE StartDhcp \/ ReadStamp \/ ReadLease \/ StopDhcp \/ KillCore \/ ConnectionWait
    <3>1. pc \notin {"rtsp", "dead"} /\ pc' \notin {"rtsp", "dead"}
      BY <2>2 DEF StartDhcp, ReadStamp, ReadLease, StopDhcp, KillCore, ConnectionWait,
         KillHostapd, Disable, Enable, Poll, Scan, PollNego, StartHostapd, Wps,
         ReadStations, Goto
    <3> QED
      BY <2>1, <3>1
  <2>3. CASE \/ UNCHANGED vars \/ DiscoveryRequest \/ GiveUp \/ Agree
             \/ \E d \in Devices : Associate(d) \/ Lease(d)
    <3>1. pc' = pc /\ (renewed' = renewed \/ renewed' = (renewed \/ pc = "killall"))
      BY <2>3 DEF vars, DiscoveryRequest, GiveUp, Agree, Associate, Lease, script, network
    <3> QED
      BY <2>1, <3>1
  <2> QED
    BY <1>5, <2>2, <2>3 DEF Next, Script, MainLoop, Environment
<1> QED
  BY <1>1, <1>2, <1>3, <1>4, <1>5

(* Leases after the time stamp go to stations of the present access point, *)
(* unless one was written before the access point of the last session was  *)
(* killed.                                                                 *)
LEMMA FreshKept ==
  ASSUME ScriptTypeOK, Fresh, [Next]_vars PROVE Fresh'
<1> DEFINE n == Len(leases)
<1>1. /\ n \in Nat /\ prev_ts \in Nat /\ MaxLeases \in Nat /\ prev_ts <= n /\ n <= MaxLeases
      /\ renewed \in BOOLEAN
  BY LenProperties, SessionAssumption DEF ScriptTypeOK, Fresh
<1>2. CASE StartDhcp \/ StopDhcp \/ KillCore \/ Return \/ Connect
  <2>1. UNCHANGED <<prev_ts, network>> /\ pc' \notin Admitting \cup {"killall"}
    BY <1>2 DEF StartDhcp, StopDhcp, KillCore, Return, Connect, Goto, Admitting
  <2> QED
    BY <2>1 DEF Fresh, network, Admitting
<1>3. CASE ReadStamp
  <2>1. prev_ts' = n /\ leases' = leases /\ pc' = "killall"
    BY <1>3 DEF ReadStamp, Goto
  <2> QED
    BY <1>1, <2>1 DEF Fresh, Admitting
<1>4. CASE KillHostapd
  <2>1. /\ pc = "killall" /\ pc' = "disable" /\ leases' = leases /\ prev_ts' = prev_ts
        /\ renewed' = renewed
    BY <1>4 DEF KillHostapd, Goto
  <2>2. ~ renewed => prev_ts + 1 .. n = {}
    BY <1>1, <2>1 DEF Fresh
  <2> QED
    BY <1>1, <2>1, <2>2 DEF Fresh, Admitting
<1>5. CASE ReadLease
  <2>1. /\ pc = "lease" /\ pc' = "connect" /\ leases' = leases /\ prev_ts' = prev_ts
        /\ renewed' = renewed /\ stations' = stations /\ ip' = Last(leases) /\ n # prev_ts
    BY <1>5 DEF ReadLease, Goto, network, LeasedIp
  <2>2. n \in prev_ts + 1 .. Len(leases) /\ Last(leases) = leases[n]
    BY <1>1, <2>1 DEF Last
  <2>3. ~ renewed => \A i \in prev_ts + 1 .. Len(leases) : leases[i] \in stations
    BY <2>1 DEF Fresh, Admitting
  <2> HIDE DEF n
  <2>4. ~ renewed => ip' \in stations
    BY <2>1, <2>2, <2>3
  <2> QED
    BY <1>1, <2>1, <2>3, <2>4 DEF Fresh, n
<1>6. CASE Disable \/ Enable \/ Poll \/ Scan \/ PollNego \/ StartHostapd \/ Wps \/ ReadStations
  <2>1. /\ pc \in Admitting /\ pc' \in Admitting \ {"connect"}
        /\ UNCHANGED <<prev_ts, network>>
    BY <1>6 DEF Disable, Enable, Poll, Scan, PollNego, StartHostapd, Wps, ReadStations, Goto,
       Admitting
  <2>2. leases' = leases /\ stations' = stations /\ renewed' = renewed
    BY <2>1 DEF network
  <2> QED
    BY <2>1, <2>2 DEF Fresh, Admitting
<1>7. CASE SinkStep \/ SourceStep \/ DiscoveryRequest \/ GiveUp \/ Agree \/ UNCHANGED vars
  <2>1. UNCHANGED <<script, network>>
    BY <1>7 DEF SinkStep, SourceStep, DiscoveryRequest, GiveUp, Agree, vars
  <2> QED
    BY <2>1 DEF Fresh, script, network
<1>8. ASSUME NEW d \in Devices, Associate(d) PROVE Fresh'
  <2>1. /\ UNCHANGED <<script, leases, renewed>> /\ stations' = stations \cup {d}
    BY <1>8 DEF Associate
  <2> QED
    BY <2>1 DEF Fresh, script
<1>9. ASSUME NEW d \in Devices, Lease(d) PROVE Fresh'
  <2>1. /\ UNCHANGED <<script, stations>> /\ d \in stations /\ n < MaxLeases
        /\ leases' = Append(leases, d) /\ renewed' = (renewed \/ pc = "killall")
    BY <1>9 DEF Lease
  <2>2. /\ Len(leases') = n + 1 /\ leases'[n + 1] = d
        /\ \A i \in 1 .. n : leases'[i] = leases[i]
    BY <2>1, AppendProperties DEF ScriptTypeOK
  <2>3. prev_ts' = prev_ts /\ prev_ts' <= Len(leases') /\ Len(leases') <= MaxLeases
    BY <1>1, <2>1, <2>2 DEF script
  <2>4. ASSUME ~ renewed', pc' \in Admitting, NEW i \in prev_ts' + 1 .. Len(leases')
        PROVE  leases'[i] \in stations'
    <3>1. ~ renewed /\ pc \in Admitting /\ stations' = stations
      BY <2>1, <2>4 DEF script
    <3>2. \A j \in prev_ts + 1 .. n : leases[j] \in stations
      BY <3>1 DEF Fresh
    <3>3. i = n + 1 \/ (i \in prev_ts + 1 .. n /\ i \in 1 .. n)
      BY <1>1, <2>2, <2>3
    <3> HIDE DEF n
    <3> QED
      BY <2>1, <2>2, <3>1, <3>2, <3>3
  <2>5. ~ renewed' => pc' # "killall" /\ (pc' = "connect" => ip' \in stations')
    BY <2>1 DEF Fresh, script
  <2> QED
    BY <2>3, <2>4, <2>5 DEF Fresh
<1> QED
  BY <1>2, <1>3, <1>4, <1>5, <1>6, <1>7, <1>8, <1>9
     DEF Next, Script, MainLoop, ConnectionWait, Environment

-----------------------------------------------------------------------------
(* The theorems.                                                           *)
LEMMA InitIInv == Init => IInv
<1> SUFFICES ASSUME Init PROVE IInv
  OBVIOUS
<1>1. RtspTypeOK
  <2>1. stage = "none" /\ cseq \in Nat /\ asked \in Nat /\ last_cseq \in Nat
    BY DEF Init, RtspInit
  <2>2. to_sink \in Seq(Message) /\ to_source \in Seq(Message) /\ source = "away"
    BY DEF Init, RtspInit
  <2>3. {reset, merged} \subseteq BOOLEAN /\ granted \subseteq {"M6", "M7"}
    BY DEF Init, RtspInit
  <2> QED
    BY <2>1, <2>2, <2>3 DEF RtspTypeOK
<1>2. ScriptTypeOK
  <2>1. pc \in Pcs /\ ip \in Devices \cup {NoDevice} /\ count \in 0 .. 4 /\ p2p \in DOMAIN Reads
    BY DriverStates DEF Init, Pcs
  <2>2. prev_ts \in 0 .. MaxLeases /\ requests \in 0 .. MaxRequests
    BY SessionAssumption DEF Init
  <2>3. {core, dhcp, hostapd, wps, renewed} \subseteq BOOLEAN
    BY DEF Init
  <2>4. stations \subseteq Devices /\ leases \in Seq(Devices)
    BY DEF Init
  <2> QED
    BY <2>1, <2>2, <2>3, <2>4 DEF ScriptTypeOK
<1>3. RtspInv
  BY <1>1 DEF RtspInv, Init, RtspInit, InStep, There, SetUp, Carries
<1>4. Called /\ Fresh
  <2>1. Len(leases) = 0
    BY EmptyElements DEF Init
  <2> QED
    BY <2>1, SessionAssumption DEF Init, RtspInit, Called, Fresh, Admitting
<1> QED
  BY <1>1, <1>2, <1>3, <1>4, Types DEF IInv

LEMMA NextIInv == IInv /\ [Next]_vars => IInv'
<1> SUFFICES ASSUME IInv, [Next]_vars PROVE IInv'
  OBVIOUS
<1>1. ScriptTypeOK /\ RtspInv /\ Called /\ Fresh
  BY Types DEF IInv
<1>2. ScriptTypeOK' /\ RtspInv' /\ Called' /\ Fresh'
  BY <1>1, ScriptTypeKept, RtspKept, CalledKept, FreshKept
<1>3. (TypeOK <=> RtspTypeOK /\ ScriptTypeOK)'
  BY DEF TypeOK, ScriptTypeOK, Pcs
<1> QED
  BY <1>2, <1>3 DEF IInv, RtspInv

(* The invariant on which the rest stands: for any number of sources,      *)
(* leases and requests, stage, queues and numbers of the two sides of the  *)
(* conversation fit each other as the At predicates say, the script is in  *)
(* its RTSP part exactly while there is a connection, and leases after the *)
(* time stamp are those of the present access point.                       *)
THEOREM SessionInvariant == Spec => []IInv
<1>1. Init => IInv
  BY InitIInv
<1>2. IInv /\ [Next]_vars => IInv'
  BY NextIInv
<1> QED
  BY <1>1, <1>2, PTL DEF Spec

(* Every variable of the loop and of the exchange keeps its type.          *)
THEOREM TypesAreKept == Spec => []TypeOK
<1>1. IInv => TypeOK
  BY DEF IInv
<1> QED
  BY <1>1, SessionInvariant, PTL

(* source_connect sends PLAY (M7) only with SETUP (M6) granted and enters  *)
(* its loop of keepalives only with PLAY granted or the source gone,       *)
(* however recv merges messages and whenever the source leaves.            *)
THEOREM SetUpBeforePlay == Spec => []PlayGranted
<1>1. IInv => PlayGranted
  <2> SUFFICES ASSUME IInv PROVE PlayGranted
    OBVIOUS
  <2>1. stage \in {"m7_rsp", "keepalive"} => "M6" \in granted
    BY DEF IInv, RtspInv, SetUp
  <2>2. ASSUME stage = "keepalive", source # "left" PROVE "M7" \in granted
    <3>1. source # "away" /\ source \in {"away", "talking", "playing", "left"}
      BY <2>2 DEF IInv, RtspInv, RtspTypeOK
    <3>2. There
      BY <2>2, <3>1 DEF There
    <3> QED
      BY <2>2, <3>2 DEF IInv, RtspInv, InStep
  <2> QED
    BY <2>1, <2>2 DEF PlayGranted
<1> QED
  BY <1>1, SessionInvariant, PTL

(* The numbers source_connect puts into its answers, fixed up to M5 and    *)
(* counted in the keepalives, are those of the open request of a source    *)
(* that is there, for any number of keepalives.                            *)
THEOREM AnswersAreInTurn == Spec => []AnswersInTurn
<1>1. IInv => AnswersInTurn
  <2> SUFFICES ASSUME IInv, There, NEW i \in DOMAIN to_source,
                      to_source[i].type = "response"
               PROVE  to_source[i].cseq = asked
    BY DEF AnswersInTurn, There
  <2>1. /\ stage \in Receiving
        /\ stage = "m1_req" => AtM1
        /\ stage = "m2_rsp" => AtM2
        /\ stage = "m3_req" => AtM3
        /\ stage = "m4_req" => AtM4
        /\ stage = "m5_req" => AtM5
        /\ stage = "m6_rsp" => AtM6
        /\ stage = "m7_rsp" => AtM7
        /\ stage = "keepalive" => AtPlay
    BY DEF IInv, RtspInv, InStep
  <2>2. \/ to_source = <<>>
        \/ \E n, c : to_source = <<Request(n, c)>>
        \/ \E n : to_source = <<Response(n, asked)>>
        \/ \E n, k, c : to_source = <<Response(n, asked), Request(k, c)>>
    BY <2>1 DEF AtM1, AtM2, AtM3, AtM4, AtM5, AtM6, AtM7, AtPlay, Conv, Receiving
  <2>3. CASE to_source = <<>>
    BY <2>3
  <2>4. ASSUME NEW n, NEW c, to_source = <<Request(n, c)>> PROVE FALSE
    <3>1. i = 1 /\ to_source[1] = Request(n, c)
      BY <2>4
    <3> QED
      BY <3>1, Kinds
  <2>5. ASSUME NEW n, to_source = <<Response(n, asked)>> PROVE to_source[i].cseq = asked
    <3>1. i = 1 /\ to_source[1] = Response(n, asked)
      BY <2>5
    <3> QED
      BY <3>1, Kinds
  <2>6. ASSUME NEW n, NEW k, NEW c, to_source = <<Response(n, asked), Request(k, c)>>
        PROVE  to_source[i].cseq = asked
    <3>1. /\ i = 1 \/ i = 2
          /\ to_source[1] = Response(n, asked) /\ to_source[2] = Request(k, c)
      BY <2>6
    <3> QED
      BY <3>1, Kinds
  <2> QED
    BY <2>2, <2>3, <2>4, <2>5, <2>6
<1> QED
  BY <1>1, SessionInvariant, PTL

(* piracast.py dies of an exception only if the source left, or if a lease *)
(* was written between the reading of the time stamp and killall hostapd,  *)
(* for any number of sources, requests, scans and leases.                  *)
THEOREM DeathHasAReason == Spec => []DiesForAReason
<1>1. IInv => DiesForAReason
  <2> SUFFICES ASSUME IInv, pc = "dead", ~ renewed PROVE source = "left"
    BY DEF DiesForAReason
  <2>1. stage = "raised"
    BY DEF IInv, Called
  <2>2. source # "away" /\ source \in {"away", "talking", "playing", "left"}
    BY <2>1 DEF IInv, RtspInv, RtspTypeOK
  <2>3. ~ There
    BY <2>1 DEF IInv, RtspInv, InStep, Receiving
  <2> QED
    BY <2>2, <2>3 DEF There
<1> QED
  BY <1>1, SessionInvariant, PTL
=============================================================================
