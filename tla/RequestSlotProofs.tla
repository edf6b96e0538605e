-------------------------- MODULE RequestSlotProofs -------------------------
(***************************************************************************)
(* Requests and replies: what each step does to the open requests, and to  *)
(* the messages that open, answer and follow them.                         *)
(***************************************************************************)
EXTENDS SessionSteps, AnyPeerProofs

\* A leaf that names no prover is for Zenon.
USE ZenonT(60)

-----------------------------------------------------------------------------
(* Queues.                                                                  *)

\* What is in a queue after a message was sent.
LEMMA HasAppend ==
  ASSUME NEW q \in Seq(Message), NEW x \in Message, NEW s, NEW types
  PROVE  Has(Append(q, x), s, types) <=> Has(q, s, types) \/ Match(x, s, types)
  <1>1. /\ DOMAIN Append(q, x) = 1 .. Len(q) + 1 /\ DOMAIN q = 1 .. Len(q) /\ Len(q) \in Nat
        /\ \A i \in 1 .. Len(q) : Append(q, x)[i] = q[i]
        /\ Append(q, x)[Len(q) + 1] = x
    BY SMTT(30)
  <1> DEFINE q2 == Append(q, x)
  <1> HIDE DEF q2
  <1>2. \A i \in 1 .. Len(q) + 1 : i \in 1 .. Len(q) \/ i = Len(q) + 1
    BY <1>1, SMTT(30)
  <1>3. Len(q) + 1 \in 1 .. Len(q) + 1 /\ 1 .. Len(q) \subseteq 1 .. Len(q) + 1
    BY <1>1, SMTT(30)
  <1>4. QED
    BY <1>1, <1>2, <1>3 DEF Has, q2

\* What is in a queue whose first message is read.
LEMMA HasTail ==
  ASSUME NEW q \in Seq(Message), q # <<>>, NEW s, NEW types
  PROVE  Has(q, s, types) <=> Match(Head(q), s, types) \/ Has(Tail(q), s, types)
  <1>1. /\ Len(q) \in Nat \ {0} /\ DOMAIN q = 1 .. Len(q) /\ DOMAIN Tail(q) = 1 .. Len(q) - 1
        /\ Head(q) = q[1] /\ \A i \in 1 .. Len(q) - 1 : Tail(q)[i] = q[i + 1]
    BY SMTT(30)
  <1>2. ASSUME NEW i \in DOMAIN q, Match(q[i], s, types)
        PROVE  Match(Head(q), s, types) \/ Has(Tail(q), s, types)
    <2>1. CASE i = 1
      BY <1>1, <1>2, <2>1
    <2>2. CASE i # 1
      <3>1. i - 1 \in 1 .. Len(q) - 1 /\ (i - 1) + 1 = i
        BY <1>1, <2>2, SMTT(30)
      <3>2. Tail(q)[i - 1] = q[i] /\ i - 1 \in DOMAIN Tail(q)
        BY <1>1, <3>1
      <3>3. QED
        BY <1>2, <3>2 DEF Has
    <2>3. QED
      BY <2>1, <2>2
  <1>3. ASSUME NEW i \in DOMAIN Tail(q), Match(Tail(q)[i], s, types)
        PROVE  Has(q, s, types)
    <2>1. i + 1 \in DOMAIN q /\ q[i + 1] = Tail(q)[i]
      BY <1>1, SMTT(30)
    <2>2. QED
      BY <1>3, <2>1 DEF Has
  <1>4. Match(Head(q), s, types) => Has(q, s, types)
    BY <1>1, SMTT(30) DEF Has
  <1>5. QED
    BY <1>2, <1>3, <1>4 DEF Has

\* A message that is sent is the last.
LEMMA AppendOrder ==
  ASSUME NEW q \in Seq(Message), NEW x \in Message, NEW s, NEW T, NEW U
  PROVE  /\ AtMostOne(q, s, T) /\ (Match(x, s, T) => ~Has(q, s, T))
              => AtMostOne(Append(q, x), s, T)
         /\ Before(q, s, T, U) /\ (Match(x, s, T) => ~Has(q, s, U) /\ ~Match(x, s, U))
              => Before(Append(q, x), s, T, U)
  <1>1. /\ DOMAIN Append(q, x) = 1 .. Len(q) + 1 /\ DOMAIN q = 1 .. Len(q) /\ Len(q) \in Nat
        /\ \A i \in 1 .. Len(q) : Append(q, x)[i] = q[i]
        /\ Append(q, x)[Len(q) + 1] = x
    BY SMTT(30)
  <1>2. \A i \in 1 .. Len(q) + 1 : i \in 1 .. Len(q) \/ i = Len(q) + 1
    BY <1>1, SMTT(30)
  <1>3. \A i \in 1 .. Len(q) : i < Len(q) + 1
    BY <1>1, SMTT(30)
  <1> DEFINE q2 == Append(q, x)
  <1>4. ASSUME AtMostOne(q, s, T), Match(x, s, T) => ~Has(q, s, T)
        PROVE  AtMostOne(q2, s, T)
    <2> HIDE DEF q2
    <2> SUFFICES ASSUME NEW i \in 1 .. Len(q) + 1, NEW j \in 1 .. Len(q) + 1,
                        Match(q2[i], s, T), Match(q2[j], s, T)
                 PROVE  i = j
      BY <1>1 DEF AtMostOne, q2
    <2>1. CASE i \in 1 .. Len(q) /\ j \in 1 .. Len(q)
      BY <1>1, <1>4, <2>1 DEF AtMostOne, q2
    <2>2. CASE i = Len(q) + 1 \/ j = Len(q) + 1
      BY <1>1, <1>2, <1>4, <2>2 DEF Has, q2
    <2>3. QED
      BY <1>2, <2>1, <2>2
  <1>5. ASSUME Before(q, s, T, U), Match(x, s, T) => ~Has(q, s, U) /\ ~Match(x, s, U)
        PROVE  Before(q2, s, T, U)
    <2> HIDE DEF q2
    <2> SUFFICES ASSUME NEW i \in 1 .. Len(q) + 1, NEW j \in 1 .. Len(q) + 1,
                        Match(q2[i], s, T), Match(q2[j], s, U)
                 PROVE  i < j
      BY <1>1 DEF Before, q2
    <2>1. CASE i \in 1 .. Len(q) /\ j \in 1 .. Len(q)
      BY <1>1, <1>5, <2>1 DEF Before, q2
    <2>2. CASE i = Len(q) + 1
      BY <1>1, <1>2, <1>5, <2>2 DEF Has, q2
    <2>3. CASE i \in 1 .. Len(q) /\ j = Len(q) + 1
      BY <1>3, <2>3
    <2>4. QED
      BY <1>2, <2>1, <2>2, <2>3
  <1>6. QED
    BY <1>4, <1>5

\* The message that is read was the first.
LEMMA TailOrder ==
  ASSUME NEW q \in Seq(Message), q # <<>>, NEW s, NEW T, NEW U
  PROVE  /\ AtMostOne(q, s, T) => /\ AtMostOne(Tail(q), s, T)
                                  /\ Match(Head(q), s, T) => ~Has(Tail(q), s, T)
         /\ Before(q, s, T, U) => /\ Before(Tail(q), s, T, U)
                                  /\ Match(Head(q), s, U) => ~Has(q, s, T)
  <1>1. /\ Len(q) \in Nat \ {0} /\ DOMAIN q = 1 .. Len(q) /\ DOMAIN Tail(q) = 1 .. Len(q) - 1
        /\ Head(q) = q[1] /\ \A i \in 1 .. Len(q) - 1 : Tail(q)[i] = q[i + 1]
    BY SMTT(30)
  <1>2. /\ 1 \in DOMAIN q
        /\ \A i \in DOMAIN Tail(q) : i + 1 \in DOMAIN q /\ i + 1 # 1 /\ Tail(q)[i] = q[i + 1]
        /\ \A i, j \in DOMAIN Tail(q) : /\ i + 1 = j + 1 => i = j
                                        /\ i + 1 < j + 1 => i < j
        /\ \A i \in DOMAIN q : ~(i < 1)
    BY <1>1, SMTT(30)
  <1> DEFINE t == Tail(q)
  <1>3. /\ AtMostOne(q, s, T) => AtMostOne(t, s, T)
        /\ Before(q, s, T, U) => Before(t, s, T, U)
    <2> HIDE DEF t
    <2>1. AtMostOne(q, s, T) => AtMostOne(t, s, T)
      BY <1>2 DEF AtMostOne, t
    <2>2. Before(q, s, T, U) => Before(t, s, T, U)
      BY <1>2 DEF Before, t
    <2>3. QED
      BY <2>1, <2>2
  <1>4. AtMostOne(q, s, T) /\ Match(Head(q), s, T) => ~Has(t, s, T)
    BY <1>1, <1>2 DEF AtMostOne, Has
  <1>5. Before(q, s, T, U) /\ Match(Head(q), s, U) => ~Has(q, s, T)
    BY <1>1, <1>2 DEF Before, Has
  <1>6. QED
    BY <1>3, <1>4, <1>5

\* The kinds of what is in a queue.
LEMMA Kinds ==
  ASSUME NEW q \in Seq(Message), NEW s, NEW types, NEW kind
  PROVE  /\ \A x \in Message : OfKind(Append(q, x), s, types, kind) <=>
              OfKind(q, s, types, kind) /\ (Match(x, s, types) => KindOf(x.type) = kind)
         /\ q # <<>> /\ OfKind(q, s, types, kind) =>
              /\ OfKind(Tail(q), s, types, kind)
              /\ Match(Head(q), s, types) => KindOf(Head(q).type) = kind
         /\ ~Has(q, s, types) => OfKind(q, s, types, kind)
         /\ OfKind(q, s, types, kind) /\ (\A t \in types : KindOf(t) # kind) => ~Has(q, s, types)
  <1>1. ASSUME NEW x \in Message
        PROVE  OfKind(Append(q, x), s, types, kind) <=>
                 OfKind(q, s, types, kind) /\ (Match(x, s, types) => KindOf(x.type) = kind)
    <2>1. /\ DOMAIN Append(q, x) = 1 .. Len(q) + 1 /\ DOMAIN q = 1 .. Len(q) /\ Len(q) \in Nat
          /\ \A i \in 1 .. Len(q) : Append(q, x)[i] = q[i]
          /\ Append(q, x)[Len(q) + 1] = x
      BY SMTT(30)
    <2>2. /\ \A i \in 1 .. Len(q) + 1 : i \in 1 .. Len(q) \/ i = Len(q) + 1
          /\ Len(q) + 1 \in 1 .. Len(q) + 1 /\ 1 .. Len(q) \subseteq 1 .. Len(q) + 1
      BY <2>1, SMTT(30)
    <2> DEFINE q2 == Append(q, x)
    <2> HIDE DEF q2
    <2>3. QED
      BY <2>1, <2>2 DEF OfKind, q2
  <1>2. ASSUME q # <<>>, OfKind(q, s, types, kind)
        PROVE  /\ OfKind(Tail(q), s, types, kind)
               /\ Match(Head(q), s, types) => KindOf(Head(q).type) = kind
    <2>1. /\ Len(q) \in Nat \ {0} /\ DOMAIN q = 1 .. Len(q) /\ DOMAIN Tail(q) = 1 .. Len(q) - 1
          /\ Head(q) = q[1] /\ \A i \in 1 .. Len(q) - 1 : Tail(q)[i] = q[i + 1]
      BY <1>2, SMTT(30)
    <2>2. /\ 1 \in DOMAIN q
          /\ \A i \in DOMAIN Tail(q) : i + 1 \in DOMAIN q /\ Tail(q)[i] = q[i + 1]
      BY <2>1, SMTT(30)
    <2> DEFINE t == Tail(q)  h == Head(q)
    <2> HIDE DEF t, h
    <2>3. QED
      BY <1>2, <2>1, <2>2 DEF OfKind, t, h
  <1>3. ~Has(q, s, types) => OfKind(q, s, types, kind)
    BY DEF Has, OfKind
  <1>4. ASSUME OfKind(q, s, types, kind), \A t \in types : KindOf(t) # kind
        PROVE  ~Has(q, s, types)
    BY <1>4 DEF Has, OfKind, Match
  <1>5. QED
    BY <1>1, <1>2, <1>3, <1>4

-----------------------------------------------------------------------------
(* Requests and replies of one scope.                                       *)

\* Requests and replies are told apart and open and close a slot.
Exchange(request, reply) ==
  /\ \A t \in request \cup reply : KindOf(t) # Idle
  /\ request \cap reply = {}

\* So it is for the requests and replies of both sides.
LEMMA Exchanges ==
  Exchange(RouterRequest, ModemReply) /\ Exchange(ModemRequest, RouterReply)
  /\ Exchange(ModemRequest, ModemReply) /\ Exchange(RouterRequest, RouterReply)
  <1>1. \A t \in RouterRequest \cup ModemReply \cup ModemRequest \cup RouterReply : KindOf(t) # Idle
    BY DEF RouterRequest, ModemReply, ModemRequest, RouterReply, KindOf, Idle
  <1>2. /\ RouterRequest \cap ModemReply = {} /\ ModemRequest \cap RouterReply = {}
        /\ ModemRequest \cap ModemReply = {} /\ RouterRequest \cap RouterReply = {}
    BY DEF RouterRequest, ModemReply, ModemRequest, RouterReply
  <1>3. QED
    BY <1>1, <1>2 DEF Exchange

\* The peer sends: a reply to the open request when nothing else of it is under
\* way, or a request that is its only one.
LEMMA SideAppend ==
  ASSUME NEW q \in Seq(Message), NEW x \in Message, NEW s, NEW reply, NEW request,
         NEW tx, NEW cr \in BOOLEAN, NEW cr2 \in BOOLEAN, cr => cr2,
         request \cap reply = {},
         Side(q, s, reply, request, tx, cr),
         Match(x, s, reply) => ~Has(q, s, reply) /\ ~Has(q, s, request) /\ KindOf(x.type) = tx,
         Match(x, s, request) => /\ ~Has(q, s, request)
                                 /\ Has(q, s, reply) \/ tx = Idle \/ cr2
  PROVE  Side(Append(q, x), s, reply, request, tx, cr2)
  <1>1. Match(x, s, reply) => ~Match(x, s, request)
    BY DEF Match
  <1>2. AtMostOne(Append(q, x), s, reply) /\ AtMostOne(Append(q, x), s, request)
    BY AppendOrder DEF Side
  <1>3. Before(Append(q, x), s, reply, request)
    BY <1>1, AppendOrder DEF Side
  <1>4. OfKind(Append(q, x), s, reply, tx)
    BY Kinds DEF Side
  <1>5. Has(Append(q, x), s, request) => Has(Append(q, x), s, reply) \/ tx = Idle \/ cr2
    BY HasAppend DEF Side
  <1>6. QED
    BY <1>2, <1>3, <1>4, <1>5 DEF Side

\* A message of another scope, or neither request nor reply, changes nothing.
LEMMA SideIgnores ==
  ASSUME NEW q \in Seq(Message), NEW x \in Message, NEW s, NEW reply, NEW request,
         NEW tx, NEW cr, request \cap reply = {},
         Side(q, s, reply, request, tx, cr), ~Match(x, s, reply), ~Match(x, s, request)
  PROVE  Side(Append(q, x), s, reply, request, tx, cr)
  <1>1. /\ AtMostOne(Append(q, x), s, reply) /\ AtMostOne(Append(q, x), s, request)
        /\ Before(Append(q, x), s, reply, request)
    BY AppendOrder DEF Side
  <1>2. OfKind(Append(q, x), s, reply, tx)
    BY Kinds DEF Side
  <1>3. Has(Append(q, x), s, request) => Has(Append(q, x), s, reply) \/ tx = Idle \/ cr
    BY HasAppend DEF Side
  <1>4. QED
    BY <1>1, <1>2, <1>3 DEF Side

\* Reading: a reply closes the slot, and anything else leaves it.
LEMMA SideTail ==
  ASSUME NEW q \in Seq(Message), q # <<>>, NEW s, NEW reply, NEW request,
         NEW tx, NEW cr, \A t \in request \cup reply : KindOf(t) # Idle,
         Side(q, s, reply, request, tx, cr)
  PROVE  /\ ~Match(Head(q), s, reply) => Side(Tail(q), s, reply, request, tx, cr)
         /\ Match(Head(q), s, reply) => /\ Side(Tail(q), s, reply, request, Idle, cr)
                                        /\ KindOf(Head(q).type) = tx
                                        /\ ~Has(Tail(q), s, reply)
         /\ Match(Head(q), s, request) => /\ tx = Idle \/ cr
                                          /\ ~Has(q, s, reply) /\ ~Has(Tail(q), s, reply)
                                          /\ ~Has(Tail(q), s, request)
  <1>1. /\ AtMostOne(Tail(q), s, reply) /\ AtMostOne(Tail(q), s, request)
        /\ Before(Tail(q), s, reply, request) /\ OfKind(Tail(q), s, reply, tx)
    BY TailOrder, Kinds DEF Side
  <1>2. Has(q, s, request) <=> Match(Head(q), s, request) \/ Has(Tail(q), s, request)
    BY HasTail
  <1>3. Has(q, s, reply) <=> Match(Head(q), s, reply) \/ Has(Tail(q), s, reply)
    BY HasTail
  <1>4. Tail(q) \in Seq(Message)
    BY SMTT(30)
  <1>5. CASE Match(Head(q), s, reply)
    <2>1. ~Has(Tail(q), s, reply) /\ KindOf(Head(q).type) = tx
      BY <1>5, TailOrder, Kinds DEF Side
    <2>2. OfKind(Tail(q), s, reply, Idle)
      BY <1>4, <2>1, Kinds
    <2>3. ~Match(Head(q), s, request)
      BY <1>3, <1>5, TailOrder DEF Side
    <2>4. QED
      BY <1>1, <1>5, <2>1, <2>2, <2>3 DEF Side
  <1>6. CASE ~Match(Head(q), s, reply)
    <2>1. Side(Tail(q), s, reply, request, tx, cr)
      BY <1>1, <1>2, <1>3, <1>6 DEF Side
    <2>2. Match(Head(q), s, request) => ~Has(q, s, reply) /\ ~Has(Tail(q), s, request)
      BY TailOrder DEF Side
    <2>3. Match(Head(q), s, request) => tx = Idle \/ cr
      BY <1>2, <2>2 DEF Side
    <2>4. QED
      BY <1>3, <1>6, <2>1, <2>2, <2>3
  <1>7. QED
    BY <1>5, <1>6

\* A request is opened, which crosses a request under way.
LEMMA SideOpen ==
  ASSUME NEW q \in Seq(Message), NEW s, NEW reply, NEW request,
         NEW tx, NEW cr \in BOOLEAN, NEW cr2 \in BOOLEAN,
         \A t \in request \cup reply : KindOf(t) # Idle,
         Side(q, s, reply, request, Idle, cr), Has(q, s, request) => cr2
  PROVE  Side(q, s, reply, request, tx, cr2) /\ ~Has(q, s, reply)
  <1>1. ~Has(q, s, reply)
    BY Kinds DEF Side
  <1>2. OfKind(q, s, reply, tx)
    BY <1>1, Kinds
  <1>3. QED
    BY <1>1, <1>2 DEF Side

\* Sending what is no request (or, to the requester, no reply) of this scope.
LEMMA AnsweringIgnores ==
  ASSUME NEW out \in Seq(Message), NEW in \in Seq(Message), NEW x \in Message, NEW s,
         NEW request, NEW reply, NEW tx, NEW held \in BOOLEAN,
         Answering(out, in, s, request, reply, tx, held)
  PROVE  /\ ~Match(x, s, request) => Answering(Append(out, x), in, s, request, reply, tx, held)
         /\ ~Match(x, s, reply) => Answering(out, Append(in, x), s, request, reply, tx, held)
  <1>1. ~Match(x, s, request) => /\ OfKind(Append(out, x), s, request, tx)
                                 /\ Has(Append(out, x), s, request) <=> Has(out, s, request)
    BY Kinds, HasAppend DEF Answering
  <1>2. ~Match(x, s, reply) => (Has(Append(in, x), s, reply) <=> Has(in, s, reply))
    BY HasAppend
  <1>3. QED
    BY <1>1, <1>2 DEF Answering

\* Reading what is no request (or, by the requester, no reply) of this scope.
LEMMA AnsweringSkips ==
  ASSUME NEW out \in Seq(Message), NEW in \in Seq(Message), NEW s,
         NEW request, NEW reply, NEW tx, NEW held \in BOOLEAN,
         Answering(out, in, s, request, reply, tx, held)
  PROVE  /\ out # <<>> /\ ~Match(Head(out), s, request) =>
              Answering(Tail(out), in, s, request, reply, tx, held)
         /\ in # <<>> /\ ~Match(Head(in), s, reply) =>
              Answering(out, Tail(in), s, request, reply, tx, held)
  <1>1. out # <<>> /\ ~Match(Head(out), s, request) =>
          /\ OfKind(Tail(out), s, request, tx)
          /\ Has(Tail(out), s, request) <=> Has(out, s, request)
    BY Kinds, HasTail DEF Answering
  <1>2. in # <<>> /\ ~Match(Head(in), s, reply) => (Has(Tail(in), s, reply) <=> Has(in, s, reply))
    BY HasTail
  <1>3. QED
    BY <1>1, <1>2 DEF Answering

\* A request is opened and sent.
LEMMA AnsweringOpens ==
  ASSUME NEW out \in Seq(Message), NEW in \in Seq(Message), NEW x \in Message, NEW s,
         NEW request, NEW reply, Exchange(request, reply),
         Answering(out, in, s, request, reply, Idle, FALSE), ~Has(in, s, reply),
         Match(x, s, request)
  PROVE  Answering(Append(out, x), in, s, request, reply, KindOf(x.type), FALSE)
  <1>1. ~Has(out, s, request)
    BY Kinds DEF Answering, Exchange
  <1> DEFINE kind == KindOf(x.type)
  <1> HIDE DEF kind
  <1>4. OfKind(out, s, request, kind)
    BY <1>1, Kinds
  <1>5. OfKind(Append(out, x), s, request, kind)
    BY <1>4, Kinds DEF kind
  <1>2. OfKind(Append(out, x), s, request, KindOf(x.type)) /\ Has(Append(out, x), s, request)
    BY <1>5, HasAppend DEF kind
  <1>3. QED
    BY <1>2 DEF Answering

\* The peer reads the request and holds it.
LEMMA AnsweringHolds ==
  ASSUME NEW out \in Seq(Message), NEW in \in Seq(Message), NEW s,
         NEW request, NEW reply, NEW tx,
         Answering(out, in, s, request, reply, tx, FALSE), out # <<>>,
         AtMostOne(out, s, request), Match(Head(out), s, request)
  PROVE  /\ KindOf(Head(out).type) = tx /\ ~Has(in, s, reply)
         /\ Answering(Tail(out), in, s, request, reply, tx, TRUE)
  <1>1. Has(out, s, request) /\ ~Has(Tail(out), s, request)
    BY HasTail, TailOrder
  <1>2. OfKind(Tail(out), s, request, tx) /\ KindOf(Head(out).type) = tx
    BY Kinds DEF Answering
  <1>3. ~Has(in, s, reply)
    BY <1>1 DEF Answering
  <1>4. QED
    BY <1>1, <1>2, <1>3 DEF Answering

\* The peer reads the request and answers it.
LEMMA AnsweringReads ==
  ASSUME NEW out \in Seq(Message), NEW in \in Seq(Message), NEW y \in Message, NEW s,
         NEW request, NEW reply, NEW tx,
         Answering(out, in, s, request, reply, tx, FALSE), out # <<>>,
         AtMostOne(out, s, request), Match(Head(out), s, request), Match(y, s, reply)
  PROVE  /\ KindOf(Head(out).type) = tx /\ ~Has(in, s, reply)
         /\ Answering(Tail(out), Append(in, y), s, request, reply, tx, FALSE)
  <1>1. Has(out, s, request) /\ ~Has(Tail(out), s, request)
    BY HasTail, TailOrder
  <1>2. OfKind(Tail(out), s, request, tx) /\ KindOf(Head(out).type) = tx
    BY Kinds DEF Answering
  <1>3. ~Has(in, s, reply)
    BY <1>1 DEF Answering
  <1>4. Has(Append(in, y), s, reply)
    BY HasAppend
  <1>5. QED
    BY <1>1, <1>2, <1>3, <1>4 DEF Answering

\* A request that was held is answered.
LEMMA AnsweringHeld ==
  ASSUME NEW out \in Seq(Message), NEW in \in Seq(Message), NEW y \in Message, NEW s,
         NEW request, NEW reply, NEW tx,
         Answering(out, in, s, request, reply, tx, TRUE), ~Has(out, s, request),
         Match(y, s, reply)
  PROVE  Answering(out, Append(in, y), s, request, reply, tx, FALSE) /\ ~Has(in, s, reply)
  <1>1. Has(Append(in, y), s, reply)
    BY HasAppend
  <1>2. QED
    BY <1>1 DEF Answering

\* The reply is read: the slot is closed.
LEMMA AnsweringCloses ==
  ASSUME NEW out \in Seq(Message), NEW in \in Seq(Message), NEW s,
         NEW request, NEW reply, NEW tx, NEW held \in BOOLEAN,
         Answering(out, in, s, request, reply, tx, held), in # <<>>,
         AtMostOne(in, s, reply), Match(Head(in), s, reply)
  PROVE  Answering(out, Tail(in), s, request, reply, Idle, FALSE) /\ ~held
  <1>1. Has(in, s, reply)
    BY HasTail
  <1>2. ~Has(out, s, request) /\ ~held
    BY <1>1 DEF Answering
  <1>3. OfKind(out, s, request, Idle)
    BY <1>2, Kinds
  <1>4. QED
    BY <1>2, <1>3 DEF Answering

-----------------------------------------------------------------------------
(* A scope, as one side acts.                                               *)

\* Seen from the other side.
LEMMA SlotsSwap ==
  ASSUME NEW qa, NEW qb, NEW s, NEW Qa, NEW Pa, NEW Qb, NEW Pb, NEW ta, NEW tb,
         NEW ha, NEW hb, NEW la, NEW lb, NEW cr
  PROVE  Slots(qa, qb, s, Qa, Pa, Qb, Pb, ta, tb, ha, hb, la, lb, cr)
           <=> Slots(qb, qa, s, Qb, Pb, Qa, Pa, tb, ta, hb, ha, lb, la, cr)
  BY DEF Slots

\* The history only grows.
LEMMA SlotsCrossed ==
  ASSUME NEW qa, NEW qb, NEW s, NEW Qa, NEW Pa, NEW Qb, NEW Pb, NEW ta, NEW tb,
         NEW ha, NEW hb, NEW la, NEW lb, NEW cr \in BOOLEAN, NEW cr2 \in BOOLEAN,
         Slots(qa, qb, s, Qa, Pa, Qb, Pb, ta, tb, ha, hb, la, lb, cr), cr => cr2
  PROVE  Slots(qa, qb, s, Qa, Pa, Qb, Pb, ta, tb, ha, hb, la, lb, cr2)
  BY DEF Slots, Side

\* Two queues of messages, and what is true or false.
Queues(qa, qb) == qa \in Seq(Message) /\ qb \in Seq(Message)
Flags(ha, hb, la, lb, cr) ==
  ha \in BOOLEAN /\ hb \in BOOLEAN /\ la \in BOOLEAN /\ lb \in BOOLEAN /\ cr \in BOOLEAN

\* A request is opened.
LEMMA SlotsOpen ==
  ASSUME NEW qa, NEW qb, Queues(qa, qb), NEW x \in Message, NEW s,
         NEW Qa, NEW Pa, NEW Qb, NEW Pb, NEW tb, NEW ha, NEW lb,
         NEW cr, NEW cr2,
         Exchange(Qa, Pa), Exchange(Qb, Pb), Exchange(Qa, Pb), Exchange(Qb, Pa),
         Flags(ha, FALSE, TRUE, lb, cr), Flags(ha, FALSE, TRUE, lb, cr2),
         Slots(qa, qb, s, Qa, Pa, Qb, Pb, Idle, tb, ha, FALSE, TRUE, lb, cr),
         Match(x, s, Qa), cr => cr2, Has(qa, s, Qb) => cr2
  PROVE  Slots(qa, Append(qb, x), s, Qa, Pa, Qb, Pb, KindOf(x.type), tb, ha, FALSE,
               TRUE, lb, cr2)
  <1> SUFFICES ASSUME qa \in Seq(Message), qb \in Seq(Message),
                      ha \in BOOLEAN, lb \in BOOLEAN, cr \in BOOLEAN, cr2 \in BOOLEAN
               PROVE  Slots(qa, Append(qb, x), s, Qa, Pa, Qb, Pb, KindOf(x.type), tb, ha, FALSE,
                            TRUE, lb, cr2)
    BY DEF Queues, Flags
  <1> DEFINE kind == KindOf(x.type)
  <1> HIDE DEF kind
  <1>1. Side(qa, s, Pa, Qb, Idle, cr)
    BY DEF Slots
  <1>2. Side(qa, s, Pa, Qb, kind, cr2) /\ ~Has(qa, s, Pa)
    BY <1>1, SideOpen, SMTT(30) DEF Exchange
  <1>3. ~Match(x, s, Pb)
    BY DEF Match, Exchange
  <1>4. ASSUME lb
        PROVE  /\ Side(Append(qb, x), s, Pb, Qa, tb, cr2) /\ ~ha
               /\ Answering(Append(qb, x), qa, s, Qa, Pa, kind, FALSE)
               /\ Answering(qa, Append(qb, x), s, Qb, Pb, tb, FALSE)
    <2>1. /\ Answering(qb, qa, s, Qa, Pa, Idle, ha) /\ Answering(qa, qb, s, Qb, Pb, tb, FALSE)
          /\ Side(qb, s, Pb, Qa, tb, cr) /\ ~ha
      BY <1>4 DEF Slots, Idle
    <2>2. ~Has(qb, s, Qa)
      BY <2>1, Kinds DEF Answering, Exchange
    <2>3. Has(qb, s, Pb) \/ tb = Idle \/ cr2
      BY <2>1 DEF Answering
    <2>4. Qa \cap Pb = {}
      BY DEF Exchange
    <2>5. Side(Append(qb, x), s, Pb, Qa, tb, cr2)
      BY <1>3, <2>1, <2>2, <2>3, <2>4, SideAppend
    <2>6. Answering(Append(qb, x), qa, s, Qa, Pa, kind, FALSE)
      BY <1>2, <2>1, AnsweringOpens DEF kind
    <2>7. Answering(qa, Append(qb, x), s, Qb, Pb, tb, FALSE)
      BY <1>3, <2>1, AnsweringIgnores
    <2>8. QED
      BY <2>1, <2>5, <2>6, <2>7
  <1>5. QED
    BY <1>2, <1>4 DEF Slots, kind

\* Something that belongs to no exchange of this scope is sent.
LEMMA SlotsSend ==
  ASSUME NEW qa, NEW qb, Queues(qa, qb), NEW x \in Message, NEW s,
         NEW Qa, NEW Pa, NEW Qb, NEW Pb, NEW ta, NEW tb, NEW ha,
         NEW hb, NEW la, NEW lb, NEW cr,
         Exchange(Qa, Pb),
         Flags(ha, hb, la, lb, cr),
         Slots(qa, qb, s, Qa, Pa, Qb, Pb, ta, tb, ha, hb, la, lb, cr),
         ~Match(x, s, Qa), ~Match(x, s, Pb)
  PROVE  Slots(qa, Append(qb, x), s, Qa, Pa, Qb, Pb, ta, tb, ha, hb, la, lb, cr)
  <1> SUFFICES ASSUME qa \in Seq(Message), qb \in Seq(Message),
                      ha \in BOOLEAN, hb \in BOOLEAN, la \in BOOLEAN, lb \in BOOLEAN, cr \in BOOLEAN
               PROVE  Slots(qa, Append(qb, x), s, Qa, Pa, Qb, Pb, ta, tb, ha, hb, la, lb, cr)
    BY DEF Queues, Flags
  <1>1. ASSUME lb
        PROVE  Side(Append(qb, x), s, Pb, Qa, tb, cr) /\ (Has(Append(qb, x), s, Qa) => ~ha)
    <2>1. Side(qb, s, Pb, Qa, tb, cr) /\ (Has(qb, s, Qa) => ~ha) /\ Qa \cap Pb = {}
      BY <1>1 DEF Slots, Exchange
    <2>2. Side(Append(qb, x), s, Pb, Qa, tb, cr)
      BY <2>1, SideIgnores
    <2>3. QED
      BY <2>1, <2>2, HasAppend
  <1>2. ASSUME la, lb
        PROVE  /\ Answering(Append(qb, x), qa, s, Qa, Pa, ta, ha)
               /\ Answering(qa, Append(qb, x), s, Qb, Pb, tb, hb)
    <2>1. Answering(qb, qa, s, Qa, Pa, ta, ha) /\ Answering(qa, qb, s, Qb, Pb, tb, hb)
      BY <1>2 DEF Slots
    <2>2. QED
      BY <2>1, AnsweringIgnores
  <1>3. QED
    BY <1>1, <1>2 DEF Slots

\* Something that belongs to no exchange of this scope is read.
LEMMA SlotsSkip ==
  ASSUME NEW qa, NEW qb, Queues(qa, qb), qa # <<>>, NEW s,
         NEW Qa, NEW Pa, NEW Qb, NEW Pb, NEW ta, NEW tb, NEW ha,
         NEW hb, NEW lb, NEW cr, Exchange(Qb, Pa),
         Flags(ha, hb, TRUE, lb, cr),
         Slots(qa, qb, s, Qa, Pa, Qb, Pb, ta, tb, ha, hb, TRUE, lb, cr),
         ~Match(Head(qa), s, Pa), ~Match(Head(qa), s, Qb)
  PROVE  Slots(Tail(qa), qb, s, Qa, Pa, Qb, Pb, ta, tb, ha, hb, TRUE, lb, cr)
  <1> SUFFICES ASSUME qa \in Seq(Message), qb \in Seq(Message),
                      ha \in BOOLEAN, hb \in BOOLEAN, lb \in BOOLEAN, cr \in BOOLEAN
               PROVE  Slots(Tail(qa), qb, s, Qa, Pa, Qb, Pb, ta, tb, ha, hb, TRUE, lb, cr)
    BY DEF Queues, Flags
  <1>1. Side(qa, s, Pa, Qb, ta, cr) /\ (Has(qa, s, Qb) => ~hb)
    BY DEF Slots
  <1>2. Side(Tail(qa), s, Pa, Qb, ta, cr)
    BY <1>1, SideTail DEF Exchange
  <1>3. Has(Tail(qa), s, Qb) => ~hb
    BY <1>1, HasTail
  <1>4. ASSUME lb
        PROVE  /\ Answering(qb, Tail(qa), s, Qa, Pa, ta, ha)
               /\ Answering(Tail(qa), qb, s, Qb, Pb, tb, hb)
    <2>1. Answering(qb, qa, s, Qa, Pa, ta, ha) /\ Answering(qa, qb, s, Qb, Pb, tb, hb)
      BY <1>4 DEF Slots
    <2>2. QED
      BY <2>1, AnsweringSkips
  <1>5. QED
    BY <1>2, <1>3, <1>4 DEF Slots


\* A reply is read: the slot is closed.
LEMMA SlotsClose ==
  ASSUME NEW qa, NEW qb, Queues(qa, qb), qa # <<>>, NEW s,
         NEW Qa, NEW Pa, NEW Qb, NEW Pb, NEW ta, NEW tb, NEW ha,
         NEW lb, NEW cr, Exchange(Qb, Pa),
         Flags(ha, FALSE, TRUE, lb, cr),
         Slots(qa, qb, s, Qa, Pa, Qb, Pb, ta, tb, ha, FALSE, TRUE, lb, cr),
         Match(Head(qa), s, Pa)
  PROVE  Slots(Tail(qa), qb, s, Qa, Pa, Qb, Pb, Idle, tb, ha, FALSE, TRUE, lb, cr)
  <1> SUFFICES ASSUME qa \in Seq(Message), qb \in Seq(Message),
                      ha \in BOOLEAN, lb \in BOOLEAN, cr \in BOOLEAN
               PROVE  Slots(Tail(qa), qb, s, Qa, Pa, Qb, Pb, Idle, tb, ha, FALSE, TRUE, lb, cr)
    BY DEF Queues, Flags
  <1>1. Side(qa, s, Pa, Qb, ta, cr)
    BY DEF Slots
  <1>2. Side(Tail(qa), s, Pa, Qb, Idle, cr)
    BY <1>1, SideTail DEF Exchange
  <1>3. AtMostOne(qa, s, Pa) /\ ~Match(Head(qa), s, Qb)
    BY <1>1 DEF Side, Match, Exchange
  <1>4. ASSUME lb
        PROVE  /\ Answering(qb, Tail(qa), s, Qa, Pa, Idle, FALSE) /\ ~ha
               /\ Answering(Tail(qa), qb, s, Qb, Pb, tb, FALSE)
    <2>1. Answering(qb, qa, s, Qa, Pa, ta, ha) /\ Answering(qa, qb, s, Qb, Pb, tb, FALSE)
      BY <1>4 DEF Slots
    <2>2. Answering(qb, Tail(qa), s, Qa, Pa, Idle, FALSE) /\ ~ha
      BY <1>3, <2>1, AnsweringCloses
    <2>3. Answering(Tail(qa), qb, s, Qb, Pb, tb, FALSE)
      BY <1>3, <2>1, AnsweringSkips
    <2>4. QED
      BY <2>2, <2>3
  <1>5. lb => Side(qb, s, Pb, Qa, tb, cr) /\ (Has(qb, s, Qa) => ~ha)
    BY DEF Slots
  <1>6. QED
    BY <1>2, <1>4, <1>5 DEF Slots

\* A request is read and answered.
LEMMA SlotsReply ==
  ASSUME NEW qa, NEW qb, Queues(qa, qb), qa # <<>>, NEW y \in Message,
         NEW s, NEW Qa, NEW Pa, NEW Qb, NEW Pb, NEW tb, NEW ha,
         NEW lb, NEW cr,
         Exchange(Qa, Pb), Exchange(Qb, Pa),
         Flags(ha, FALSE, TRUE, lb, cr),
         Slots(qa, qb, s, Qa, Pa, Qb, Pb, Idle, tb, ha, FALSE, TRUE, lb, cr),
         Match(Head(qa), s, Qb), Match(y, s, Pb), KindOf(y.type) = KindOf(Head(qa).type)
  PROVE  Slots(Tail(qa), Append(qb, y), s, Qa, Pa, Qb, Pb, Idle, tb, ha, FALSE, TRUE, lb, cr)
  <1> SUFFICES ASSUME qa \in Seq(Message), qb \in Seq(Message),
                      ha \in BOOLEAN, lb \in BOOLEAN, cr \in BOOLEAN
               PROVE  Slots(Tail(qa), Append(qb, y), s, Qa, Pa, Qb, Pb, Idle, tb, ha, FALSE, TRUE,
                            lb, cr)
    BY DEF Queues, Flags
  <1>1. Side(qa, s, Pa, Qb, Idle, cr)
    BY DEF Slots
  <1>2. ~Match(Head(qa), s, Pa) /\ ~Match(y, s, Qa)
    BY DEF Match, Exchange
  <1>3. Side(Tail(qa), s, Pa, Qb, Idle, cr)
    BY <1>1, <1>2, SideTail DEF Exchange
  <1>4. ASSUME lb
        PROVE  /\ Side(Append(qb, y), s, Pb, Qa, tb, cr) /\ (Has(Append(qb, y), s, Qa) => ~ha)
               /\ Answering(Append(qb, y), Tail(qa), s, Qa, Pa, Idle, ha)
               /\ Answering(Tail(qa), Append(qb, y), s, Qb, Pb, tb, FALSE)
    <2>1. /\ Answering(qb, qa, s, Qa, Pa, Idle, ha) /\ Answering(qa, qb, s, Qb, Pb, tb, FALSE)
          /\ Side(qb, s, Pb, Qa, tb, cr) /\ (Has(qb, s, Qa) => ~ha)
      BY <1>4 DEF Slots
    <2>2. ~Has(qb, s, Qa)
      BY <2>1, Kinds DEF Answering, Exchange
    <2>3. AtMostOne(qa, s, Qb)
      BY <1>1 DEF Side
    <2>4. /\ KindOf(Head(qa).type) = tb /\ ~Has(qb, s, Pb)
          /\ Answering(Tail(qa), Append(qb, y), s, Qb, Pb, tb, FALSE)
      BY <2>1, <2>3, AnsweringReads
    <2>5. Qa \cap Pb = {}
      BY DEF Exchange
    <2>6. Side(Append(qb, y), s, Pb, Qa, tb, cr)
      BY <1>2, <2>1, <2>2, <2>4, <2>5, SideAppend
    <2>7. Answering(Append(qb, y), qa, s, Qa, Pa, Idle, ha) /\ Append(qb, y) \in Seq(Message)
      BY <1>2, <2>1, AnsweringIgnores, SMTT(30)
    <2>8. Answering(Append(qb, y), Tail(qa), s, Qa, Pa, Idle, ha)
      BY <1>2, <2>7, AnsweringSkips
    <2>9. Has(Append(qb, y), s, Qa) => ~ha
      BY <1>2, <2>2, HasAppend
    <2>10. QED
      BY <2>4, <2>6, <2>8, <2>9
  <1>5. QED
    BY <1>3, <1>4 DEF Slots

\* A request is read and held: the answer comes later.
LEMMA SlotsHold ==
  ASSUME NEW qa, NEW qb, Queues(qa, qb), qa # <<>>, NEW s,
         NEW Qa, NEW Pa, NEW Qb, NEW Pb, NEW tb, NEW ha,
         NEW lb, NEW cr, Exchange(Qb, Pa),
         Flags(ha, FALSE, TRUE, lb, cr),
         Slots(qa, qb, s, Qa, Pa, Qb, Pb, Idle, tb, ha, FALSE, TRUE, lb, cr),
         Match(Head(qa), s, Qb), KindOf(Head(qa).type) = "LinkCharacteristics"
  PROVE  Slots(Tail(qa), qb, s, Qa, Pa, Qb, Pb, Idle, tb, ha, TRUE, TRUE, lb, cr)
  <1> SUFFICES ASSUME qa \in Seq(Message), qb \in Seq(Message),
                      ha \in BOOLEAN, lb \in BOOLEAN, cr \in BOOLEAN
               PROVE  Slots(Tail(qa), qb, s, Qa, Pa, Qb, Pb, Idle, tb, ha, TRUE, TRUE, lb, cr)
    BY DEF Queues, Flags
  <1>1. Side(qa, s, Pa, Qb, Idle, cr)
    BY DEF Slots
  <1>2. ~Match(Head(qa), s, Pa)
    BY DEF Match, Exchange
  <1>3. Side(Tail(qa), s, Pa, Qb, Idle, cr) /\ ~Has(Tail(qa), s, Qb)
    BY <1>1, <1>2, SideTail DEF Exchange
  <1>4. ASSUME lb
        PROVE  /\ Answering(qb, Tail(qa), s, Qa, Pa, Idle, ha)
               /\ Answering(Tail(qa), qb, s, Qb, Pb, tb, TRUE)
               /\ tb = "LinkCharacteristics"
    <2>1. Answering(qb, qa, s, Qa, Pa, Idle, ha) /\ Answering(qa, qb, s, Qb, Pb, tb, FALSE)
      BY <1>4 DEF Slots
    <2>2. AtMostOne(qa, s, Qb)
      BY <1>1 DEF Side
    <2>3. KindOf(Head(qa).type) = tb /\ Answering(Tail(qa), qb, s, Qb, Pb, tb, TRUE)
      BY <2>1, <2>2, AnsweringHolds
    <2>4. Answering(qb, Tail(qa), s, Qa, Pa, Idle, ha)
      BY <1>2, <2>1, AnsweringSkips
    <2>5. QED
      BY <2>3, <2>4
  <1>5. lb => Side(qb, s, Pb, Qa, tb, cr) /\ (Has(qb, s, Qa) => ~ha)
    BY DEF Slots
  <1>6. lb /\ ha => Idle = "LinkCharacteristics"
    BY DEF Slots
  <1>7. QED
    BY <1>3, <1>4, <1>5, <1>6 DEF Slots

\* A request that was held is answered.
LEMMA SlotsAnswer ==
  ASSUME NEW qa, NEW qb, Queues(qa, qb), NEW y \in Message, NEW s,
         NEW Qa, NEW Pa, NEW Qb, NEW Pb, NEW ta, NEW tb, NEW ha,
         NEW lb, NEW cr,
         Exchange(Qa, Pb), ta = Idle, \A t \in Qa \cup Pa : KindOf(t) # Idle,
         Flags(ha, TRUE, TRUE, lb, cr),
         Slots(qa, qb, s, Qa, Pa, Qb, Pb, ta, tb, ha, TRUE, TRUE, lb, cr),
         Match(y, s, Pb), KindOf(y.type) = "LinkCharacteristics"
  PROVE  Slots(qa, Append(qb, y), s, Qa, Pa, Qb, Pb, ta, tb, ha, FALSE, TRUE, lb, cr)
  <1> SUFFICES ASSUME qa \in Seq(Message), qb \in Seq(Message),
                      ha \in BOOLEAN, lb \in BOOLEAN, cr \in BOOLEAN
               PROVE  Slots(qa, Append(qb, y), s, Qa, Pa, Qb, Pb, ta, tb, ha, FALSE, TRUE, lb, cr)
    BY DEF Queues, Flags
  <1>1. Side(qa, s, Pa, Qb, ta, cr) /\ ~Has(qa, s, Qb)
    BY DEF Slots
  <1>2. ~Match(y, s, Qa)
    BY DEF Match, Exchange
  <1>4. ASSUME lb
        PROVE  /\ Side(Append(qb, y), s, Pb, Qa, tb, cr) /\ (Has(Append(qb, y), s, Qa) => ~ha)
               /\ Answering(Append(qb, y), qa, s, Qa, Pa, ta, ha)
               /\ Answering(qa, Append(qb, y), s, Qb, Pb, tb, FALSE)
    <2>1. /\ Answering(qb, qa, s, Qa, Pa, ta, ha) /\ Answering(qa, qb, s, Qb, Pb, tb, TRUE)
          /\ Side(qb, s, Pb, Qa, tb, cr) /\ (Has(qb, s, Qa) => ~ha)
          /\ tb = "LinkCharacteristics"
      BY <1>4 DEF Slots
    <2>2. ~Has(qb, s, Qa)
      BY <2>1, Kinds DEF Answering
    <2>3. Answering(qa, Append(qb, y), s, Qb, Pb, tb, FALSE) /\ ~Has(qb, s, Pb)
      BY <1>1, <2>1, AnsweringHeld
    <2>5. Qa \cap Pb = {}
      BY DEF Exchange
    <2>6. Side(Append(qb, y), s, Pb, Qa, tb, cr)
      BY <1>2, <2>1, <2>2, <2>3, <2>5, SideAppend
    <2>7. Answering(Append(qb, y), qa, s, Qa, Pa, ta, ha)
      BY <1>2, <2>1, AnsweringIgnores
    <2>9. Has(Append(qb, y), s, Qa) => ~ha
      BY <1>2, <2>2, HasAppend
    <2>10. QED
      BY <2>3, <2>6, <2>7, <2>9
  <1>5. lb /\ ha => ta = "LinkCharacteristics"
    BY DEF Slots
  <1>6. QED
    BY <1>1, <1>4, <1>5 DEF Slots

\* A side that has left the session owes nothing.
LEMMA SlotsLeave ==
  ASSUME NEW qa, NEW qb, NEW s, NEW Qa, NEW Pa, NEW Qb, NEW Pb, NEW ta, NEW tb,
         NEW ha, NEW hb, NEW la, NEW lb, NEW cr, NEW qa2, NEW ta2, NEW hb2,
         Slots(qa, qb, s, Qa, Pa, Qb, Pb, ta, tb, ha, hb, la, lb, cr)
  PROVE  Slots(qa2, qb, s, Qa, Pa, Qb, Pb, ta2, tb, ha, hb2, FALSE, lb, cr)
  BY DEF Slots

-----------------------------------------------------------------------------
(* The slots of both sides, as the router acts and as the modem acts.       *)

RouterSlots(q, p, s, tr, tm, held, lr, lm, cr) ==
  Slots(q, p, s, RouterRequest, ModemReply, ModemRequest, RouterReply, tr, tm, held, FALSE,
        lr, lm, cr)

ModemSlots(p, q, s, tm, tr, held, lm, lr, cr) ==
  Slots(p, q, s, ModemRequest, RouterReply, RouterRequest, ModemReply, tm, tr, FALSE, held,
        lm, lr, cr)

\* They say the same.
LEMMA SlotsSides ==
  ASSUME NEW q, NEW p, NEW s, NEW tr, NEW tm, NEW held, NEW lr, NEW lm, NEW cr
  PROVE  RouterSlots(q, p, s, tr, tm, held, lr, lm, cr)
           <=> ModemSlots(p, q, s, tm, tr, held, lm, lr, cr)
  BY SlotsSwap DEF RouterSlots, ModemSlots

\* The router sends something outside the scope's exchanges.
LEMMA RouterSlotsSend ==
  ASSUME NEW q, NEW p, Queues(q, p), NEW x \in Message, NEW s, NEW tr, NEW tm,
         NEW held, NEW lr, NEW lm, NEW cr, Flags(held, FALSE, lr, lm, cr),
         RouterSlots(q, p, s, tr, tm, held, lr, lm, cr),
         ~Match(x, s, RouterRequest), ~Match(x, s, RouterReply)
  PROVE  RouterSlots(q, Append(p, x), s, tr, tm, held, lr, lm, cr)
  BY SlotsSend, Exchanges DEF RouterSlots

\* Or reads it.
LEMMA RouterSlotsSkip ==
  ASSUME NEW q, NEW p, Queues(q, p), q # <<>>, NEW s, NEW tr, NEW tm,
         NEW held, NEW lm, NEW cr, Flags(held, FALSE, TRUE, lm, cr),
         RouterSlots(q, p, s, tr, tm, held, TRUE, lm, cr),
         ~Match(Head(q), s, ModemReply), ~Match(Head(q), s, ModemRequest)
  PROVE  RouterSlots(Tail(q), p, s, tr, tm, held, TRUE, lm, cr)
  BY SlotsSkip, Exchanges DEF RouterSlots

\* It reads a reply.
LEMMA RouterSlotsClose ==
  ASSUME NEW q, NEW p, Queues(q, p), q # <<>>, NEW s, NEW tr, NEW tm,
         NEW held, NEW lm, NEW cr, Flags(held, FALSE, TRUE, lm, cr),
         RouterSlots(q, p, s, tr, tm, held, TRUE, lm, cr),
         Match(Head(q), s, ModemReply)
  PROVE  RouterSlots(Tail(q), p, s, Idle, tm, held, TRUE, lm, cr)
  BY SlotsClose, Exchanges DEF RouterSlots

\* It answers a request.
LEMMA RouterSlotsReply ==
  ASSUME NEW q, NEW p, Queues(q, p), q # <<>>, NEW y \in Message, NEW s, NEW tm,
         NEW held, NEW lm, NEW cr, Flags(held, FALSE, TRUE, lm, cr),
         RouterSlots(q, p, s, Idle, tm, held, TRUE, lm, cr),
         Match(Head(q), s, ModemRequest), Match(y, s, RouterReply),
         KindOf(y.type) = KindOf(Head(q).type)
  PROVE  RouterSlots(Tail(q), Append(p, y), s, Idle, tm, held, TRUE, lm, cr)
  BY SlotsReply, Exchanges DEF RouterSlots

\* It opens a request.
LEMMA RouterSlotsOpen ==
  ASSUME NEW q, NEW p, Queues(q, p), NEW y \in Message, NEW s, NEW tm,
         NEW held, NEW lm, NEW cr, NEW cr2, Flags(held, FALSE, TRUE, lm, cr),
         Flags(held, FALSE, TRUE, lm, cr2),
         RouterSlots(q, p, s, Idle, tm, held, TRUE, lm, cr),
         Match(y, s, RouterRequest), cr => cr2, Has(q, s, ModemRequest) => cr2
  PROVE  RouterSlots(q, Append(p, y), s, KindOf(y.type), tm, held, TRUE, lm, cr2)
  BY SlotsOpen, Exchanges DEF RouterSlots

\* Requests elsewhere cross.
LEMMA RouterSlotsCrossed ==
  ASSUME NEW q, NEW p, NEW s, NEW tr, NEW tm, NEW held, NEW lr, NEW lm, NEW cr \in BOOLEAN,
         NEW cr2 \in BOOLEAN, RouterSlots(q, p, s, tr, tm, held, lr, lm, cr), cr => cr2
  PROVE  RouterSlots(q, p, s, tr, tm, held, lr, lm, cr2)
  BY SlotsCrossed DEF RouterSlots

\* It leaves.
LEMMA RouterSlotsLeave ==
  ASSUME NEW q, NEW p, NEW s, NEW tr, NEW tm, NEW held, NEW lr, NEW lm, NEW cr, NEW q2,
         NEW tr2, RouterSlots(q, p, s, tr, tm, held, lr, lm, cr)
  PROVE  RouterSlots(q2, p, s, tr2, tm, held, FALSE, lm, cr)
  BY SlotsLeave DEF RouterSlots

\* It joins a modem that has not entered the session.
LEMMA RouterSlotsJoin ==
  ASSUME NEW p, NEW s, NEW tr, NEW tm, NEW held, NEW lr, NEW cr
  PROVE  RouterSlots(<<>>, p, s, tr, tm, held, lr, FALSE, cr)
  <1>1. Side(<<>>, s, ModemReply, ModemRequest, tr, cr) /\ ~Has(<<>>, s, ModemRequest)
    BY SMTT(30) DEF Side, Has, AtMostOne, Before, OfKind
  <1>2. QED
    BY <1>1 DEF RouterSlots, Slots

\* The modem sends something outside the scope's exchanges.
LEMMA ModemSlotsSend ==
  ASSUME NEW q, NEW p, Queues(p, q), NEW x \in Message, NEW s, NEW tr, NEW tm,
         NEW held, NEW lr, NEW lm, NEW cr, Flags(FALSE, held, lm, lr, cr),
         ModemSlots(p, q, s, tm, tr, held, lm, lr, cr),
         ~Match(x, s, ModemRequest), ~Match(x, s, ModemReply)
  PROVE  ModemSlots(p, Append(q, x), s, tm, tr, held, lm, lr, cr)
  BY SlotsSend, Exchanges DEF ModemSlots

\* Or reads it.
LEMMA ModemSlotsSkip ==
  ASSUME NEW q, NEW p, Queues(p, q), p # <<>>, NEW s, NEW tr, NEW tm,
         NEW held, NEW lr, NEW cr, Flags(FALSE, held, TRUE, lr, cr),
         ModemSlots(p, q, s, tm, tr, held, TRUE, lr, cr),
         ~Match(Head(p), s, RouterReply), ~Match(Head(p), s, RouterRequest)
  PROVE  ModemSlots(Tail(p), q, s, tm, tr, held, TRUE, lr, cr)
  BY SlotsSkip, Exchanges DEF ModemSlots

\* It reads a reply.
LEMMA ModemSlotsClose ==
  ASSUME NEW q, NEW p, Queues(p, q), p # <<>>, NEW s, NEW tr, NEW tm,
         NEW lr, NEW cr, Flags(FALSE, FALSE, TRUE, lr, cr),
         ModemSlots(p, q, s, tm, tr, FALSE, TRUE, lr, cr),
         Match(Head(p), s, RouterReply)
  PROVE  ModemSlots(Tail(p), q, s, Idle, tr, FALSE, TRUE, lr, cr)
  BY SlotsClose, Exchanges DEF ModemSlots

\* It answers a request.
LEMMA ModemSlotsReply ==
  ASSUME NEW q, NEW p, Queues(p, q), p # <<>>, NEW y \in Message, NEW s, NEW tr,
         NEW lr, NEW cr, Flags(FALSE, FALSE, TRUE, lr, cr),
         ModemSlots(p, q, s, Idle, tr, FALSE, TRUE, lr, cr),
         Match(Head(p), s, RouterRequest), Match(y, s, ModemReply),
         KindOf(y.type) = KindOf(Head(p).type)
  PROVE  ModemSlots(Tail(p), Append(q, y), s, Idle, tr, FALSE, TRUE, lr, cr)
  BY SlotsReply, Exchanges DEF ModemSlots

\* It holds a link request.
LEMMA ModemSlotsHold ==
  ASSUME NEW q, NEW p, Queues(p, q), p # <<>>, NEW s, NEW tr,
         NEW lr, NEW cr, Flags(FALSE, FALSE, TRUE, lr, cr),
         ModemSlots(p, q, s, Idle, tr, FALSE, TRUE, lr, cr),
         Match(Head(p), s, RouterRequest), KindOf(Head(p).type) = "LinkCharacteristics"
  PROVE  ModemSlots(Tail(p), q, s, Idle, tr, TRUE, TRUE, lr, cr)
  BY SlotsHold, Exchanges DEF ModemSlots

\* It answers the one it held.
LEMMA ModemSlotsAnswer ==
  ASSUME NEW q, NEW p, Queues(p, q), NEW y \in Message, NEW s, NEW tr, NEW tm, tm = Idle,
         NEW lr, NEW cr, Flags(FALSE, TRUE, TRUE, lr, cr),
         ModemSlots(p, q, s, tm, tr, TRUE, TRUE, lr, cr),
         Match(y, s, ModemReply), KindOf(y.type) = "LinkCharacteristics"
  PROVE  ModemSlots(p, Append(q, y), s, tm, tr, FALSE, TRUE, lr, cr)
  <1>1. Exchange(ModemRequest, ModemReply) /\ \A t \in ModemRequest \cup RouterReply : KindOf(t) # Idle
    BY Exchanges DEF Exchange
  <1>2. QED
    BY <1>1, SlotsAnswer DEF ModemSlots

\* It opens a request.
LEMMA ModemSlotsOpen ==
  ASSUME NEW q, NEW p, Queues(p, q), NEW y \in Message, NEW s, NEW tr,
         NEW lr, NEW cr, NEW cr2, Flags(FALSE, FALSE, TRUE, lr, cr),
         Flags(FALSE, FALSE, TRUE, lr, cr2),
         ModemSlots(p, q, s, Idle, tr, FALSE, TRUE, lr, cr),
         Match(y, s, ModemRequest), cr => cr2, Has(p, s, RouterRequest) => cr2
  PROVE  ModemSlots(p, Append(q, y), s, KindOf(y.type), tr, FALSE, TRUE, lr, cr2)
  BY SlotsOpen, Exchanges DEF ModemSlots

\* Requests elsewhere cross.
LEMMA ModemSlotsCrossed ==
  ASSUME NEW q, NEW p, NEW s, NEW tr, NEW tm, NEW held, NEW lr, NEW lm, NEW cr \in BOOLEAN,
         NEW cr2 \in BOOLEAN, ModemSlots(p, q, s, tm, tr, held, lm, lr, cr), cr => cr2
  PROVE  ModemSlots(p, q, s, tm, tr, held, lm, lr, cr2)
  BY SlotsCrossed DEF ModemSlots

\* It leaves.
LEMMA ModemSlotsLeave ==
  ASSUME NEW q, NEW p, NEW s, NEW tr, NEW tm, NEW held, NEW lr, NEW lm, NEW cr, NEW p2,
         NEW tm2, NEW held2, ModemSlots(p, q, s, tm, tr, held, lm, lr, cr)
  PROVE  ModemSlots(p2, q, s, tm2, tr, held2, FALSE, lr, cr)
  BY SlotsLeave DEF ModemSlots

\* It does.
LEMMA SlotsHead ==
  ASSUME NEW qa, NEW qb, Queues(qa, qb), qa # <<>>, NEW s, NEW Qa, NEW Pa, NEW Qb, NEW Pb,
         NEW ta, NEW tb, NEW ha, NEW hb, NEW lb, NEW cr, Flags(ha, hb, TRUE, lb, cr),
         Slots(qa, qb, s, Qa, Pa, Qb, Pb, ta, tb, ha, hb, TRUE, lb, cr)
  PROVE  HeadFits(Head(qa), s, Pa, Qb, ta, hb, cr)
  <1>1. 1 \in DOMAIN qa /\ Head(qa) = qa[1] /\ \A j \in DOMAIN qa : ~(j < 1)
    BY SMTT(30) DEF Queues
  <1>2. Side(qa, s, Pa, Qb, ta, cr) /\ (Has(qa, s, Qb) => ~hb)
    BY DEF Slots
  <1>3. /\ OfKind(qa, s, Pa, ta) /\ Before(qa, s, Pa, Qb)
        /\ Has(qa, s, Qb) => Has(qa, s, Pa) \/ ta = Idle \/ cr
    BY <1>2 DEF Side
  <1>4. Match(Head(qa), s, Qb) => Has(qa, s, Qb) /\ ~Has(qa, s, Pa)
    BY <1>1, <1>3 DEF Before, Has
  <1>5. Match(Head(qa), s, Pa) => ta = KindOf(Head(qa).type)
    BY <1>1, <1>3 DEF OfKind
  <1>6. /\ ~hb => hb = FALSE
        /\ cr => cr = TRUE
    BY DEF Flags
  <1>7. QED
    BY <1>2, <1>3, <1>4, <1>5, <1>6 DEF HeadFits

\* What the router reads.
LEMMA RouterSlotsHead ==
  ASSUME NEW q, NEW p, Queues(q, p), q # <<>>, NEW s, NEW tr, NEW tm, NEW held, NEW lm,
         NEW cr, Flags(held, FALSE, TRUE, lm, cr),
         RouterSlots(q, p, s, tr, tm, held, TRUE, lm, cr)
  PROVE  HeadFits(Head(q), s, ModemReply, ModemRequest, tr, FALSE, cr)
  BY SlotsHead DEF RouterSlots

\* What the modem reads.
LEMMA ModemSlotsHead ==
  ASSUME NEW q, NEW p, Queues(p, q), p # <<>>, NEW s, NEW tr, NEW tm, NEW held, NEW lr,
         NEW cr, Flags(FALSE, held, TRUE, lr, cr),
         ModemSlots(p, q, s, tm, tr, held, TRUE, lr, cr)
  PROVE  HeadFits(Head(p), s, RouterReply, RouterRequest, tm, held, cr)
  BY SlotsHead DEF ModemSlots

\* The modem enters the session: nothing is open and nothing under way.
LEMMA ModemSlotsEnter ==
  ASSUME NEW s, NEW tr, NEW lr, NEW cr, lr => tr = Idle
  PROVE  ModemSlots(<<>>, <<>>, s, Idle, tr, FALSE, TRUE, lr, cr)
  <1>1. \A types, kind : /\ ~Has(<<>>, s, types) /\ AtMostOne(<<>>, s, types)
                         /\ OfKind(<<>>, s, types, kind)
    BY SMTT(30) DEF Has, AtMostOne, OfKind
  <1>2. \A first, second : Before(<<>>, s, first, second)
    BY SMTT(30) DEF Before
  <1>3. QED
    BY <1>1, <1>2 DEF ModemSlots, Slots, Side, Answering

\* What the router does keeps the slots of a scope in order.
LEMMA RouterDoesSlots ==
  ASSUME Wire, Wire', RouterDoes, NEW s \in Scope, ScopeOK(s)
  PROVE  ScopeOK(s)'
  <1> DEFINE held == s \in mPendingLink
             lm == mLive
             tm == MTx(s)
             S(q, p, tr, lr, cr) == RouterSlots(q, p, s, tr, tm, held, lr, lm, cr)
  <1>1. /\ Queues(toRouter, toModem) /\ Queues(toRouter', toModem)
        /\ crossed \in BOOLEAN /\ crossed' \in BOOLEAN
        /\ \A lr \in BOOLEAN : /\ Flags(held, FALSE, lr, lm, crossed)
                              /\ Flags(held, FALSE, lr, lm, crossed')
    <2>1. crossed \in BOOLEAN /\ crossed' \in BOOLEAN
      BY DEF Wire
    <2>2. held \in BOOLEAN /\ lm \in BOOLEAN
      BY SMTT(30) DEF mLive
    <2>3. Queues(toRouter, toModem) /\ Queues(toRouter', toModem)
      BY DEF Wire, RouterTypeOK, ModemTypeOK, Queues
    <2>4. QED
      BY <2>1, <2>2, <2>3 DEF Flags
  <1>2. S(toRouter, toModem, RTx(s), rLive, crossed)
    BY DEF ScopeOK, RouterSlots
  <1>3. MTx(s)' = tm /\ (s \in mPendingLink)' = held /\ mLive' = lm
    BY DEF RouterDoes, RouterAlone, mControl, mTx, MTx, mLive
  <1>4. SUFFICES S(toRouter', toModem', RTx(s)', rLive', crossed')
    BY <1>3 DEF ScopeOK, RouterSlots
  <1>5. toRouter # <<>> => Head(toRouter) \in Message /\ Queues(Tail(toRouter), toModem)
    BY <1>1, SMTT(30) DEF Queues
  <1>6. TRUE \in BOOLEAN /\ FALSE \in BOOLEAN
    OBVIOUS
  <1> HIDE DEF held, lm, tm
  <1>7. ASSUME NEW x \in Message, NEW tr, NEW lr \in BOOLEAN, NEW q, Queues(q, toModem),
               S(q, toModem, tr, lr, crossed), ~Match(x, s, RouterRequest),
               ~Match(x, s, RouterReply)
        PROVE  S(q, Append(toModem, x), tr, lr, crossed)
    BY <1>1, <1>7, RouterSlotsSend
  <1>8. ASSUME NEW tr, S(toRouter, toModem, tr, TRUE, crossed), toRouter # <<>>,
               ~Match(Head(toRouter), s, ModemReply), ~Match(Head(toRouter), s, ModemRequest)
        PROVE  S(Tail(toRouter), toModem, tr, TRUE, crossed)
    BY <1>1, <1>6, <1>8, RouterSlotsSkip
  <1> HIDE DEF S
  <1>9. CASE RouterJoins
    <2>1. /\ rState = "Closed" /\ rState' = "SessionInitPending" /\ toRouter' = toRouter
          /\ toModem' = Append(toModem, Bare("SESSION_INITIALIZATION"))
      BY <1>9 DEF RouterJoins
    <2>2. toRouter' = <<>> /\ lm = FALSE /\ rLive' = TRUE
      BY <2>1 DEF Wire, Handshake, HandshakeStart, lm, mLive, rLive
    <2>3. S(<<>>, toModem', RTx(s)', TRUE, crossed')
      BY <2>2, RouterSlotsJoin DEF S
    <2>4. QED
      BY <2>2, <2>3
  <1>10. CASE RouterGoes
    <2>1. rLive' = FALSE /\ crossed' = crossed
      BY <1>10, SMTT(30) DEF RouterGoes, rLive, Over, history
    <2>2. S(toRouter', toModem, RTx(s)', FALSE, crossed)
      BY <1>2, RouterSlotsLeave DEF S
    <2>3. CASE toModem' = toModem
      BY <2>1, <2>2, <2>3
    <2>4. CASE \/ \E status \in Status : toModem' = Append(toModem, Termination(status))
               \/ toModem' = Append(toModem, Bare("SESSION_TERMINATION_RESPONSE"))
      <3>1. PICK x \in RouterMessage : /\ toModem' = Append(toModem, x)
                                       /\ x.type \notin RouterRequest \cup RouterReply
        <4>1. /\ \A status \in Status : /\ Termination(status) \in RouterMessage
                                        /\ Termination(status).type = "SESSION_TERMINATION"
              /\ Bare("SESSION_TERMINATION_RESPONSE") \in RouterMessage
              /\ Bare("SESSION_TERMINATION_RESPONSE").type = "SESSION_TERMINATION_RESPONSE"
          BY RouterSends DEF Termination, Bare, Msg
        <4>2. /\ "SESSION_TERMINATION" \notin RouterRequest \cup RouterReply
              /\ "SESSION_TERMINATION_RESPONSE" \notin RouterRequest \cup RouterReply
          BY DEF RouterRequest, RouterReply
        <4>3. QED
          BY <2>4, <4>1, <4>2
      <3>2. x \in Message /\ ~Match(x, s, RouterRequest) /\ ~Match(x, s, RouterReply)
        BY <3>1 DEF RouterMessage, Match
      <3>3. S(toRouter', Append(toModem, x), RTx(s)', FALSE, crossed)
        BY <1>1, <1>6, <1>7, <2>2, <3>2
      <3>4. QED
        BY <2>1, <3>1, <3>3
    <2>5. QED
      BY <1>10, <2>3, <2>4 DEF RouterGoes
  <1>11. CASE RouterEnters
    <2>1. /\ rLive = TRUE /\ rLive' = TRUE /\ toRouter # <<>> /\ toRouter' = Tail(toRouter)
          /\ toModem' = toModem /\ crossed' = crossed /\ RTx(s)' = RTx(s)
          /\ Head(toRouter).type = "SESSION_INITIALIZATION_RESPONSE"
      BY <1>11 DEF RouterEnters, RouterReadsHead, rLive, history, RTx, rTx
    <2>2. ~Match(Head(toRouter), s, ModemReply) /\ ~Match(Head(toRouter), s, ModemRequest)
      BY <2>1 DEF Match, ModemReply, ModemRequest
    <2>3. QED
      BY <1>2, <1>8, <2>1, <2>2
  <1>12. CASE RouterNotes
    <2>1. /\ rLive = TRUE /\ rLive' = TRUE /\ toRouter # <<>> /\ toRouter' = Tail(toRouter)
          /\ toModem' = toModem /\ crossed' = crossed /\ RTx(s)' = RTx(s)
          /\ Head(toRouter).type \in {"HEARTBEAT", "DESTINATION_UPDATE"}
      BY <1>12 DEF RouterNotes, RouterStays, RouterReadsHead, rLive, history, RTx, rTx
    <2>2. ~Match(Head(toRouter), s, ModemReply) /\ ~Match(Head(toRouter), s, ModemRequest)
      BY <2>1 DEF Match, ModemReply, ModemRequest
    <2>3. QED
      BY <1>2, <1>8, <2>1, <2>2
  <1>13. CASE RouterTicks
    <2>1. /\ rLive = TRUE /\ rLive' = TRUE /\ toRouter' = toRouter
          /\ toModem' = Append(toModem, Bare("HEARTBEAT")) /\ crossed' = crossed
          /\ RTx(s)' = RTx(s)
      BY <1>13 DEF RouterTicks, RouterStays, rLive, history, RTx, rTx
    <2>2. /\ Bare("HEARTBEAT") \in Message /\ ~Match(Bare("HEARTBEAT"), s, RouterRequest)
          /\ ~Match(Bare("HEARTBEAT"), s, RouterReply)
      BY RouterSends DEF RouterMessage, Match, Bare, Msg, RouterRequest, RouterReply
    <2>3. S(toRouter, Append(toModem, Bare("HEARTBEAT")), RTx(s), TRUE, crossed)
      BY <1>1, <1>2, <1>6, <1>7, <2>1, <2>2
    <2>4. QED
      BY <2>1, <2>3
  <1>14. CASE RouterCloses
    <2>1. /\ rLive = TRUE /\ rLive' = TRUE /\ toRouter # <<>> /\ toRouter' = Tail(toRouter)
          /\ toModem' = toModem /\ crossed' = crossed
          /\ Head(toRouter).type \in ModemReply
          /\ RTx(s)' = IF s = Head(toRouter).mac THEN Idle ELSE RTx(s)
      BY <1>14 DEF RouterCloses, RouterStays, RouterReadsHead, rLive, history
    <2>2. CASE s = Head(toRouter).mac
      <3>1. Match(Head(toRouter), s, ModemReply)
        BY <2>1, <2>2 DEF Match
      <3>2. S(toRouter, toModem, RTx(s), TRUE, crossed)
        BY <1>2, <2>1
      <3>3. S(Tail(toRouter), toModem, Idle, TRUE, crossed)
        BY <1>1, <1>6, <2>1, <3>1, <3>2, RouterSlotsClose DEF S
      <3>4. QED
        BY <2>1, <2>2, <3>3
    <2>3. CASE s # Head(toRouter).mac
      <3>1. ~Match(Head(toRouter), s, ModemReply) /\ ~Match(Head(toRouter), s, ModemRequest)
        BY <2>3 DEF Match
      <3>2. QED
        BY <1>2, <1>8, <2>1, <2>3, <3>1
    <2>4. QED
      BY <2>2, <2>3
  <1>15. ASSUME NEW y \in RouterMessage, RouterReplies(y)
         PROVE  S(toRouter', toModem', RTx(s)', rLive', crossed')
    <2>1. /\ rLive = TRUE /\ rLive' = TRUE /\ toRouter # <<>> /\ toRouter' = Tail(toRouter)
          /\ toModem' = Append(toModem, y) /\ crossed' = crossed /\ RTx(s)' = RTx(s)
          /\ Head(toRouter).type \in ModemRequest /\ RTx(Head(toRouter).mac) = Idle
          /\ y.type \in RouterReply /\ y.mac = Head(toRouter).mac
          /\ KindOf(y.type) = KindOf(Head(toRouter).type) /\ y \in Message
      BY <1>15 DEF RouterReplies, RouterStays, RouterReadsHead, rLive, history, RTx, rTx,
                   RouterMessage
    <2>2. CASE s = y.mac
      <3>1. Match(Head(toRouter), s, ModemRequest) /\ Match(y, s, RouterReply)
        BY <2>1, <2>2 DEF Match
      <3>2. S(toRouter, toModem, Idle, TRUE, crossed)
        BY <1>2, <2>1, <2>2
      <3>3. S(Tail(toRouter), Append(toModem, y), Idle, TRUE, crossed)
        BY <1>1, <1>6, <2>1, <3>1, <3>2, RouterSlotsReply DEF S
      <3>4. QED
        BY <2>1, <2>2, <3>3
    <2>3. CASE s # y.mac
      <3>1. /\ ~Match(Head(toRouter), s, ModemReply) /\ ~Match(Head(toRouter), s, ModemRequest)
            /\ ~Match(y, s, RouterRequest) /\ ~Match(y, s, RouterReply)
        BY <2>1, <2>3 DEF Match
      <3>2. S(Tail(toRouter), toModem, RTx(s), TRUE, crossed)
        BY <1>2, <1>8, <2>1, <3>1
      <3>3. S(Tail(toRouter), Append(toModem, y), RTx(s), TRUE, crossed)
        BY <1>1, <1>5, <1>6, <2>1, <3>1, <3>2, RouterSlotsSend DEF S
      <3>4. QED
        BY <2>1, <3>3
    <2>4. QED
      BY <2>2, <2>3
  <1>16. ASSUME NEW y \in RouterMessage, RouterOpens(y)
         PROVE  S(toRouter', toModem', RTx(s)', rLive', crossed')
    <2>1. /\ rLive = TRUE /\ rLive' = TRUE /\ toRouter' = toRouter
          /\ toModem' = Append(toModem, y) /\ crossed' = (crossed \/ Crosses(y, toRouter))
          /\ RTx(s)' = IF s = y.mac THEN KindOf(y.type) ELSE RTx(s)
          /\ y.type \in RouterRequest /\ RTx(y.mac) = Idle /\ y \in Message
      BY <1>16 DEF RouterOpens, RouterStays, rLive, RouterMessage
    <2>2. crossed => crossed'
      BY <1>1, <2>1
    <2>3. CASE s = y.mac
      <3>1. Match(y, s, RouterRequest)
        BY <2>1, <2>3 DEF Match
      <3>2. Has(toRouter, s, ModemRequest) => crossed'
        <4>1. Has(toRouter, s, ModemRequest) => Crosses(y, toRouter)
          BY <2>1, <2>3 DEF Has, Match, Crosses, Request, ExclusiveRequest, ModemRequest,
                            RouterRequest
        <4>2. QED
          BY <2>1, <4>1
      <3>3. S(toRouter, toModem, Idle, TRUE, crossed)
        BY <1>2, <2>1, <2>3
      <3>4. S(toRouter, Append(toModem, y), KindOf(y.type), TRUE, crossed')
        BY <1>1, <1>6, <2>1, <2>2, <3>1, <3>2, <3>3, RouterSlotsOpen DEF S
      <3>5. QED
        BY <2>1, <2>3, <3>4
    <2>4. CASE s # y.mac
      <3>1. ~Match(y, s, RouterRequest) /\ ~Match(y, s, RouterReply)
        BY <2>4 DEF Match
      <3>2. S(toRouter, Append(toModem, y), RTx(s), TRUE, crossed)
        BY <1>1, <1>2, <1>6, <1>7, <2>1, <3>1
      <3>3. S(toRouter, Append(toModem, y), RTx(s), TRUE, crossed')
        BY <1>1, <2>2, <3>2, RouterSlotsCrossed DEF S
      <3>4. QED
        BY <2>1, <2>4, <3>3
    <2>5. QED
      BY <2>3, <2>4
  <1>17. QED
    BY <1>9, <1>10, <1>11, <1>12, <1>13, <1>14, <1>15, <1>16 DEF RouterDoes

\* What the modem does keeps the slots of both sides in step.
LEMMA ModemDoesSlots ==
  ASSUME Wire, Wire', ModemDoes, NEW s \in Scope, ScopeOK(s)
  PROVE  ScopeOK(s)'
  <1> DEFINE lr == rLive
             tr == RTx(s)
             held == s \in mPendingLink
             S(p, q, tm, h, lm, cr) == ModemSlots(p, q, s, tm, tr, h, lm, lr, cr)
  <1>1. /\ Queues(toModem, toRouter) /\ Queues(toModem', toRouter)
        /\ crossed \in BOOLEAN /\ crossed' \in BOOLEAN /\ held \in BOOLEAN
        /\ \A h \in BOOLEAN, lm \in BOOLEAN : /\ Flags(FALSE, h, lm, lr, crossed)
                                              /\ Flags(FALSE, h, lm, lr, crossed')
    <2>1. crossed \in BOOLEAN /\ crossed' \in BOOLEAN
      BY DEF Wire
    <2>2. held \in BOOLEAN /\ lr \in BOOLEAN
      BY SMTT(30) DEF rLive
    <2>3. Queues(toModem, toRouter) /\ Queues(toModem', toRouter)
      BY DEF Wire, RouterTypeOK, ModemTypeOK, Queues
    <2>4. QED
      BY <2>1, <2>2, <2>3 DEF Flags
  <1>2. S(toModem, toRouter, MTx(s), held, mLive, crossed)
    <2>1. RouterSlots(toRouter, toModem, s, RTx(s), MTx(s), held, rLive, mLive, crossed)
      BY DEF ScopeOK, RouterSlots
    <2>2. QED
      BY <2>1, SlotsSides
  <1>3. RTx(s)' = tr /\ rLive' = lr
    BY DEF ModemDoes, ModemAlone, rControl, rTx, RTx, rLive
  <1>4. SUFFICES S(toModem', toRouter', MTx(s)', (s \in mPendingLink)', mLive', crossed')
    <2>1. ModemSlots(toModem', toRouter', s, MTx(s)', RTx(s)', (s \in mPendingLink)', mLive',
                     rLive', crossed')
      BY <1>3, <1>4
    <2>2. RouterSlots(toRouter', toModem', s, RTx(s)', MTx(s)', (s \in mPendingLink)', rLive',
                      mLive', crossed')
      BY <2>1, SlotsSides
    <2>3. QED
      BY <2>2 DEF ScopeOK, RouterSlots
  <1>5. toModem # <<>> => Head(toModem) \in RouterMessage /\ Queues(Tail(toModem), toRouter)
    BY SMTT(30) DEF Wire, ModemTypeOK, RouterTypeOK, Queues
  <1>6. TRUE \in BOOLEAN /\ FALSE \in BOOLEAN
    OBVIOUS
  <1>7. /\ held => MTx(s) = Idle
        /\ s = NoMac => held = FALSE
    BY MessageConstants, SMTT(30)
    DEF Wire, ModemOwn, ModemRequestsMatchDestinations, MTx, ModemTypeOK
  <1> HIDE DEF held, lr, tr
  <1>8. ASSUME NEW x \in Message, NEW tm, NEW h \in BOOLEAN, NEW lm \in BOOLEAN,
               NEW p, Queues(p, toRouter),
               S(p, toRouter, tm, h, lm, crossed), ~Match(x, s, ModemRequest),
               ~Match(x, s, ModemReply)
        PROVE  S(p, Append(toRouter, x), tm, h, lm, crossed)
    BY <1>1, <1>8, ModemSlotsSend
  <1>9. ASSUME NEW tm, NEW h \in BOOLEAN, S(toModem, toRouter, tm, h, TRUE, crossed),
               toModem # <<>>,
               ~Match(Head(toModem), s, RouterReply), ~Match(Head(toModem), s, RouterRequest)
        PROVE  S(Tail(toModem), toRouter, tm, h, TRUE, crossed)
    BY <1>1, <1>6, <1>9, ModemSlotsSkip
  <1>10. ASSUME toModem # <<>>, mLive = TRUE
         PROVE  /\ Match(Head(toModem), s, RouterReply) => held = FALSE
                /\ Match(Head(toModem), s, RouterRequest) => held = FALSE
    <2>1. HeadFits(Head(toModem), s, RouterReply, RouterRequest, MTx(s), held, crossed)
      BY <1>1, <1>2, <1>6, <1>10, ModemSlotsHead
    <2>2. Match(Head(toModem), s, RouterReply) => MTx(s) # Idle
      BY <2>1, Exchanges DEF HeadFits, Exchange, Match
    <2>3. QED
      BY <1>1, <1>7, <2>1, <2>2 DEF HeadFits
  <1> HIDE DEF S
  <1>11. CASE ModemWaits
    <2>1. /\ mLive' = mLive /\ toModem' = toModem /\ toRouter' = toRouter /\ crossed' = crossed
          /\ MTx(s)' = MTx(s) /\ (s \in mPendingLink)' = held
      BY <1>11 DEF ModemWaits, mLive, history, MTx, mTx, held
    <2>2. QED
      BY <1>2, <2>1
  <1>12. CASE ModemGoes
    <2>1. mLive' = FALSE /\ crossed' = crossed
      BY <1>12 DEF ModemGoes, mLive, Over, history
    <2>2. S(toModem', toRouter, MTx(s)', (s \in mPendingLink)', FALSE, crossed)
      BY <1>2, ModemSlotsLeave DEF S
    <2>3. CASE toRouter' = toRouter
      BY <2>1, <2>2, <2>3
    <2>4. CASE \/ \E status \in Status : toRouter' = Append(toRouter, Termination(status))
               \/ toRouter' = Append(toRouter, Bare("SESSION_TERMINATION_RESPONSE"))
      <3>1. PICK x \in ModemMessage : /\ toRouter' = Append(toRouter, x)
                                      /\ x.type \notin ModemRequest \cup ModemReply
        <4>1. /\ \A status \in Status : /\ Termination(status) \in ModemMessage
                                        /\ Termination(status).type = "SESSION_TERMINATION"
              /\ Bare("SESSION_TERMINATION_RESPONSE") \in ModemMessage
              /\ Bare("SESSION_TERMINATION_RESPONSE").type = "SESSION_TERMINATION_RESPONSE"
          BY ModemSends DEF Termination, Bare, Msg
        <4>2. /\ "SESSION_TERMINATION" \notin ModemRequest \cup ModemReply
              /\ "SESSION_TERMINATION_RESPONSE" \notin ModemRequest \cup ModemReply
          BY DEF ModemRequest, ModemReply
        <4>3. QED
          BY <2>4, <4>1, <4>2
      <3>2. x \in Message /\ ~Match(x, s, ModemRequest) /\ ~Match(x, s, ModemReply)
        BY <3>1 DEF ModemMessage, Match
      <3>3. (s \in mPendingLink)' \in BOOLEAN
        BY SMTT(30)
      <3>4. S(toModem', Append(toRouter, x), MTx(s)', (s \in mPendingLink)', FALSE, crossed)
        BY <1>1, <1>6, <1>8, <2>2, <3>2, <3>3
      <3>5. QED
        BY <2>1, <3>1, <3>4
    <2>5. QED
      BY <1>12, <2>3, <2>4 DEF ModemGoes
  <1>13. CASE ModemEnters
    <2> DEFINE y == SessionMsg("SESSION_INITIALIZATION_RESPONSE", "SUCCESS", InitialMetrics,
                               NoChanges)
    <2>1. /\ mState \in Unbound /\ mLive' = TRUE /\ toModem # <<>> /\ toModem' = Tail(toModem)
          /\ crossed' = crossed /\ MTx(s)' = MTx(s) /\ (s \in mPendingLink)' = held
          /\ toRouter' = Append(toRouter, y)
      BY <1>13 DEF ModemEnters, ModemReadsHead, mLive, history, MTx, mTx, Unbound, held
    <2>2. /\ ModemFresh /\ toRouter = <<>> /\ toModem = <<Bare("SESSION_INITIALIZATION")>>
          /\ rState \in {"Closed", "SessionInitPending", "Terminated"}
      BY <2>1 DEF Wire, Handshake, HandshakeUnbound
    <2>3. /\ toModem' = <<>> /\ MTx(s)' = Idle /\ (s \in mPendingLink)' = FALSE
          /\ lr => tr = Idle
      <3>1. toModem' = <<>>
        BY <2>1, <2>2, SMTT(30)
      <3>2. MTx(s)' = Idle /\ (s \in mPendingLink)' = FALSE
        BY <2>1, <2>2, SMTT(30) DEF ModemFresh, held
      <3>3. lr => tr = Idle
        BY <2>2 DEF Wire, Handshake, HandshakeStart, RouterFresh, lr, tr, rLive
      <3>4. QED
        BY <3>1, <3>2, <3>3
    <2>4. /\ y \in Message /\ ~Match(y, s, ModemRequest) /\ ~Match(y, s, ModemReply)
      BY ModemSends DEF ModemMessage, Match, SessionMsg, Msg, ModemRequest, ModemReply
    <2> HIDE DEF y
    <2>5. S(<<>>, toRouter, Idle, FALSE, TRUE, crossed)
      BY <2>2, <2>3, ModemSlotsEnter DEF S
    <2>6. S(<<>>, Append(toRouter, y), Idle, FALSE, TRUE, crossed)
      BY <1>1, <1>6, <1>8, <2>3, <2>4, <2>5
    <2>7. QED
      BY <2>1, <2>3, <2>6
  <1>14. CASE ModemCloses
    <2>1. /\ mLive = TRUE /\ mLive' = TRUE /\ toModem # <<>> /\ toModem' = Tail(toModem)
          /\ crossed' = crossed /\ (s \in mPendingLink)' = held
          /\ Head(toModem).type \in RouterReply
          /\ MTx(s)' = IF s = Head(toModem).mac THEN Idle ELSE MTx(s)
          /\ \/ toRouter' = toRouter
             \/ \E y \in ModemMessage : /\ y.type = "DESTINATION_UPDATE"
                                        /\ toRouter' = Append(toRouter, y)
      BY <1>14 DEF ModemCloses, ModemStays, ModemReadsHead, mLive, history, held
    <2>2. S(Tail(toModem), toRouter, MTx(s)', held, TRUE, crossed)
      <3>1. CASE s = Head(toModem).mac
        <4>1. Match(Head(toModem), s, RouterReply)
          BY <2>1, <3>1 DEF Match
        <4>2. held = FALSE
          BY <1>10, <2>1, <4>1
        <4>3. S(toModem, toRouter, MTx(s), FALSE, TRUE, crossed)
          BY <1>2, <2>1, <4>2
        <4>4. S(Tail(toModem), toRouter, Idle, FALSE, TRUE, crossed)
          BY <1>1, <1>6, <2>1, <4>1, <4>3, ModemSlotsClose DEF S
        <4>5. QED
          BY <2>1, <3>1, <4>2, <4>4
      <3>2. CASE s # Head(toModem).mac
        <4>1. ~Match(Head(toModem), s, RouterReply) /\ ~Match(Head(toModem), s, RouterRequest)
          BY <3>2 DEF Match
        <4>2. QED
          BY <1>1, <1>2, <1>9, <2>1, <3>2, <4>1
      <3>3. QED
        BY <3>1, <3>2
    <2>3. CASE toRouter' = toRouter
      BY <2>1, <2>2, <2>3
    <2>4. ASSUME NEW y \in ModemMessage, y.type = "DESTINATION_UPDATE",
                 toRouter' = Append(toRouter, y)
          PROVE  S(toModem', toRouter', MTx(s)', (s \in mPendingLink)', mLive', crossed')
      <3>1. y \in Message /\ ~Match(y, s, ModemRequest) /\ ~Match(y, s, ModemReply)
        BY <2>4 DEF ModemMessage, Match, ModemRequest, ModemReply
      <3>2. S(Tail(toModem), Append(toRouter, y), MTx(s)', held, TRUE, crossed)
        BY <1>1, <1>5, <1>6, <1>8, <2>1, <2>2, <3>1
      <3>3. QED
        BY <2>1, <2>4, <3>2
    <2>5. QED
      BY <2>1, <2>3, <2>4
  <1>15. CASE ModemNotes
    <2>1. /\ mLive = TRUE /\ mLive' = TRUE /\ toModem # <<>> /\ toModem' = Tail(toModem)
          /\ toRouter' = toRouter /\ crossed' = crossed /\ MTx(s)' = MTx(s)
          /\ (s \in mPendingLink)' = held /\ Head(toModem).type = "HEARTBEAT"
      BY <1>15 DEF ModemNotes, ModemStays, ModemSame, ModemReadsHead, mLive, history, MTx, mTx,
                   held
    <2>2. ~Match(Head(toModem), s, RouterReply) /\ ~Match(Head(toModem), s, RouterRequest)
      BY <2>1 DEF Match, RouterReply, RouterRequest
    <2>3. QED
      BY <1>1, <1>2, <1>9, <2>1, <2>2
  <1>16. CASE ModemTells
    <2>1. /\ mLive = TRUE /\ mLive' = TRUE /\ toModem' = toModem
          /\ crossed' = crossed /\ MTx(s)' = MTx(s) /\ (s \in mPendingLink)' = held
          /\ \/ toRouter' = toRouter
             \/ \E y \in ModemMessage : /\ y.type \in {"DESTINATION_UPDATE", "HEARTBEAT"}
                                        /\ toRouter' = Append(toRouter, y)
      BY <1>16 DEF ModemTells, ModemStays, ModemSame, mLive, MTx, mTx, held
    <2>2. CASE toRouter' = toRouter
      BY <1>2, <2>1, <2>2
    <2>3. ASSUME NEW y \in ModemMessage, y.type \in {"DESTINATION_UPDATE", "HEARTBEAT"},
                 toRouter' = Append(toRouter, y)
          PROVE  S(toModem', toRouter', MTx(s)', (s \in mPendingLink)', mLive', crossed')
      <3>1. y \in Message /\ ~Match(y, s, ModemRequest) /\ ~Match(y, s, ModemReply)
        BY <2>3 DEF ModemMessage, Match, ModemRequest, ModemReply
      <3>2. S(toModem, Append(toRouter, y), MTx(s), held, TRUE, crossed)
        BY <1>1, <1>2, <1>6, <1>8, <2>1, <3>1
      <3>3. QED
        BY <2>1, <2>3, <3>2
    <2>4. QED
      BY <2>1, <2>2, <2>3
  <1>17. CASE ModemHolds
    <2> DEFINE x == Head(toModem)
    <2>1. /\ mLive = TRUE /\ mLive' = TRUE /\ toModem # <<>> /\ toModem' = Tail(toModem)
          /\ toRouter' = toRouter /\ crossed' = crossed /\ MTx(s)' = MTx(s)
          /\ x.type = "LINK_CHARACTERISTICS_REQUEST" /\ MTx(x.mac) = Idle
          /\ s = x.mac => (s \in mPendingLink)' = TRUE
          /\ s # x.mac => (s \in mPendingLink)' = held
      <3>1. mPendingLink' = mPendingLink \cup {x.mac}
        BY <1>17 DEF ModemHolds
      <3>2. /\ s = x.mac => (s \in mPendingLink)' = TRUE
            /\ s # x.mac => (s \in mPendingLink)' = held
        <4>1. /\ s = x.mac => s \in mPendingLink'
              /\ s # x.mac => (s \in mPendingLink' <=> held)
          BY <3>1 DEF held
        <4>2. (s \in mPendingLink)' \in BOOLEAN
          BY SMTT(30)
        <4>3. QED
          BY <1>1, <4>1, <4>2
      <3>3. QED
        BY <1>17, <3>2 DEF ModemHolds, ModemStays, ModemReadsHead, mLive, history, MTx, mTx
    <2> HIDE DEF x
    <2>2. CASE s = x.mac
      <3>1. Match(x, s, RouterRequest) /\ KindOf(x.type) = "LinkCharacteristics"
        BY <2>1, <2>2 DEF Match, RouterRequest, KindOf
      <3>2. held = FALSE
        BY <1>10, <2>1, <3>1 DEF x
      <3>3. S(toModem, toRouter, Idle, FALSE, TRUE, crossed)
        BY <1>2, <2>1, <2>2, <3>2
      <3>4. S(Tail(toModem), toRouter, Idle, TRUE, TRUE, crossed)
        BY <1>1, <1>6, <2>1, <3>1, <3>3, ModemSlotsHold DEF S, x
      <3>5. QED
        BY <2>1, <2>2, <3>4
    <2>3. CASE s # x.mac
      <3>1. ~Match(Head(toModem), s, RouterReply) /\ ~Match(Head(toModem), s, RouterRequest)
        BY <2>3 DEF Match, x
      <3>2. QED
        BY <1>1, <1>2, <1>9, <2>1, <2>3, <3>1
    <2>4. QED
      BY <2>2, <2>3
  <1>18. ASSUME NEW y \in ModemMessage, ModemReplies(y)
         PROVE  S(toModem', toRouter', MTx(s)', (s \in mPendingLink)', mLive', crossed')
    <2>1. /\ mLive = TRUE /\ mLive' = TRUE /\ toModem # <<>> /\ toModem' = Tail(toModem)
          /\ toRouter' = Append(toRouter, y) /\ crossed' = crossed /\ MTx(s)' = MTx(s)
          /\ (s \in mPendingLink)' = held
          /\ Head(toModem).type \in RouterRequest /\ MTx(Head(toModem).mac) = Idle
          /\ y.type \in ModemReply /\ y.mac = Head(toModem).mac
          /\ KindOf(y.type) = KindOf(Head(toModem).type) /\ y \in Message
      BY <1>18 DEF ModemReplies, ModemStays, ModemReadsHead, mLive, history, MTx, mTx, held,
                   ModemMessage
    <2>2. CASE s = y.mac
      <3>1. Match(Head(toModem), s, RouterRequest) /\ Match(y, s, ModemReply)
        BY <2>1, <2>2 DEF Match
      <3>2. held = FALSE
        BY <1>10, <2>1, <3>1
      <3>3. S(toModem, toRouter, Idle, FALSE, TRUE, crossed)
        BY <1>2, <2>1, <2>2, <3>2
      <3>4. S(Tail(toModem), Append(toRouter, y), Idle, FALSE, TRUE, crossed)
        BY <1>1, <1>6, <2>1, <3>1, <3>3, ModemSlotsReply DEF S
      <3>5. QED
        BY <2>1, <2>2, <3>2, <3>4
    <2>3. CASE s # y.mac
      <3>1. /\ ~Match(Head(toModem), s, RouterReply) /\ ~Match(Head(toModem), s, RouterRequest)
            /\ ~Match(y, s, ModemRequest) /\ ~Match(y, s, ModemReply)
        BY <2>1, <2>3 DEF Match
      <3>2. S(Tail(toModem), toRouter, MTx(s), held, TRUE, crossed)
        BY <1>1, <1>2, <1>9, <2>1, <3>1
      <3>3. S(Tail(toModem), Append(toRouter, y), MTx(s), held, TRUE, crossed)
        BY <1>1, <1>5, <1>6, <1>8, <2>1, <3>1, <3>2
      <3>4. QED
        BY <2>1, <3>3
    <2>4. QED
      BY <2>2, <2>3
  <1>19. ASSUME NEW y \in ModemMessage, ModemOpens(y)
         PROVE  S(toModem', toRouter', MTx(s)', (s \in mPendingLink)', mLive', crossed')
    <2>1. /\ mLive = TRUE /\ mLive' = TRUE /\ toModem' = toModem
          /\ toRouter' = Append(toRouter, y) /\ crossed' = (crossed \/ Crosses(y, toModem))
          /\ MTx(s)' = IF s = y.mac THEN KindOf(y.type) ELSE MTx(s)
          /\ (s \in mPendingLink)' = held /\ (s = y.mac => held = FALSE)
          /\ y.type \in ModemRequest /\ MTx(y.mac) = Idle /\ y \in Message
      BY <1>19, SMTT(30) DEF ModemOpens, ModemStays, mLive, ModemMessage, held
    <2>2. crossed => crossed'
      BY <1>1, <2>1
    <2>3. CASE s = y.mac
      <3>1. Match(y, s, ModemRequest)
        BY <2>1, <2>3 DEF Match
      <3>2. Has(toModem, s, RouterRequest) => crossed'
        <4>1. Has(toModem, s, RouterRequest) => Crosses(y, toModem)
          BY <2>1, <2>3 DEF Has, Match, Crosses, Request, ExclusiveRequest, ModemRequest,
                            RouterRequest
        <4>2. QED
          BY <2>1, <4>1
      <3>3. S(toModem, toRouter, Idle, FALSE, TRUE, crossed)
        BY <1>2, <2>1, <2>3
      <3>4. S(toModem, Append(toRouter, y), KindOf(y.type), FALSE, TRUE, crossed')
        BY <1>1, <1>6, <2>1, <2>2, <3>1, <3>2, <3>3, ModemSlotsOpen DEF S
      <3>5. QED
        BY <2>1, <2>3, <3>4
    <2>4. CASE s # y.mac
      <3>1. ~Match(y, s, ModemRequest) /\ ~Match(y, s, ModemReply)
        BY <2>4 DEF Match
      <3>2. S(toModem, Append(toRouter, y), MTx(s), held, TRUE, crossed)
        BY <1>1, <1>2, <1>6, <1>8, <2>1, <3>1
      <3>3. S(toModem, Append(toRouter, y), MTx(s), held, TRUE, crossed')
        BY <1>1, <2>2, <3>2, ModemSlotsCrossed DEF S
      <3>4. QED
        BY <2>1, <2>4, <3>3
    <2>5. QED
      BY <2>3, <2>4
  <1>20. ASSUME NEW y \in ModemMessage, ModemAnswers(y)
         PROVE  S(toModem', toRouter', MTx(s)', (s \in mPendingLink)', mLive', crossed')
    <2>1. /\ mLive = TRUE /\ mLive' = TRUE /\ toModem' = toModem
          /\ toRouter' = Append(toRouter, y) /\ crossed' = crossed /\ MTx(s)' = MTx(s)
          /\ s = y.mac => /\ (s \in mPendingLink)' = FALSE /\ held = TRUE
                          /\ MTx(s) = Idle
          /\ s # y.mac => (s \in mPendingLink)' = held
          /\ y.type = "LINK_CHARACTERISTICS_RESPONSE" /\ y \in Message
      <3>1. /\ mPendingLink' = mPendingLink \ {y.mac} /\ y.mac \in mPendingLink
            /\ MTx(y.mac) = Idle
        BY <1>20 DEF ModemAnswers
      <3>2. /\ s = y.mac => /\ (s \in mPendingLink)' = FALSE /\ held = TRUE
                            /\ MTx(s) = Idle
            /\ s # y.mac => (s \in mPendingLink)' = held
        <4>1. /\ s = y.mac => ~(s \in mPendingLink') /\ held /\ MTx(s) = Idle
              /\ s # y.mac => (s \in mPendingLink' <=> held)
          BY <3>1 DEF held
        <4>2. (s \in mPendingLink)' \in BOOLEAN
          BY SMTT(30)
        <4>3. QED
          BY <1>1, <4>1, <4>2
      <3>3. QED
        BY <1>20, <3>2 DEF ModemAnswers, ModemStays, mLive, ModemMessage, history, MTx, mTx
    <2>2. CASE s = y.mac
      <3>1. Match(y, s, ModemReply) /\ KindOf(y.type) = "LinkCharacteristics"
        BY <2>1, <2>2 DEF Match, ModemReply, KindOf
      <3>2. S(toModem, toRouter, MTx(s), TRUE, TRUE, crossed)
        BY <1>2, <2>1, <2>2
      <3>3. S(toModem, Append(toRouter, y), MTx(s), FALSE, TRUE, crossed)
        BY <1>1, <1>6, <2>1, <2>2, <3>1, <3>2, ModemSlotsAnswer DEF S
      <3>4. QED
        BY <2>1, <2>2, <3>3
    <2>3. CASE s # y.mac
      <3>1. ~Match(y, s, ModemRequest) /\ ~Match(y, s, ModemReply)
        BY <2>3 DEF Match
      <3>2. S(toModem, Append(toRouter, y), MTx(s), held, TRUE, crossed)
        BY <1>1, <1>2, <1>6, <1>8, <2>1, <3>1
      <3>3. QED
        BY <2>1, <2>3, <3>2
    <2>4. QED
      BY <2>2, <2>3
  <1>21. QED
    BY <1>11, <1>12, <1>13, <1>14, <1>15, <1>16, <1>17, <1>18, <1>19, <1>20
    DEF ModemDoes

-----------------------------------------------------------------------------
(* What the router asks about, and its addresses at the modem.              *)

\* While both sides are in session: an idle slot has no request and no reply
\* under way, a reply has no request of the same side behind it, and an open slot
\* is accounted for.
LEMMA SlotFacts ==
  ASSUME Wire, NEW s \in Scope, ScopeOK(s), rLive, mLive
  PROVE  /\ RTx(s) = Idle => ~Has(toRouter, s, ModemReply) /\ ~Has(toModem, s, RouterRequest)
         /\ MTx(s) = Idle => ~Has(toRouter, s, ModemRequest)
         /\ Has(toModem, s, RouterReply) => ~Has(toRouter, s, ModemRequest)
         /\ OfKind(toModem, s, RouterReply, MTx(s))
         /\ RTx(s) # Idle => \/ Has(toModem, s, RouterRequest) \/ Has(toRouter, s, ModemReply)
                             \/ s \in mPendingLink
         /\ MTx(s) # Idle => Has(toRouter, s, ModemRequest) \/ Has(toModem, s, RouterReply)
         /\ s \in mPendingLink => RTx(s) = "LinkCharacteristics"
  <1>1. /\ Side(toRouter, s, ModemReply, ModemRequest, RTx(s), crossed)
        /\ Side(toModem, s, RouterReply, RouterRequest, MTx(s), crossed)
        /\ Answering(toModem, toRouter, s, RouterRequest, ModemReply, RTx(s), s \in mPendingLink)
        /\ Answering(toRouter, toModem, s, ModemRequest, RouterReply, MTx(s), FALSE)
        /\ s \in mPendingLink => RTx(s) = "LinkCharacteristics"
    BY DEF ScopeOK, Slots
  <1>2. \A t \in RouterRequest \cup ModemReply \cup ModemRequest : KindOf(t) # Idle
    BY Exchanges DEF Exchange
  <1>3. \A q : \A types \in {RouterRequest, ModemReply, ModemRequest} :
          OfKind(q, s, types, Idle) => ~Has(q, s, types)
    BY <1>2 DEF OfKind, Has, Match
  <1>4. /\ OfKind(toRouter, s, ModemReply, RTx(s)) /\ OfKind(toModem, s, RouterReply, MTx(s))
    BY <1>1 DEF Side
  <1>5. /\ OfKind(toModem, s, RouterRequest, RTx(s)) /\ OfKind(toRouter, s, ModemRequest, MTx(s))
        /\ Has(toRouter, s, ModemRequest) => ~Has(toModem, s, RouterReply)
        /\ RTx(s) # Idle => \/ Has(toModem, s, RouterRequest) \/ Has(toRouter, s, ModemReply)
                            \/ s \in mPendingLink
        /\ MTx(s) # Idle => Has(toRouter, s, ModemRequest) \/ Has(toModem, s, RouterReply)
    BY <1>1 DEF Answering
  <1>6. QED
    BY <1>1, <1>3, <1>4, <1>5

\* With no request of its own open, and none of the modem's on its way to it, the
\* router takes a destination for what the modem has told it is.
LEMMA RouterKnows ==
  ASSUME Wire, NEW m \in MAC, ScopeOK(m), Sync, rState = "InSession", mLive, RTx(m) = Idle,
         MTx(m) = Idle \/ Has(toModem, m, RouterReply)
  PROVE  m \in rUp <=> m \in ToldUp
  <1>1. /\ ~Has(toRouter, m, ModemReply) /\ ~Has(toRouter, m, ModemRequest)
    BY SlotFacts DEF rLive, Scope
  <1>2. UpChanging \subseteq ModemReply \cup ModemRequest
    BY DEF UpChanging, ModemReply, ModemRequest
  <1>3. \A j \in DOMAIN toRouter : ~Match(toRouter[j], m, UpChanging)
    BY <1>1, <1>2 DEF Has, Match
  <1>4. PICK views \in Seq(View) : Path(toRouter, views) /\ views[1] = RouterView
                                   /\ Told(views[Len(views)])
    BY DEF Sync, Greeted, Chain
  <1>5. 1 \in DOMAIN views
    <2>1. Len(views) = Len(toRouter) + 1
      BY <1>4 DEF Path
    <2>2. toRouter \in Seq(ModemMessage)
      BY DEF Wire
    <2>3. QED
      BY <2>1, <2>2, SMTT(30)
  <1>6. m \in views[1].up <=> m \in views[Len(views)].up
    BY <1>3, <1>4, <1>5 DEF Path
  <1>7. views[1].up = rUp /\ views[Len(views)].up = ToldUp
    BY <1>4, SMTT(30) DEF RouterView, Told
  <1>8. QED
    BY <1>6, <1>7

\* A message that asks nothing about a destination leaves the router's interest
\* in it what it was.
LEMMA InterestIgnores ==
  ASSUME Wire, NEW m \in MAC, Interest(m), NEW y \in Message,
         ~Match(y, m, Withdrawing \cup Asking
                      \cup {"DESTINATION_UP_RESPONSE", "DESTINATION_DOWN_RESPONSE"}),
         toModem' = Append(toModem, y), mTxDest'[m] = mTxDest[m],
         m \in mAnnounced' <=> m \in mAnnounced
  PROVE  Interest(m)'
  <1>1. \A types : Has(toModem', m, types) <=> Has(toModem, m, types) \/ Match(y, m, types)
    BY HasAppend DEF Wire, ModemTypeOK, RouterTypeOK
  <1>2. /\ ~Match(y, m, Withdrawing) /\ ~Match(y, m, Asking)
        /\ ~Match(y, m, {"DESTINATION_UP_RESPONSE"}) /\ ~Match(y, m, {"DESTINATION_DOWN_RESPONSE"})
    BY DEF Match
  <1>3. QED
    BY <1>1, <1>2 DEF Interest

\* Nor does reading one, or nothing, while the destination stays what it is.
LEMMA InterestLess ==
  ASSUME Wire, NEW m \in MAC, Interest(m),
         \/ toModem' = toModem
         \/ toModem # <<>> /\ toModem' = Tail(toModem),
         mTxDest'[m] = mTxDest[m] \/ mTxDest'[m] # Idle,
         m \in mAnnounced' <=> m \in mAnnounced
  PROVE  Interest(m)'
  <1>1. \A types : Has(toModem', m, types) => Has(toModem, m, types)
    BY HasTail DEF Wire, RouterTypeOK
  <1>2. QED
    BY <1>1 DEF Interest

\* Asking about a destination: what the router takes it for is what it is.
LEMMA RouterOpensInterest ==
  ASSUME Wire, NEW m \in MAC, ScopeOK(m), Sync, mLive, Interest(m), NEW y \in RouterMessage,
         RouterAlone, RouterOpens(y), y.mac = m
  PROVE  Interest(m)'
  <1>1. /\ rState = "InSession" /\ y.type \in RouterRequest /\ RTx(m) = Idle
        /\ toModem' = Append(toModem, y) /\ UNCHANGED <<mTxDest, mAnnounced>>
        /\ y \in Message /\ toModem \in Seq(Message) /\ m # NoMac
    BY MessageConstants
    DEF RouterOpens, RouterStays, RouterAlone, mTx, mDests, RouterMessage, Wire, ModemTypeOK,
        RouterTypeOK
  <1>2. /\ y.type \in Withdrawing => m \in rUp
        /\ y.type \in Asking => m \notin rUp
    BY MessageConstants, <1>1, SMTT(30)
    DEF RouterOpens, SessionMsg, Msg, Withdrawing, Asking
  <1>3. \A types : Has(toModem', m, types) <=> Has(toModem, m, types) \/ y.type \in types
    BY <1>1, HasAppend DEF Match
  <1>4. y.type \notin {"DESTINATION_UP_RESPONSE", "DESTINATION_DOWN_RESPONSE"}
    BY <1>1 DEF RouterRequest
  <1>5. MTx(m) = mTxDest[m]
    BY <1>1 DEF MTx
  <1>6. MTx(m) = Idle \/ Has(toModem, m, RouterReply) => (m \in rUp <=> m \in ToldUp)
    BY <1>1, RouterKnows
  <1>7. mTxDest[m] = Idle => (m \in ToldUp <=> m \in mAnnounced)
    BY DEF ToldUp, Idle
  <1>8. Has(toModem, m, {"DESTINATION_UP_RESPONSE"}) =>
          Has(toModem, m, RouterReply) /\ m \in ToldUp
    <2>1. ASSUME NEW i \in DOMAIN toModem, Match(toModem[i], m, {"DESTINATION_UP_RESPONSE"})
          PROVE  Match(toModem[i], m, RouterReply) /\ m \in ToldUp
      <3>1. Match(toModem[i], m, RouterReply)
        BY <2>1 DEF Match, RouterReply
      <3>2. mTxDest[m] = KindOf(toModem[i].type)
        BY <1>1, <1>5, <3>1, SlotFacts DEF OfKind, rLive, Scope
      <3>3. QED
        BY <2>1, <3>1, <3>2 DEF KindOf, Match, ToldUp
    <2>2. QED
      BY <2>1 DEF Has
  <1>9. Has(toModem, m, {"DESTINATION_DOWN_RESPONSE"}) =>
          Has(toModem, m, RouterReply) /\ m \notin ToldUp
    <2>1. ASSUME NEW i \in DOMAIN toModem, Match(toModem[i], m, {"DESTINATION_DOWN_RESPONSE"})
          PROVE  Match(toModem[i], m, RouterReply) /\ m \notin ToldUp
      <3>1. Match(toModem[i], m, RouterReply)
        BY <2>1 DEF Match, RouterReply
      <3>2. mTxDest[m] = KindOf(toModem[i].type)
        BY <1>1, <1>5, <3>1, SlotFacts DEF OfKind, rLive, Scope
      <3>3. QED
        BY <2>1, <3>1, <3>2 DEF KindOf, Match, ToldUp
    <2>2. QED
      BY <2>1 DEF Has
  <1>10. QED
    BY <1>1, <1>2, <1>3, <1>4, <1>5, <1>6, <1>7, <1>8, <1>9 DEF Interest

\* The router's steps keep what is known of its interest in a destination.
LEMMA RouterStepInterest ==
  ASSUME Wire, NEW m \in MAC, ScopeOK(m), Sync, RouterDoes, mLive, Interest(m)
  PROVE  Interest(m)'
  <1>1. RouterAlone /\ UNCHANGED <<mTxDest, mAnnounced>> /\ toModem \in Seq(Message)
    BY DEF RouterDoes, RouterAlone, mTx, mDests, Wire, RouterTypeOK
  <1>2. CASE toModem' = toModem
    BY <1>1, <1>2, InterestLess
  <1>3. ASSUME NEW y \in Message, toModem' = Append(toModem, y),
               y.type \notin Withdrawing \cup Asking
                             \cup {"DESTINATION_UP_RESPONSE", "DESTINATION_DOWN_RESPONSE"}
                 \/ y.mac # m
        PROVE  Interest(m)'
    BY <1>1, <1>3, InterestIgnores DEF Match
  <1>4. CASE RouterJoins \/ RouterGoes \/ RouterTicks
    <2>1. \/ toModem' = toModem
          \/ \E y \in Message : /\ toModem' = Append(toModem, y)
                                /\ y.type \in {"SESSION_INITIALIZATION", "HEARTBEAT",
                                               "SESSION_TERMINATION",
                                               "SESSION_TERMINATION_RESPONSE"}
      <3>1. /\ Bare("SESSION_INITIALIZATION") \in Message /\ Bare("HEARTBEAT") \in Message
            /\ Bare("SESSION_TERMINATION_RESPONSE") \in Message
            /\ \A status \in Status : Termination(status) \in Message
        BY RouterSends DEF RouterMessage
      <3>2. /\ Bare("SESSION_INITIALIZATION").type = "SESSION_INITIALIZATION"
            /\ Bare("HEARTBEAT").type = "HEARTBEAT"
            /\ Bare("SESSION_TERMINATION_RESPONSE").type = "SESSION_TERMINATION_RESPONSE"
            /\ \A status \in Status : Termination(status).type = "SESSION_TERMINATION"
        BY DEF Bare, Termination, Msg
      <3>3. QED
        BY <1>4, <3>1, <3>2 DEF RouterJoins, RouterGoes, RouterTicks
    <2>2. {"SESSION_INITIALIZATION", "HEARTBEAT", "SESSION_TERMINATION",
           "SESSION_TERMINATION_RESPONSE"}
            \cap (Withdrawing \cup Asking
                  \cup {"DESTINATION_UP_RESPONSE", "DESTINATION_DOWN_RESPONSE"}) = {}
      BY DEF Withdrawing, Asking
    <2>3. QED
      BY <1>2, <1>3, <2>1, <2>2
  <1>5. CASE RouterEnters \/ RouterCloses \/ RouterNotes
    BY <1>2, <1>5 DEF RouterEnters, RouterCloses, RouterNotes
  <1>6. ASSUME NEW y \in RouterMessage, RouterReplies(y)
        PROVE  Interest(m)'
    <2>1. /\ rState = "InSession" /\ toModem' = Append(toModem, y) /\ y.type \in RouterReply
          /\ RTx(y.mac) = Idle /\ y \in Message
      BY <1>6 DEF RouterReplies, RouterStays, RouterMessage
    <2>2. CASE y.mac # m
      BY <1>3, <2>1, <2>2
    <2>3. CASE y.mac = m
      <3>1. ~Has(toModem, m, RouterRequest)
        BY <2>1, <2>3, SlotFacts DEF rLive, Scope
      <3>2. Withdrawing \cup Asking \subseteq RouterRequest \ RouterReply
        BY DEF Withdrawing, Asking, RouterRequest, RouterReply
      <3>3. ~Match(y, m, Withdrawing) /\ ~Match(y, m, Asking)
        BY <2>1, <3>2 DEF Match
      <3>4. ~Has(toModem, m, Withdrawing) /\ ~Has(toModem, m, Asking)
        BY <3>1, <3>2 DEF Has, Match
      <3>5. ~Has(toModem', m, Withdrawing) /\ ~Has(toModem', m, Asking)
        BY <1>1, <2>1, <3>3, <3>4, HasAppend
      <3>6. QED
        BY <3>5 DEF Interest
    <2>4. QED
      BY <2>2, <2>3
  <1>7. ASSUME NEW y \in RouterMessage, RouterOpens(y)
        PROVE  Interest(m)'
    <2>1. CASE y.mac = m
      BY <1>1, <1>7, <2>1, RouterOpensInterest
    <2>2. CASE y.mac # m
      <3>1. toModem' = Append(toModem, y) /\ y \in Message
        BY <1>7 DEF RouterOpens, RouterMessage
      <3>2. QED
        BY <1>3, <2>2, <3>1
    <2>3. QED
      BY <2>1, <2>2
  <1>8. QED
    BY <1>4, <1>5, <1>6, <1>7 DEF RouterDoes

\* The modem's steps do, too.
LEMMA ModemStepInterest ==
  ASSUME Wire, NEW m \in MAC, ScopeOK(m), ModemDoes, mLive', mLive => Interest(m)
  PROVE  Interest(m)'
  <1>1. /\ toModem \in Seq(Message) /\ m # NoMac /\ m \in Scope
        /\ mLive' <=> mState' = "InSession"
    BY MessageConstants DEF Wire, RouterTypeOK, Scope, mLive
  <1>2. /\ MTx(m) = mTxDest[m] /\ MTx(m)' = mTxDest'[m]
    BY <1>1 DEF MTx
  <1>3. CASE ModemWaits \/ ModemGoes
    BY <1>1, <1>3 DEF ModemWaits, ModemGoes, Over, mLive
  <1>4. CASE ModemEnters
    <2>1. toModem' = <<>>
      BY <1>4, SMTT(30)
      DEF ModemEnters, ModemReadsHead, Wire, Handshake, HandshakeUnbound,
          Unbound
    <2>2. \A types : ~Has(toModem', m, types)
      BY <2>1, SMTT(30) DEF Has
    <2>3. QED
      BY <2>2 DEF Interest
  <1>5. CASE ModemCloses
    <2>1. /\ mLive /\ toModem # <<>> /\ toModem' = Tail(toModem)
          /\ Head(toModem).type \in RouterReply
          /\ MTx(m)' = IF m = Head(toModem).mac THEN Idle ELSE MTx(m)
          /\ mAnnounced' = CASE Head(toModem).type = "DESTINATION_UP_RESPONSE" ->
                                  mAnnounced \cup {Head(toModem).mac}
                             [] Head(toModem).type = "DESTINATION_DOWN_RESPONSE" ->
                                  mAnnounced \ {Head(toModem).mac}
                             [] OTHER -> mAnnounced
      BY <1>1, <1>5 DEF ModemCloses, ModemStays, ModemReadsHead
    <2>2. CASE Head(toModem).mac # m
      <3>1. m \in mAnnounced' <=> m \in mAnnounced
        BY <2>1, <2>2
      <3>2. mTxDest'[m] = mTxDest[m]
        BY <1>2, <2>1, <2>2
      <3>3. QED
        BY <2>1, <3>1, <3>2, InterestLess
    <2>3. CASE Head(toModem).mac = m
      <3>1. Interest(m)
        BY <2>1
      <3>2. \A types : Has(toModem, m, types) <=>
                         Match(Head(toModem), m, types) \/ Has(Tail(toModem), m, types)
        BY <1>1, <2>1, HasTail
      <3>3. Head(toModem).type \in {"DESTINATION_UP_RESPONSE", "DESTINATION_DOWN_RESPONSE"}
        <4>1. Head(toModem) \in RouterMessage
          BY <2>1, SMTT(30) DEF Wire
        <4>2. Head(toModem).type # "SESSION_UPDATE_RESPONSE"
          BY <1>1, <2>3, <4>1, MessageScope, MessageConstants DEF SessionTypes
        <4>3. QED
          BY <2>1, <4>2 DEF RouterReply
      <3>4. CASE Head(toModem).type = "DESTINATION_UP_RESPONSE"
        <4>1. m \in mAnnounced'
          BY <2>1, <2>3, <3>4
        <4>2. ~Has(Tail(toModem), m, Asking)
          BY <2>3, <3>1, <3>2, <3>4 DEF Interest, Match
        <4>3. QED
          BY <2>1, <3>1, <3>2, <4>1, <4>2 DEF Interest
      <3>5. CASE Head(toModem).type = "DESTINATION_DOWN_RESPONSE"
        <4>1. m \notin mAnnounced'
          BY <2>1, <2>3, <3>5
        <4>2. ~Has(Tail(toModem), m, Withdrawing)
          BY <2>3, <3>1, <3>2, <3>5 DEF Interest, Match
        <4>3. QED
          BY <2>1, <3>1, <3>2, <4>1, <4>2 DEF Interest
      <3>6. QED
        BY <3>3, <3>4, <3>5
    <2>4. QED
      BY <2>2, <2>3
  <1>6. ASSUME NEW y \in ModemMessage, ModemReplies(y)
        PROVE  Interest(m)'
    <2>1. /\ mLive /\ toModem # <<>> /\ toModem' = Tail(toModem)
          /\ Head(toModem).type \in RouterRequest /\ y.mac = Head(toModem).mac
          /\ mAnnounced' \ {y.mac} = mAnnounced \ {y.mac} /\ mTxDest' = mTxDest
      BY <1>6 DEF ModemReplies, ModemStays, ModemReadsHead, mTx
    <2>2. CASE y.mac # m
      <3>1. m \in mAnnounced' <=> m \in mAnnounced
        BY <2>1, <2>2
      <3>2. QED
        BY <2>1, <3>1, InterestLess
    <2>3. CASE y.mac = m
      <3>1. AtMostOne(toModem, m, RouterRequest)
        BY <2>1 DEF ScopeOK, Slots, Side
      <3>2. ~Has(Tail(toModem), m, RouterRequest)
        BY <1>1, <2>1, <2>3, <3>1, TailOrder DEF Match
      <3>3. Withdrawing \cup Asking \subseteq RouterRequest
        BY DEF Withdrawing, Asking, RouterRequest
      <3>4. ~Has(Tail(toModem), m, Withdrawing) /\ ~Has(Tail(toModem), m, Asking)
        BY <3>2, <3>3 DEF Has, Match
      <3>5. QED
        BY <2>1, <3>4 DEF Interest
    <2>4. QED
      BY <2>2, <2>3
  <1>7. CASE ModemHolds \/ ModemNotes \/ ModemTells \/ \E y \in ModemMessage : ModemAnswers(y)
    <2>1. /\ mLive /\ mTxDest' = mTxDest /\ mAnnounced' = mAnnounced
          /\ toModem' = toModem \/ (toModem # <<>> /\ toModem' = Tail(toModem))
      BY <1>7 DEF ModemHolds, ModemNotes, ModemTells, ModemAnswers, ModemStays, ModemReadsHead,
                  ModemSame, mTx
    <2>2. QED
      BY <2>1, InterestLess
  <1>8. ASSUME NEW y \in ModemMessage, ModemOpens(y)
        PROVE  Interest(m)'
    <2>1. /\ mLive /\ toModem' = toModem /\ mAnnounced' = mAnnounced /\ y.type \in ModemRequest
          /\ MTx(m)' = IF m = y.mac THEN KindOf(y.type) ELSE MTx(m)
      BY <1>1, <1>8 DEF ModemOpens, ModemStays
    <2>2. KindOf(y.type) # Idle
      BY <2>1, Exchanges DEF Exchange
    <2>3. mTxDest'[m] = mTxDest[m] \/ mTxDest'[m] # Idle
      BY <1>2, <2>1, <2>2
    <2>4. QED
      BY <2>1, <2>3, InterestLess
  <1>9. QED
    BY <1>3, <1>4, <1>5, <1>6, <1>7, <1>8 DEF ModemDoes

\* A session update carries no MAC address.
LEMMA SessionScope ==
  ASSUME NEW x \in RouterMessage, x.type = "SESSION_UPDATE"
  PROVE  Match(x, NoMac, RouterRequest) /\ Match(x, NoMac, {"SESSION_UPDATE"})
  BY MessageScope DEF SessionTypes, Match, RouterRequest

\* The router's addresses at the modem are, or will be, the router's own.
LEMMA RouterStepPeerAddrs ==
  ASSUME Wire, Wire', ScopeOK(NoMac), RouterDoes, mLive, PeerAddrs
  PROVE  PeerAddrs'
  <1>1. /\ mPeerAddrs' = mPeerAddrs /\ toModem \in Seq(RouterMessage)
        /\ toModem' \in Seq(RouterMessage)
    BY DEF RouterDoes, RouterAlone, mPeer, Wire
  <1>2. ASSUME rLive' => rLive /\ rLocalAddrs' = rLocalAddrs,
               \/ toModem' = toModem
               \/ \E y : toModem' = Append(toModem, y) /\ y.type # "SESSION_UPDATE"
        PROVE  PeerAddrs'
    <2>1. ASSUME NEW i \in DOMAIN toModem', toModem'[i].type = "SESSION_UPDATE"
          PROVE  i \in DOMAIN toModem /\ toModem'[i] = toModem[i]
      BY <1>1, <1>2, <2>1, SMTT(30)
    <2>2. ASSUME NEW i \in DOMAIN toModem
          PROVE  i \in DOMAIN toModem' /\ toModem'[i] = toModem[i]
      BY <1>1, <1>2, SMTT(30)
    <2>3. Has(toModem, NoMac, {"SESSION_UPDATE"}) => Has(toModem', NoMac, {"SESSION_UPDATE"})
      BY <2>2 DEF Has
    <2>4. QED
      BY <1>1, <1>2, <2>1, <2>3 DEF PeerAddrs
  <1>3. CASE RouterJoins
    BY <1>3 DEF RouterJoins, Wire, Handshake, HandshakeStart, mLive
  <1>4. CASE RouterGoes
    <2>1. ~rLive'
      BY <1>4 DEF RouterGoes, Over, rLive
    <2>2. \/ toModem' = toModem
          \/ \E y : toModem' = Append(toModem, y) /\ y.type # "SESSION_UPDATE"
      <3>1. /\ Bare("SESSION_TERMINATION_RESPONSE").type # "SESSION_UPDATE"
            /\ \A status \in Status : Termination(status).type # "SESSION_UPDATE"
        BY DEF Bare, Termination, Msg
      <3>2. QED
        BY <1>4, <3>1 DEF RouterGoes
    <2>3. QED
      BY <1>2, <2>1, <2>2
  <1>5. CASE RouterEnters \/ RouterCloses \/ RouterNotes
    BY <1>2, <1>5 DEF RouterEnters, RouterCloses, RouterNotes, RouterReadsHead, RouterStays, rLive
  <1>6. CASE RouterTicks
    <2>1. Bare("HEARTBEAT").type # "SESSION_UPDATE"
      BY DEF Bare, Msg
    <2>2. rLive /\ rLocalAddrs' = rLocalAddrs /\ toModem' = Append(toModem, Bare("HEARTBEAT"))
      BY <1>6 DEF RouterTicks, RouterStays, rLive
    <2>3. QED
      BY <1>2, <2>1, <2>2
  <1>7. ASSUME NEW y \in RouterMessage, RouterReplies(y)
        PROVE  PeerAddrs'
    <2>1. /\ rLive /\ rLocalAddrs' = rLocalAddrs /\ toModem' = Append(toModem, y)
          /\ y.type \in RouterReply
      BY <1>7 DEF RouterReplies, RouterReadsHead, RouterStays, rLive
    <2>2. y.type # "SESSION_UPDATE"
      BY <2>1 DEF RouterReply
    <2>3. QED
      BY <1>2, <2>1, <2>2
  <1>8. ASSUME NEW y \in RouterMessage, RouterOpens(y)
        PROVE  PeerAddrs'
    <2>1. rLive /\ toModem' = Append(toModem, y) /\ RTx(y.mac) = Idle
      BY <1>8 DEF RouterOpens, RouterStays, rLive
    <2>2. CASE y.type # "SESSION_UPDATE"
      <3>1. rLocalAddrs' = rLocalAddrs
        BY <1>8, <2>2, SMTT(30) DEF RouterOpens, SessionMsg, Msg
      <3>2. QED
        BY <1>2, <2>1, <2>2, <3>1
    <2>3. CASE y.type = "SESSION_UPDATE"
      <3>1. y.mac = NoMac /\ y.addrs = between(rLocalAddrs, rLocalAddrs')
        BY <1>8, <2>3, SMTT(30) DEF RouterOpens, SessionMsg, Msg
      <3>2. ~Has(toModem, NoMac, RouterRequest)
        BY <2>1, <3>1, SlotFacts DEF Scope
      <3>3. \A i \in DOMAIN toModem : toModem[i] \in RouterMessage
        BY <1>1, SMTT(30)
      <3>4. \A i \in DOMAIN toModem : toModem[i].type # "SESSION_UPDATE"
        BY <3>2, <3>3, SessionScope DEF Has
      <3>5. ~Has(toModem, NoMac, {"SESSION_UPDATE"})
        BY <3>4 DEF Has, Match
      <3>6. mPeerAddrs = rLocalAddrs
        BY <2>1, <3>5 DEF PeerAddrs
      <3>7. \A i \in DOMAIN toModem' : toModem'[i].type = "SESSION_UPDATE" => toModem'[i] = y
        BY <1>1, <2>1, <3>4, SMTT(30)
      <3>8. /\ StrictOk(mPeerAddrs, y.addrs)
            /\ apply_lenient(mPeerAddrs, y.addrs) = rLocalAddrs'
        BY <3>1, <3>6, BetweenApplies, SMTT(30)
      <3>9. Has(toModem', NoMac, {"SESSION_UPDATE"})
        <4>1. toModem \in Seq(Message) /\ y \in Message
          BY <1>1, SMTT(30) DEF RouterMessage
        <4>2. QED
          BY <2>1, <2>3, <4>1, SessionScope, HasAppend
      <3>10. QED
        BY <1>1, <3>7, <3>8, <3>9 DEF PeerAddrs
    <2>4. QED
      BY <2>2, <2>3
  <1>9. QED
    BY <1>3, <1>4, <1>5, <1>6, <1>7, <1>8 DEF RouterDoes

\* So after the modem's steps.
LEMMA ModemStepPeerAddrs ==
  ASSUME Wire, ScopeOK(NoMac), ModemDoes, mLive', mLive => PeerAddrs
  PROVE  PeerAddrs'
  <1>1. /\ toModem \in Seq(RouterMessage) /\ toModem \in Seq(Message)
        /\ rLocalAddrs' = rLocalAddrs /\ rLive' = rLive
        /\ mLive' <=> mState' = "InSession"
    BY DEF Wire, RouterTypeOK, ModemDoes, ModemAlone, rControl, rLive, mLive
  <1>2. toModem # <<>> => /\ Head(toModem) \in RouterMessage
                          /\ Head(toModem) = toModem[1] /\ 1 \in DOMAIN toModem
                          /\ \A i \in DOMAIN Tail(toModem) :
                               i + 1 \in DOMAIN toModem /\ Tail(toModem)[i] = toModem[i + 1]
    BY <1>1, SMTT(30)
  <1>3. ASSUME mLive, mPeerAddrs' = mPeerAddrs,
               \/ toModem' = toModem
               \/ /\ toModem # <<>> /\ toModem' = Tail(toModem)
                  /\ Head(toModem).type # "SESSION_UPDATE"
        PROVE  PeerAddrs'
    <2>1. CASE toModem' = toModem
      BY <1>1, <1>3, <2>1 DEF PeerAddrs
    <2>2. CASE /\ toModem # <<>> /\ toModem' = Tail(toModem)
               /\ Head(toModem).type # "SESSION_UPDATE"
      <3>1. Has(toModem, NoMac, {"SESSION_UPDATE"}) => Has(toModem', NoMac, {"SESSION_UPDATE"})
        BY <1>1, <2>2, HasTail DEF Match
      <3>2. \A i \in DOMAIN toModem' : i + 1 \in DOMAIN toModem /\ toModem'[i] = toModem[i + 1]
        BY <1>2, <2>2
      <3>3. QED
        BY <1>1, <1>3, <3>1, <3>2 DEF PeerAddrs
    <2>3. QED
      BY <1>3, <2>1, <2>2
  <1>4. CASE ModemWaits \/ ModemGoes
    BY <1>1, <1>4 DEF ModemWaits, ModemGoes, Over
  <1>5. CASE ModemEnters
    <2>1. /\ toModem' = <<>> /\ mPeerAddrs' = {}
      <3>1. toModem = <<Bare("SESSION_INITIALIZATION")>>
        BY <1>5 DEF ModemEnters, ModemReadsHead, Wire, Handshake, HandshakeUnbound, Unbound
      <3>2. QED
        BY <1>5, <3>1, SMTT(30)
        DEF ModemEnters, ModemReadsHead, Bare, Msg, NoChanges
    <2>2. rLive => rLocalAddrs = {}
      BY <1>5 DEF ModemEnters, Wire, Handshake, HandshakeUnbound, HandshakeStart, Unbound,
                  RouterFresh, rLive
    <2>3. DOMAIN toModem' = {}
      BY <2>1, SMTT(30)
    <2>4. QED
      BY <1>1, <2>1, <2>2, <2>3 DEF PeerAddrs
  <1>6. CASE ModemCloses \/ ModemHolds \/ ModemNotes
    <2>1. /\ mLive /\ mPeerAddrs' = mPeerAddrs /\ toModem # <<>> /\ toModem' = Tail(toModem)
          /\ Head(toModem).type \in RouterReply \cup {"LINK_CHARACTERISTICS_REQUEST", "HEARTBEAT"}
      BY <1>6 DEF ModemCloses, ModemHolds, ModemNotes, ModemStays, ModemReadsHead
    <2>2. Head(toModem).type # "SESSION_UPDATE"
      BY <2>1 DEF RouterReply
    <2>3. QED
      BY <1>3, <2>1, <2>2
  <1>7. CASE ModemTells \/ \E y \in ModemMessage : ModemOpens(y) \/ ModemAnswers(y)
    <2>1. mLive /\ mPeerAddrs' = mPeerAddrs /\ toModem' = toModem
      BY <1>7 DEF ModemTells, ModemOpens, ModemAnswers, ModemStays
    <2>2. QED
      BY <1>3, <2>1
  <1>8. ASSUME NEW y \in ModemMessage, ModemReplies(y)
        PROVE  PeerAddrs'
    <2>1. /\ mLive /\ toModem # <<>> /\ toModem' = Tail(toModem)
          /\ mPeerAddrs' = IF Head(toModem).type = "SESSION_UPDATE"
                           THEN apply_lenient(mPeerAddrs, Head(toModem).addrs) ELSE mPeerAddrs
      BY <1>8 DEF ModemReplies, ModemStays, ModemReadsHead
    <2>2. CASE Head(toModem).type # "SESSION_UPDATE"
      BY <1>3, <2>1, <2>2
    <2>3. CASE Head(toModem).type = "SESSION_UPDATE"
      <3>1. AtMostOne(toModem, NoMac, RouterRequest)
        BY <2>1 DEF ScopeOK, Slots, Side
      <3>2. ~Has(Tail(toModem), NoMac, RouterRequest)
        BY <1>1, <1>2, <2>1, <2>3, <3>1, SessionScope, TailOrder
      <3>3. \A i \in DOMAIN Tail(toModem) : Tail(toModem)[i] \in RouterMessage
        BY <1>1, <2>1, SMTT(30)
      <3>4. \A i \in DOMAIN toModem' : toModem'[i].type # "SESSION_UPDATE"
        BY <2>1, <3>2, <3>3, SessionScope DEF Has
      <3>5. rLive => mPeerAddrs' = rLocalAddrs
        BY <1>2, <2>1, <2>3 DEF PeerAddrs
      <3>6. QED
        BY <1>1, <3>4, <3>5 DEF PeerAddrs
    <2>4. QED
      BY <2>2, <2>3
  <1>9. QED
    BY <1>4, <1>5, <1>6, <1>7, <1>8 DEF ModemDoes
=============================================================================
