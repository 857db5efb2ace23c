---------------------- MODULE SocketCommunicatorProofs ----------------------
(***************************************************************************)
(* Proofs about SocketCommunicator, for any number of senders, receiver    *)
(* threads, queue sizes and messages.                                      *)
(***************************************************************************)
EXTENDS SocketCommunicator, ListLemmas

-----------------------------------------------------------------------------
(* The order of messages *)

\* What of a message its place among the messages of its sender determines: of
\* a meta message all but the number of ndarrays.
Slot(m) == [rpc |-> m.rpc, part |-> m.part, arrays |-> IF m.part = 0 THEN 0 ELSE m.arrays]

\* The slot that follows message m.
Following(m) ==
    IF m.part < m.arrays THEN [rpc |-> m.rpc, part |-> m.part + 1, arrays |-> m.arrays]
    ELSE [rpc |-> m.rpc + 1, part |-> 0, arrays |-> 0]

\* The messages of q follow each other, and slot c follows the last of them.
Chain(q, c) ==
    \A k \in 1..Len(q) : Following(q[k]) = IF k = Len(q) THEN c ELSE Slot(q[k + 1])

\* The slot at the front of q, when c follows q.
Ahead(q, c) == IF Len(q) = 0 THEN c ELSE Slot(q[1])

\* A sequence is empty when its length is zero.
LEMMA SeqLen ==
    ASSUME NEW S, NEW s \in Seq(S)
    PROVE  /\ Len(s) \in Nat
           /\ s = <<>> => Len(s) = 0
           /\ s # <<>> => Len(s) # 0 /\ 1 \in 1..Len(s) /\ Len(s) \in 1..Len(s)
  BY LenProperties, EmptySeq

\* A message that is added takes the slot that follows the queue.
LEMMA ChainAppend ==
    ASSUME NEW q \in Seq(Message), NEW m \in Message, NEW c, Chain(q, c), Slot(m) = c
    PROVE  /\ Append(q, m) \in Seq(Message)
           /\ Chain(Append(q, m), Following(m))
           /\ Ahead(Append(q, m), Following(m)) = Ahead(q, c)
<1> DEFINE r == Append(q, m)
<1>1. /\ r \in Seq(Message) /\ Len(q) \in Nat /\ Len(r) = Len(q) + 1
      /\ \A i \in 1..Len(q) : r[i] = q[i]
      /\ r[Len(q) + 1] = m
  BY AppendProperties, LenProperties
<1> HIDE DEF r
<1>2. ASSUME NEW k \in 1..Len(r)
      PROVE  Following(r[k]) = IF k = Len(r) THEN Following(m) ELSE Slot(r[k + 1])
  <2>1. CASE k = Len(r)
    BY <1>1, <2>1
  <2>2. CASE k # Len(r)
    <3>1. k \in 1..Len(q) /\ (k = Len(q) \/ k + 1 \in 1..Len(q))
      BY <1>1, <2>2
    <3> QED BY <1>1, <2>2, <3>1 DEF Chain
  <2> QED BY <2>1, <2>2
<1>3. Ahead(r, Following(m)) = Ahead(q, c)
  <2>1. CASE Len(q) = 0
    BY <1>1, <2>1 DEF Ahead
  <2>2. CASE Len(q) # 0
    BY <1>1, <2>2 DEF Ahead
  <2> QED BY <2>1, <2>2
<1> QED BY <1>1, <1>2, <1>3 DEF Chain, r

\* What is left of a queue starts with the slot that follows its first message.
LEMMA ChainTail ==
    ASSUME NEW q \in Seq(Message), NEW c, Chain(q, c), q # <<>>
    PROVE  /\ Head(q) \in Message /\ Ahead(q, c) = Slot(Head(q))
           /\ Tail(q) \in Seq(Message)
           /\ Chain(Tail(q), c)
           /\ Ahead(Tail(q), c) = Following(Head(q))
<1> DEFINE r == Tail(q)
<1>1. /\ Head(q) \in Message /\ Head(q) = q[1]
      /\ r \in Seq(Message) /\ Len(q) \in Nat /\ Len(q) # 0 /\ Len(r) = Len(q) - 1
      /\ \A i \in 1..Len(r) : r[i] = q[i + 1]
  BY HeadTailProperties, SeqLen
<1> HIDE DEF r
<1>2. Ahead(q, c) = Slot(Head(q))
  BY <1>1 DEF Ahead
<1>3. ASSUME NEW k \in 1..Len(r)
      PROVE  Following(r[k]) = IF k = Len(r) THEN c ELSE Slot(r[k + 1])
  <2>1. /\ k + 1 \in 1..Len(q)
        /\ k = Len(r) <=> k + 1 = Len(q)
        /\ k # Len(r) => k + 1 \in 1..Len(r)
    BY <1>1
  <2> QED BY <1>1, <2>1 DEF Chain
<1>4. Ahead(r, c) = Following(Head(q))
  <2>1. Following(q[1]) = IF 1 = Len(q) THEN c ELSE Slot(q[2])
    BY <1>1 DEF Chain
  <2>2. CASE Len(q) = 1
    BY <1>1, <2>1, <2>2 DEF Ahead
  <2>3. CASE Len(q) # 1
    <3>1. 1 \in 1..Len(r)
      BY <1>1, <2>3
    <3> QED BY <1>1, <2>1, <2>3, <3>1 DEF Ahead
  <2> QED BY <2>2, <2>3
<1> QED BY <1>1, <1>2, <1>3, <1>4 DEF Chain, r

-----------------------------------------------------------------------------
(* The TCP stream *)

\* What SendLoop writes.
Size(m) == [what |-> "size", msg |-> m]
Data(m) == [what |-> "data", msg |-> m]

\* The slot at place k of the stream W, when c follows the stream.
At(W, k, c) == IF k \in 1..Len(W) /\ W[k].msg # EndSignal THEN Slot(W[k].msg) ELSE c

\* Token k of the stream W between the RecvContext x and the SendLoop l: the
\* end, a size that is followed by its data, or data that follow their size.
Placed(W, k, x, l, c) ==
    \/ /\ W[k].what = "size" /\ W[k].msg = EndSignal
       /\ k = Len(W) /\ l.pc = "exit"
       /\ k = 1 => x = None
    \/ /\ W[k].what = "size" /\ W[k].msg \in Message
       /\ k = 1 => x = None
       /\ IF k = Len(W) THEN l.pc = "data" /\ l.msg = W[k].msg
          ELSE W[k + 1] = Data(W[k].msg)
    \/ /\ W[k].what = "data" /\ W[k].msg \in Message
       /\ IF k = 1 THEN x = W[k].msg ELSE W[k - 1] = Size(W[k].msg)
       /\ Following(W[k].msg) = At(W, k + 1, c)

\* The stream, when slot c follows: a size without its data is the last that
\* was written, and the data whose size was read is the first to be read.
Stream(W, x, l, c) ==
    /\ \A k \in 1..Len(W) : Placed(W, k, x, l, c)
    /\ x # None => /\ x \in Message
                   /\ IF Len(W) = 0 THEN l.pc = "data" /\ l.msg = x ELSE W[1] = Data(x)
    /\ l.pc = "data" => /\ l.msg \in Message
                        /\ Following(l.msg) = c
                        /\ IF Len(W) = 0 THEN x = l.msg ELSE W[Len(W)] = Size(l.msg)

\* The slot that is read next.
Unread(W, x, c) == IF x # None THEN Slot(x) ELSE At(W, 1, c)

\* Neither of the two other messages is one of an application.
LEMMA NotMessages == None \notin Message /\ EndSignal \notin Message /\ None # EndSignal
  BY SocketAssumption DEF None, EndSignal, Message

\* Tokens are what their names say.
LEMMA Tokens ==
    ASSUME NEW m \in Message \cup {EndSignal}
    PROVE  /\ Size(m).what = "size" /\ Size(m).msg = m /\ Size(m) \in Token
           /\ Data(m).what = "data" /\ Data(m).msg = m /\ Data(m) \in Token
  BY DEF Size, Data, Token

\* SendLoop writes a size.
LEMMA StreamSize ==
    ASSUME NEW W \in Seq(Token), NEW x, NEW l, NEW m \in Message,
           Stream(W, x, l, Slot(m)), l.pc = "remove"
    PROVE  /\ Append(W, Size(m)) \in Seq(Token)
           /\ Stream(Append(W, Size(m)), x, [pc |-> "data", msg |-> m], Following(m))
           /\ Unread(Append(W, Size(m)), x, Following(m)) = Unread(W, x, Slot(m))
<1> DEFINE V == Append(W, Size(m))
           n == [pc |-> "data", msg |-> m]
<1>0. /\ n.pc = "data" /\ n.msg = m /\ Size(m).what = "size" /\ Size(m).msg = m
      /\ m # EndSignal /\ Size(m) \in Token
  BY NotMessages, Tokens
<1>1. /\ V \in Seq(Token) /\ Len(W) \in Nat /\ Len(V) = Len(W) + 1
      /\ \A i \in 1..Len(W) : V[i] = W[i]
      /\ V[Len(W) + 1] = Size(m)
  BY <1>0, AppendProperties, LenProperties
<1> HIDE DEF V, n
<1>2. Len(W) = 0 => x = None
  BY DEF Stream
<1>3. ASSUME NEW k \in 1..Len(W), W[k].what = "data"
      PROVE  At(V, k + 1, Following(m)) = At(W, k + 1, Slot(m))
  <2>1. CASE k = Len(W)
    <3>1. V[k + 1].msg = m /\ k + 1 \in 1..Len(V) /\ k + 1 \notin 1..Len(W)
      BY <1>0, <1>1, <2>1
    <3> QED BY <1>0, <3>1 DEF At
  <2>2. CASE k # Len(W)
    <3>1. V[k + 1] = W[k + 1] /\ k + 1 \in 1..Len(V) /\ k + 1 \in 1..Len(W)
          /\ W[k + 1].msg # EndSignal
      <4>1. V[k + 1] = W[k + 1] /\ k + 1 \in 1..Len(V) /\ k + 1 \in 1..Len(W)
        BY <1>1, <2>2
      <4> QED BY <4>1, NotMessages DEF Stream, Placed
    <3> QED BY <3>1, Zenon DEF At
  <2> QED BY <2>1, <2>2
<1>5. ASSUME NEW k \in 1..Len(W) PROVE Placed(V, k, x, n, Following(m))
  <2>0. /\ V[k] = W[k] /\ k # Len(V)
        /\ k # 1 => V[k - 1] = W[k - 1]
        /\ k # Len(W) => V[k + 1] = W[k + 1]
        /\ k = Len(W) => V[k + 1] = Size(m)
    BY <1>1
  <2>1. Placed(W, k, x, l, Slot(m))
    BY DEF Stream
  <2>2. CASE W[k].what = "size"
    BY <1>0, <2>0, <2>1, <2>2 DEF Placed
  <2>3. CASE W[k].what # "size"
    BY <1>3, <2>0, <2>1, <2>3 DEF Placed
  <2> QED BY <2>2, <2>3
<1>6. Placed(V, Len(V), x, n, Following(m))
  BY <1>0, <1>1, <1>2 DEF Placed
<1>7. Stream(V, x, n, Following(m))
  <2>1. \A k \in 1..Len(V) : k = Len(V) \/ k \in 1..Len(W)
    BY <1>1
  <2>2. x # None => x \in Message /\ V[1] = Data(x)
    BY <1>1, <1>2 DEF Stream
  <2>3. Len(V) # 0 /\ V[Len(V)] = Size(n.msg)
    BY <1>0, <1>1
  <2> QED BY <2>1, <2>2, <2>3, <1>0, <1>5, <1>6 DEF Stream
<1>8. Unread(V, x, Following(m)) = Unread(W, x, Slot(m))
  <2>1. CASE Len(W) = 0
    <3>1. V[1].msg = m /\ 1 \in 1..Len(V) /\ 1 \notin 1..Len(W)
      BY <1>0, <1>1, <2>1
    <3> QED BY <1>0, <1>2, <2>1, <3>1 DEF Unread, At
  <2>2. CASE Len(W) # 0
    <3>1. V[1] = W[1] /\ 1 \in 1..Len(V) /\ 1 \in 1..Len(W)
      BY <1>1, <2>2
    <3>2. W[1].msg # EndSignal
      BY <3>1, NotMessages DEF Stream, Placed
    <3> QED BY <3>1, <3>2, Zenon DEF Unread, At
  <2> QED BY <2>1, <2>2
<1> QED BY <1>1, <1>7, <1>8 DEF V, n

\* SendLoop writes the data of the size it wrote last.
LEMMA StreamData ==
    ASSUME NEW W \in Seq(Token), NEW x, NEW l, NEW c, Stream(W, x, l, c), l.pc = "data",
           NEW n, n.pc = "remove"
    PROVE  /\ l.msg \in Message
           /\ Append(W, Data(l.msg)) \in Seq(Token)
           /\ Stream(Append(W, Data(l.msg)), x, n, c)
           /\ Unread(Append(W, Data(l.msg)), x, c) = Unread(W, x, c)
<1> DEFINE m == l.msg
           V == Append(W, Data(m))
<1>0. /\ m \in Message /\ Following(m) = c
      /\ IF Len(W) = 0 THEN x = m ELSE W[Len(W)] = Size(m)
      /\ Data(m).what = "data" /\ Data(m).msg = m /\ Data(m) \in Token
      /\ Size(m).what = "size" /\ Size(m).msg = m /\ m # EndSignal /\ m # None
  BY NotMessages, Tokens DEF Stream
<1>1. /\ V \in Seq(Token) /\ Len(W) \in Nat /\ Len(V) = Len(W) + 1
      /\ \A i \in 1..Len(W) : V[i] = W[i]
      /\ V[Len(W) + 1] = Data(m)
  BY <1>0, AppendProperties, LenProperties
<1> HIDE DEF V, m
<1>2. ASSUME NEW k \in 1..Len(W) PROVE Placed(V, k, x, n, c)
  <2>0. /\ V[k] = W[k] /\ k # Len(V)
        /\ k # 1 => V[k - 1] = W[k - 1]
        /\ k # Len(W) => V[k + 1] = W[k + 1]
        /\ k = Len(W) => V[k + 1] = Data(m)
    BY <1>1
  <2>1. Placed(W, k, x, l, c)
    BY DEF Stream
  <2>2. CASE k = Len(W)
    <3>1. W[k].what = "size" /\ W[k].msg = m
      BY <1>0, <1>1, <2>2
    <3> QED BY <1>0, <2>0, <2>1, <2>2, <3>1 DEF Placed
  <2>3. CASE k # Len(W)
    <3>1. k + 1 \in 1..Len(W) /\ k + 1 \in 1..Len(V)
      BY <1>1, <2>3
    <3>2. At(V, k + 1, c) = At(W, k + 1, c)
      BY <2>0, <2>3, <3>1, Zenon DEF At
    <3> QED BY <2>0, <2>1, <2>3, <3>2 DEF Placed
  <2> QED BY <2>2, <2>3
<1>3. Placed(V, Len(V), x, n, c)
  <2>1. /\ V[Len(V)].what = "data" /\ V[Len(V)].msg \in Message /\ V[Len(V)].msg = m
        /\ Len(V) + 1 \notin 1..Len(V)
        /\ Len(V) = 1 => x = m
        /\ Len(V) # 1 => V[Len(V) - 1] = Size(m)
    BY <1>0, <1>1
  <2>2. At(V, Len(V) + 1, c) = c
    BY <2>1 DEF At
  <2> QED BY <1>0, <2>1, <2>2 DEF Placed
<1>4. Stream(V, x, n, c)
  <2>1. \A k \in 1..Len(V) : k = Len(V) \/ k \in 1..Len(W)
    BY <1>1
  <2>2. x # None => x \in Message /\ V[1] = Data(x)
    BY <1>0, <1>1 DEF Stream
  <2> QED BY <2>1, <2>2, <1>1, <1>2, <1>3 DEF Stream
<1>5. Unread(V, x, c) = Unread(W, x, c)
  <2>1. CASE Len(W) = 0
    BY <1>0, <2>1 DEF Unread
  <2>2. CASE Len(W) # 0
    <3>1. V[1] = W[1] /\ 1 \in 1..Len(V) /\ 1 \in 1..Len(W)
      BY <1>1, <2>2
    <3> QED BY <3>1, Zenon DEF Unread, At
  <2> QED BY <2>1, <2>2
<1> QED BY <1>0, <1>1, <1>4, <1>5 DEF V, m

\* SendLoop writes the end.
LEMMA StreamEnd ==
    ASSUME NEW W \in Seq(Token), NEW x, NEW l, NEW c, Stream(W, x, l, c), l.pc = "remove",
           NEW n, n.pc = "exit"
    PROVE  /\ Append(W, Size(EndSignal)) \in Seq(Token)
           /\ Stream(Append(W, Size(EndSignal)), x, n, c)
           /\ Unread(Append(W, Size(EndSignal)), x, c) = Unread(W, x, c)
<1> DEFINE V == Append(W, Size(EndSignal))
<1>0. /\ Size(EndSignal).what = "size" /\ Size(EndSignal).msg = EndSignal
      /\ Size(EndSignal) \in Token
  BY Tokens
<1>1. /\ V \in Seq(Token) /\ Len(W) \in Nat /\ Len(V) = Len(W) + 1
      /\ \A i \in 1..Len(W) : V[i] = W[i]
      /\ V[Len(W) + 1] = Size(EndSignal)
  BY <1>0, AppendProperties, LenProperties
<1> HIDE DEF V
<1>2. Len(W) = 0 => x = None
  BY DEF Stream
<1>3. ASSUME NEW k \in 1..Len(W) PROVE Placed(V, k, x, n, c)
  <2>0. /\ V[k] = W[k] /\ k # Len(V)
        /\ k # 1 => V[k - 1] = W[k - 1]
        /\ k # Len(W) => V[k + 1] = W[k + 1]
        /\ k = Len(W) => V[k + 1] = Size(EndSignal)
    BY <1>1
  <2>1. Placed(W, k, x, l, c)
    BY DEF Stream
  <2>2. At(V, k + 1, c) = At(W, k + 1, c)
    <3>1. CASE k = Len(W)
      <4>1. V[k + 1].msg = EndSignal /\ k + 1 \notin 1..Len(W)
        BY <1>0, <1>1, <2>0, <3>1
      <4> QED BY <4>1 DEF At
    <3>2. CASE k # Len(W)
      <4>1. k + 1 \in 1..Len(W) /\ k + 1 \in 1..Len(V)
        BY <1>1, <3>2
      <4> QED BY <2>0, <3>2, <4>1, Zenon DEF At
    <3> QED BY <3>1, <3>2
  <2> QED BY <2>0, <2>1, <2>2 DEF Placed
<1>4. Placed(V, Len(V), x, n, c)
  BY <1>0, <1>1, <1>2 DEF Placed
<1>5. Stream(V, x, n, c)
  <2>1. \A k \in 1..Len(V) : k = Len(V) \/ k \in 1..Len(W)
    BY <1>1
  <2>2. x # None => x \in Message /\ V[1] = Data(x)
    BY <1>1, <1>2 DEF Stream
  <2> QED BY <2>1, <2>2, <1>1, <1>3, <1>4 DEF Stream
<1>6. Unread(V, x, c) = Unread(W, x, c)
  <2>1. CASE Len(W) = 0
    <3>1. V[1].msg = EndSignal /\ 1 \notin 1..Len(W)
      BY <1>0, <1>1, <2>1
    <3> QED BY <1>2, <2>1, <3>1 DEF Unread, At
  <2>2. CASE Len(W) # 0
    <3>1. V[1] = W[1] /\ 1 \in 1..Len(V) /\ 1 \in 1..Len(W)
      BY <1>1, <2>2
    <3> QED BY <3>1, Zenon DEF Unread, At
  <2> QED BY <2>1, <2>2
<1> QED BY <1>1, <1>5, <1>6 DEF V

\* RecvLoop reads the end: nothing is left.
LEMMA StreamReadEnd ==
    ASSUME NEW W \in Seq(Token), NEW l, NEW c, Stream(W, None, l, c), W # <<>>,
           Head(W).msg = EndSignal
    PROVE  /\ Tail(W) \in Seq(Token)
           /\ Stream(Tail(W), None, l, c)
           /\ Unread(Tail(W), None, c) = Unread(W, None, c)
<1>1. /\ Head(W) = W[1] /\ Tail(W) \in Seq(Token)
      /\ Len(W) \in Nat /\ Len(W) # 0 /\ Len(Tail(W)) = Len(W) - 1 /\ 1 \in 1..Len(W)
  BY HeadTailProperties, SeqLen
<1>2. Len(W) = 1 /\ l.pc = "exit"
  BY <1>1, NotMessages DEF Stream, Placed
<1> DEFINE V == Tail(W)
<1>3. Len(V) = 0 /\ V \in Seq(Token) /\ W[1].msg = EndSignal
  BY <1>1, <1>2
<1> HIDE DEF V
<1>4. Stream(V, None, l, c)
  BY <1>2, <1>3 DEF Stream
<1>5. Unread(V, None, c) = Unread(W, None, c)
  BY <1>3 DEF Unread, At
<1> QED BY <1>3, <1>4, <1>5 DEF V

\* RecvLoop reads a size whose data is not there.
LEMMA StreamReadSize ==
    ASSUME NEW W \in Seq(Token), NEW l, NEW c, Stream(W, None, l, c), W # <<>>,
           Head(W).msg # EndSignal, ~(Len(W) >= 2)
    PROVE  /\ Head(W).msg \in Message
           /\ Tail(W) \in Seq(Token)
           /\ Stream(Tail(W), Head(W).msg, l, c)
           /\ Unread(Tail(W), Head(W).msg, c) = Unread(W, None, c)
<1> DEFINE m == Head(W).msg
<1>1. /\ Head(W) = W[1] /\ Tail(W) \in Seq(Token)
      /\ Len(W) \in Nat /\ Len(W) # 0 /\ Len(Tail(W)) = Len(W) - 1 /\ 1 \in 1..Len(W)
  BY HeadTailProperties, SeqLen
<1>2. Len(W) = 1 /\ Len(Tail(W)) = 0
  BY <1>1
<1>3. Placed(W, 1, None, l, c)
  BY <1>1 DEF Stream
<1>4. m \in Message /\ l.pc = "data" /\ l.msg = m /\ m # None
  BY <1>1, <1>2, <1>3, NotMessages DEF Placed
<1>5. Stream(Tail(W), m, l, c)
  BY SMTT(30), <1>2, <1>4 DEF Stream
<1>6. Unread(Tail(W), m, c) = Unread(W, None, c)
  <2>1. Unread(Tail(W), m, c) = Slot(m)
    BY <1>4 DEF Unread
  <2>2. Unread(W, None, c) = Slot(m)
    BY <1>1 DEF Unread, At
  <2> QED BY <2>1, <2>2
<1> QED BY <1>1, <1>4, <1>5, <1>6

\* The last place of a sequence of a places, n of which are dropped.
LEMMA LastPlace ==
    ASSUME NEW a \in Nat, NEW n \in 1..a, n # a, NEW b, b = a - n
    PROVE  b \in 1..b /\ b + n = a /\ b # 0
  OBVIOUS

\* RecvLoop has read the data at place n.
LEMMA StreamDrop ==
    ASSUME NEW W \in Seq(Token), NEW x, NEW l, NEW c, Stream(W, x, l, c),
           NEW n \in 1..Len(W), W[n].what = "data"
    PROVE  /\ SubSeq(W, n + 1, Len(W)) \in Seq(Token)
           /\ Len(SubSeq(W, n + 1, Len(W))) <= Len(W)
           /\ Stream(SubSeq(W, n + 1, Len(W)), None, l, c)
           /\ Unread(SubSeq(W, n + 1, Len(W)), None, c) = Following(W[n].msg)
<1> DEFINE V == SubSeq(W, n + 1, Len(W))
<1>1. /\ V \in Seq(Token) /\ Len(W) \in Nat /\ Len(V) = Len(W) - n
      /\ \A i \in 1..Len(V) : V[i] = W[i + n]
  <2>1. Len(W) \in Nat /\ \A i \in 1..Len(W) : W[i] \in Token
    BY LenProperties, ElementOfSeq
  <2>2. \A i \in (n + 1)..Len(W) : W[i] \in Token
    BY <2>1
  <2>3. /\ V \in Seq(Token)
        /\ Len(V) = IF n + 1 <= Len(W) THEN Len(W) - (n + 1) + 1 ELSE 0
        /\ \A i \in 1..(Len(W) - (n + 1) + 1) : V[i] = W[n + 1 + i - 1]
    BY <2>1, <2>2, SubSeqProperties
  <2> HIDE DEF V
  <2>4. Len(V) = Len(W) - n
    BY <2>1, <2>3
  <2>5. \A i \in 1..Len(V) : i \in 1..(Len(W) - (n + 1) + 1) /\ n + 1 + i - 1 = i + n
    BY <2>1, <2>4
  <2> QED BY <2>1, <2>3, <2>4, <2>5
<1> HIDE DEF V
<1>a. Len(V) = Len(W) - n /\ Len(W) \in Nat
  BY <1>1
<1>2. ASSUME NEW k \in 1..Len(V) PROVE Placed(V, k, None, l, c)
  <2>0. /\ k + n \in 1..Len(W) /\ V[k] = W[k + n]
        /\ k + n # 1
        /\ k = Len(V) <=> k + n = Len(W)
        /\ k # 1 => k - 1 \in 1..Len(V) /\ V[k - 1] = W[k + n - 1]
        /\ k # Len(V) => k + 1 \in 1..Len(V) /\ k + n + 1 \in 1..Len(W) /\ V[k + 1] = W[k + n + 1]
        /\ k = Len(V) => k + 1 \notin 1..Len(V) /\ k + n + 1 \notin 1..Len(W)
    <3>1. Len(V) \in Nat /\ k + n \in 1..Len(W) /\ V[k] = W[k + n] /\ k + n # 1
          /\ (k = Len(V) <=> k + n = Len(W))
      BY <1>1
    <3>2. k # 1 => k - 1 \in 1..Len(V) /\ (k - 1) + n = k + n - 1
      BY <1>1
    <3>3. k # Len(V) => k + 1 \in 1..Len(V) /\ (k + 1) + n = k + n + 1 /\ k + n + 1 \in 1..Len(W)
      BY <1>a
    <3>4. k = Len(V) => k + 1 \notin 1..Len(V) /\ k + n + 1 \notin 1..Len(W)
      BY <1>1
    <3>5. k # 1 => V[k - 1] = W[k + n - 1]
      BY <1>1, <3>2
    <3>6. k # Len(V) => V[k + 1] = W[k + n + 1]
      BY <1>1, <3>3
    <3> QED BY <3>1, <3>2, <3>3, <3>4, <3>5, <3>6
  <2>1. Placed(W, k + n, x, l, c)
    BY <2>0 DEF Stream
  <2>2. At(V, k + 1, c) = At(W, k + n + 1, c)
    BY <2>0, Zenon DEF At
  <2>3. CASE W[k + n].what = "size"
    BY <2>0, <2>1, <2>3 DEF Placed
  <2>4. CASE W[k + n].what # "size"
    <3>1. /\ W[k + n].what = "data" /\ W[k + n].msg \in Message
          /\ W[k + n - 1] = Size(W[k + n].msg)
          /\ Following(W[k + n].msg) = At(W, k + n + 1, c)
      BY <2>0, <2>1, <2>4 DEF Placed
    <3>2. k # 1
      <4>1. Size(W[k + n].msg).what = "size"
        BY <3>1, Tokens
      <4>2. k = 1 => k + n - 1 = n
        OBVIOUS
      <4> QED BY <3>1, <4>1, <4>2
    <3> QED BY <2>0, <2>2, <3>1, <3>2 DEF Placed
  <2> QED BY <2>3, <2>4
<1>3. Stream(V, None, l, c)
  <2>1. ASSUME l.pc = "data"
        PROVE  l.msg \in Message /\ Following(l.msg) = c /\ Len(V) # 0 /\ V[Len(V)] = Size(l.msg)
    <3>1. l.msg \in Message /\ Following(l.msg) = c /\ W[Len(W)] = Size(l.msg)
      BY <1>1, <2>1 DEF Stream
    <3>2. n # Len(W)
      BY <3>1, Tokens
    <3>3. Len(V) \in 1..Len(V) /\ Len(V) + n = Len(W) /\ Len(V) # 0
      BY <1>a, <3>2, LastPlace
    <3>4. V[Len(V)] = W[Len(W)]
      BY <1>1, <3>3
    <3> QED BY <3>1, <3>3, <3>4
  <2> QED BY <1>2, <2>1 DEF Stream
<1>4. Unread(V, None, c) = Following(W[n].msg)
  <2>1. Following(W[n].msg) = At(W, n + 1, c)
    BY DEF Stream, Placed
  <2>2. /\ 1 \in 1..Len(V) <=> n + 1 \in 1..Len(W)
        /\ 1 \in 1..Len(V) => V[1] = W[n + 1]
    BY <1>1
  <2>3. At(V, 1, c) = At(W, n + 1, c)
    BY <2>2, Zenon DEF At
  <2> QED BY <2>1, <2>3 DEF Unread
<1> QED BY <1>1, <1>3, <1>4 DEF V

-----------------------------------------------------------------------------
(* From a sender to the application of the receiver *)

\* The slot that the application in state a sends next.
Sending(a) == IF a.pc = "send" THEN Slot(a.next) ELSE Following(a.next)

\* The slot at the front of a thread's hand h, when c follows.
InHand(h, c) == IF h # None THEN Slot(h) ELSE c

\* The messages between the application a of a sender and that of the receiver,
\* which awaits slot e: in msg_queue_ q, under way between SendLoop l and
\* RecvContext x, in the hand h of the receiving thread, and in msg_queue_[i] r.
Pipe(a, q, l, W, x, h, r, e) ==
    LET c1 == Ahead(q, Sending(a))
        c2 == Unread(W, x, c1)
        c3 == InHand(h, c2)
    IN  /\ Chain(q, Sending(a))
        /\ Stream(W, x, l, c1)
        /\ h # None => Following(h) = c2
        /\ Chain(r, c3)
        /\ Ahead(r, c3) = e

\* What passes through the pipe in one step of a thread.
LEMMA PipeStart ==
    ASSUME NEW a, NEW b, NEW q, NEW l, NEW W, NEW x, NEW h, NEW r, NEW e,
           Pipe(a, q, l, W, x, h, r, e), Sending(b) = Sending(a)
    PROVE  Pipe(b, q, l, W, x, h, r, e)
  BY DEF Pipe

\* Add of a part to the queue of SocketSender.
LEMMA PipeSend ==
    ASSUME NEW a, NEW b, NEW q \in Seq(Message), NEW l, NEW W, NEW x, NEW h, NEW r, NEW e,
           Pipe(a, q, l, W, x, h, r, e), a.pc = "send", a.next \in Message,
           Sending(b) = Following(a.next)
    PROVE  Pipe(b, Append(q, a.next), l, W, x, h, r, e)
<1>1. Chain(q, Sending(a)) /\ Slot(a.next) = Sending(a)
  BY DEF Pipe, Sending
<1>2. /\ Chain(Append(q, a.next), Sending(b))
      /\ Ahead(Append(q, a.next), Sending(b)) = Ahead(q, Sending(a))
  BY <1>1, ChainAppend
<1> QED BY <1>2 DEF Pipe

\* SendLoop takes a message and writes its size.
LEMMA PipeSize ==
    ASSUME NEW a, NEW q \in Seq(Message), NEW l, NEW W \in Seq(Token), NEW x, NEW h, NEW r,
           NEW e, Pipe(a, q, l, W, x, h, r, e), l.pc = "remove", q # <<>>
    PROVE  /\ Head(q) \in Message /\ Tail(q) \in Seq(Message)
           /\ Append(W, Size(Head(q))) \in Seq(Token)
           /\ Pipe(a, Tail(q), [pc |-> "data", msg |-> Head(q)], Append(W, Size(Head(q))),
                   x, h, r, e)
<1> DEFINE c == Sending(a)
           m == Head(q)
<1>1. Chain(q, c) /\ Stream(W, x, l, Ahead(q, c))
  BY DEF Pipe
<1>2. /\ m \in Message /\ Ahead(q, c) = Slot(m) /\ Tail(q) \in Seq(Message)
      /\ Chain(Tail(q), c) /\ Ahead(Tail(q), c) = Following(m)
  BY <1>1, ChainTail
<1>3. /\ Append(W, Size(m)) \in Seq(Token)
      /\ Stream(Append(W, Size(m)), x, [pc |-> "data", msg |-> m], Following(m))
      /\ Unread(Append(W, Size(m)), x, Following(m)) = Unread(W, x, Slot(m))
  BY <1>1, <1>2, StreamSize
<1> QED BY <1>2, <1>3 DEF Pipe

\* SendLoop writes the data.
LEMMA PipeData ==
    ASSUME NEW a, NEW q, NEW l, NEW W \in Seq(Token), NEW x, NEW h, NEW r, NEW e, NEW n,
           Pipe(a, q, l, W, x, h, r, e), l.pc = "data", n.pc = "remove"
    PROVE  /\ Append(W, Data(l.msg)) \in Seq(Token)
           /\ Pipe(a, q, n, Append(W, Data(l.msg)), x, h, r, e)
<1>1. Stream(W, x, l, Ahead(q, Sending(a)))
  BY DEF Pipe
<1>2. /\ Append(W, Data(l.msg)) \in Seq(Token)
      /\ Stream(Append(W, Data(l.msg)), x, n, Ahead(q, Sending(a)))
      /\ Unread(Append(W, Data(l.msg)), x, Ahead(q, Sending(a)))
           = Unread(W, x, Ahead(q, Sending(a)))
  BY <1>1, StreamData
<1> QED BY <1>2 DEF Pipe

\* SendLoop writes the size zero of an end signal.
LEMMA PipeEnd ==
    ASSUME NEW a, NEW q, NEW l, NEW W \in Seq(Token), NEW x, NEW h, NEW r, NEW e, NEW n,
           Pipe(a, q, l, W, x, h, r, e), l.pc = "remove", n.pc = "exit"
    PROVE  /\ Append(W, Size(EndSignal)) \in Seq(Token)
           /\ Pipe(a, q, n, Append(W, Size(EndSignal)), x, h, r, e)
<1>1. Stream(W, x, l, Ahead(q, Sending(a)))
  BY DEF Pipe
<1>2. /\ Append(W, Size(EndSignal)) \in Seq(Token)
      /\ Stream(Append(W, Size(EndSignal)), x, n, Ahead(q, Sending(a)))
      /\ Unread(Append(W, Size(EndSignal)), x, Ahead(q, Sending(a)))
           = Unread(W, x, Ahead(q, Sending(a)))
  BY <1>1, StreamEnd
<1> QED BY <1>2 DEF Pipe

\* RecvLoop reads the end signal.
LEMMA PipeReadEnd ==
    ASSUME NEW a, NEW q, NEW l, NEW W \in Seq(Token), NEW h, NEW r, NEW e,
           Pipe(a, q, l, W, None, h, r, e), W # <<>>, Head(W).msg = EndSignal
    PROVE  Tail(W) \in Seq(Token) /\ Pipe(a, q, l, Tail(W), None, h, r, e)
<1>1. Stream(W, None, l, Ahead(q, Sending(a)))
  BY DEF Pipe
<1>2. /\ Tail(W) \in Seq(Token)
      /\ Stream(Tail(W), None, l, Ahead(q, Sending(a)))
      /\ Unread(Tail(W), None, Ahead(q, Sending(a))) = Unread(W, None, Ahead(q, Sending(a)))
  BY <1>1, StreamReadEnd
<1> QED BY <1>2 DEF Pipe

\* RecvLoop reads a size whose data has not come.
LEMMA PipeReadSize ==
    ASSUME NEW a, NEW q, NEW l, NEW W \in Seq(Token), NEW h, NEW r, NEW e,
           Pipe(a, q, l, W, None, h, r, e), W # <<>>, Head(W).msg # EndSignal, ~(Len(W) >= 2)
    PROVE  /\ Head(W).msg \in Message /\ Tail(W) \in Seq(Token)
           /\ Pipe(a, q, l, Tail(W), Head(W).msg, h, r, e)
<1>1. Stream(W, None, l, Ahead(q, Sending(a)))
  BY DEF Pipe
<1>2. /\ Head(W).msg \in Message /\ Tail(W) \in Seq(Token)
      /\ Stream(Tail(W), Head(W).msg, l, Ahead(q, Sending(a)))
      /\ Unread(Tail(W), Head(W).msg, Ahead(q, Sending(a)))
           = Unread(W, None, Ahead(q, Sending(a)))
  BY <1>1, StreamReadSize
<1> QED BY <1>2 DEF Pipe

\* The data of the size that was read before, or of the size in front of it.
LEMMA PipeReadData ==
    ASSUME NEW a, NEW q, NEW l, NEW W \in Seq(Token), NEW x, NEW r, NEW e,
           Pipe(a, q, l, W, x, None, r, e), W # <<>>,
           NEW n, n = IF x = None /\ Len(W) >= 2 THEN 2 ELSE 1,
           x # None \/ (Len(W) >= 2 /\ Head(W).msg # EndSignal)
    PROVE  /\ Head(W).msg \in Message /\ SubSeq(W, n + 1, Len(W)) \in Seq(Token)
           /\ Len(SubSeq(W, n + 1, Len(W))) <= Len(W)
           /\ Pipe(a, q, l, SubSeq(W, n + 1, Len(W)), None, Head(W).msg, r, e)
<1> DEFINE m == Head(W).msg
           c == Ahead(q, Sending(a))
           V == SubSeq(W, n + 1, Len(W))
<1>1. Stream(W, x, l, c) /\ Chain(r, Unread(W, x, c)) /\ Ahead(r, Unread(W, x, c)) = e
  BY DEF Pipe, InHand
<1>2. Head(W) = W[1] /\ Len(W) \in Nat /\ Len(W) # 0 /\ 1 \in 1..Len(W)
  BY HeadTailProperties, SeqLen
<1> HIDE DEF c
<1>3. /\ n \in 1..Len(W) /\ W[n].what = "data" /\ W[n].msg = m /\ m \in Message
      /\ Unread(W, x, c) = Slot(m)
  <2>1. CASE x # None
    <3>1. x \in Message /\ W[1] = Data(x) /\ n = 1
      BY <1>1, <1>2, <2>1 DEF Stream
    <3>2. W[1].what = "data" /\ W[1].msg = x
      BY <3>1, Tokens
    <3> QED BY <1>2, <2>1, <3>1, <3>2 DEF Unread
  <2>2. CASE x = None
    <3>1. n = 2 /\ Len(W) >= 2 /\ m # EndSignal /\ 2 \in 1..Len(W)
      BY <1>2, <2>2
    <3>2. Placed(W, 1, None, l, c)
      BY <1>1, <1>2, <2>2 DEF Stream
    <3>3. m \in Message /\ W[1].msg = m
      BY <1>2, <3>1, <3>2 DEF Placed
    <3>4. W[2] = Data(m)
      BY <1>2, <3>1, <3>2, <3>3, NotMessages DEF Placed
    <3>5. W[2].what = "data" /\ W[2].msg = m
      BY <3>3, <3>4, Tokens
    <3>6. Unread(W, x, c) = Slot(m)
      BY <1>2, <2>2, <3>1, <3>3 DEF Unread, At
    <3> QED BY <3>1, <3>3, <3>5, <3>6
  <2> QED BY <2>1, <2>2
<1>4. /\ V \in Seq(Token) /\ Len(V) <= Len(W) /\ Stream(V, None, l, c)
      /\ Unread(V, None, c) = Following(m)
  BY <1>1, <1>3, StreamDrop
<1>5. m # None
  BY <1>3, NotMessages
<1> HIDE DEF m, V
<1>6. InHand(m, Unread(V, None, c)) = Unread(W, x, c)
  BY <1>3, <1>5 DEF InHand
<1>7. Chain(q, Sending(a))
  BY DEF Pipe
<1>8. Pipe(a, q, l, V, None, m, r, e)
  BY <1>1, <1>4, <1>6, <1>7 DEF Pipe, c
<1> QED BY <1>3, <1>4, <1>8 DEF m, V

\* Add of the message in the hand of RecvLoop to the queue of its sender.
LEMMA PipeAdd ==
    ASSUME NEW a, NEW q, NEW l, NEW W, NEW x, NEW h \in Message, NEW r \in Seq(Message), NEW e,
           Pipe(a, q, l, W, x, h, r, e)
    PROVE  Append(r, h) \in Seq(Message) /\ Pipe(a, q, l, W, x, None, Append(r, h), e)
<1> DEFINE c == Unread(W, x, Ahead(q, Sending(a)))
<1>1. /\ Following(h) = c /\ Chain(r, Slot(h)) /\ Ahead(r, Slot(h)) = e
      /\ Chain(q, Sending(a)) /\ Stream(W, x, l, Ahead(q, Sending(a)))
  BY NotMessages DEF Pipe, InHand
<1>2. /\ Append(r, h) \in Seq(Message)
      /\ Chain(Append(r, h), c)
      /\ Ahead(Append(r, h), c) = e
  BY <1>1, ChainAppend
<1> HIDE DEF c
<1>3. InHand(None, c) = c
  BY DEF InHand
<1> QED BY <1>1, <1>2, <1>3 DEF Pipe, c

\* Recv takes the message it awaits.
LEMMA PipeTake ==
    ASSUME NEW a, NEW q, NEW l, NEW W, NEW x, NEW h, NEW r \in Seq(Message), NEW e,
           Pipe(a, q, l, W, x, h, r, e), r # <<>>
    PROVE  /\ Head(r) \in Message /\ Tail(r) \in Seq(Message) /\ Slot(Head(r)) = e
           /\ Pipe(a, q, l, W, x, h, Tail(r), Following(Head(r)))
<1> DEFINE c == InHand(h, Unread(W, x, Ahead(q, Sending(a))))
<1>1. Chain(r, c) /\ Ahead(r, c) = e
  BY DEF Pipe
<1>2. /\ Head(r) \in Message /\ Ahead(r, c) = Slot(Head(r)) /\ Tail(r) \in Seq(Message)
      /\ Chain(Tail(r), c) /\ Ahead(Tail(r), c) = Following(Head(r))
  BY <1>1, ChainTail
<1> QED BY <1>1, <1>2 DEF Pipe

\* When the receiver awaits an RPC message that is never sent, nothing is left
\* for it.
LEMMA PipeEmpty ==
    ASSUME NEW a, NEW q, NEW l, NEW W, NEW x, NEW h, NEW r \in Seq(Message), NEW e,
           Pipe(a, q, l, W, x, h, r, e), e.rpc \in Nat, e.rpc > MaxRpc
    PROVE  r = <<>> /\ h \notin Message
<1>1. \A m \in Message : Slot(m) # e
  BY SocketAssumption DEF Message, Slot
<1> DEFINE c == InHand(h, Unread(W, x, Ahead(q, Sending(a))))
<1>2. Chain(r, c) /\ Ahead(r, c) = e
  BY DEF Pipe
<1>3. r = <<>>
  <2> SUFFICES ASSUME r # <<>> PROVE FALSE
    OBVIOUS
  <2> QED BY <1>1, <1>2, ChainTail
<1>4. c = e
  <2>1. Len(r) = 0
    BY <1>3, SeqLen
  <2> QED BY <1>2, <2>1 DEF Ahead
<1>5. h \notin Message
  BY <1>1, <1>4, NotMessages DEF InHand
<1> QED BY <1>3, <1>5

-----------------------------------------------------------------------------
(* The inductive invariant *)

\* The states of an application, a queue, SendLoop, RecvLoop and Recv.
AppState == [pc : {"idle", "send", "join", "done"}, next : Message \cup {None}]
Queue == [msgs : Seq(Message), closed : BOOLEAN]
LoopState == [pc : {"remove", "data", "exit"}, msg : Message \cup {None}]
WorkerState ==
    [pc : {"poll", "add", "blocked", "post", "exit"}, from : Senders,
     msg : Message \cup {None, EndSignal}]
RecvState ==
    [pc : {"wait", "scan", "waitData", "take", "close", "join", "done"},
     iter : Senders, from : Senders, parts : Seq(Message)]

\* Every variable has its type.
Types ==
    /\ config \in Configs
    /\ app \in [Senders -> AppState]
    /\ sendq \in [Senders -> Queue]
    /\ loop \in [Senders -> LoopState]
    /\ wire \in [Senders -> Seq(Token)]
    /\ worker \in [Workers -> WorkerState]
    /\ pool \in [Workers -> SUBSET Senders]
    /\ pending \in [Workers -> SUBSET Senders]
    /\ ctx \in [Senders -> Message \cup {None}]
    /\ recvq \in [Senders -> Queue]
    /\ sem \in Nat
    /\ recv \in RecvState
    /\ delivered \in [Senders -> Seq(Seq(Message))]

\* Queues and streams hold what fits.
Bounds ==
    \A i \in Senders :
      /\ Len(sendq[i].msgs) <= queue_size
      /\ Len(recvq[i].msgs) <= queue_size
      /\ Len(wire[i]) <= WireSize

\* An application that is not in Send has sent all of its last RPC message.
Apps ==
    \A i \in Senders :
      IF app[i].pc = "send" THEN app[i].next \in Message
      ELSE ~(app[i].next.part < app[i].next.arrays)

\* A thread only has sockets of its own; epoll has reported the pending ones,
\* and nobody else reads them.
Threads ==
    \A w \in Workers :
      /\ pool[w] \subseteq Sockets(w) /\ pending[w] \subseteq Sockets(w)
      /\ \A i \in pending[w] \cap pool[w] : wire[i] # <<>>
      /\ worker[w].pc \in {"add", "blocked", "post"} =>
           worker[w].from \in Sockets(w) /\ worker[w].msg # None
      /\ worker[w].pc = "blocked" => worker[w].msg # EndSignal

\* The parts of an RPC message that have come so far are of the RPC message
\* after those that were delivered.
Partial ==
    /\ Len(recv.parts) # 0
    /\ Len(recv.parts) <= recv.parts[1].arrays
    /\ \A j \in 1..Len(recv.parts) :
         recv.parts[j] = [rpc |-> Len(delivered[recv.from]) + 1, part |-> j - 1,
                          arrays |-> recv.parts[1].arrays]

\* SocketReceiver::Finalize has begun.
Finalizing == recv.pc \in {"close", "join", "done"}

\* A queue is closed when the application expects nothing more.
Receiving ==
    /\ IF recv.pc \in {"waitData", "take"} THEN Partial ELSE recv.parts = <<>>
    /\ Finalizing => ~Expecting
    /\ \A i \in Senders : recvq[i].closed => Finalizing

\* The message of sender i that a thread is about to add.
Holds(me, i) ==
    IF me.pc \in {"add", "blocked"} /\ me.from = i /\ me.msg # EndSignal THEN me.msg ELSE None
Hand(i) == Holds(worker[i % max_thread_count], i)

\* The slot that the application awaits from sender i.
Awaited(i) ==
    IF recv.pc \in {"waitData", "take"} /\ recv.from = i
    THEN [rpc |-> Len(delivered[i]) + 1, part |-> Len(recv.parts),
          arrays |-> recv.parts[1].arrays]
    ELSE [rpc |-> Len(delivered[i]) + 1, part |-> 0, arrays |-> 0]

\* Nothing is lost, doubled or swapped between the application of sender i and
\* that of the receiver.
PipeOf(i) ==
    Pipe(app[i], sendq[i].msgs, loop[i], wire[i], ctx[i], Hand(i), recvq[i].msgs, Awaited(i))

Pipes == \A i \in Senders : PipeOf(i)

IInv == Types /\ Bounds /\ Apps /\ Threads /\ Receiving /\ MessagesIntact /\ Pipes

-----------------------------------------------------------------------------
(* Steps of a sender *)

\* The thread of every sender is one of the receiver's.
LEMMA ConfigProperties ==
    ASSUME config \in Configs
    PROVE  /\ max_thread_count \in Nat \ {0} /\ queue_size \in Nat \ {0}
           /\ \A i \in Senders : i % max_thread_count \in Workers
           /\ \A w \in Workers : \A i \in Sockets(w) : i \in Senders /\ i % max_thread_count = w
           /\ 0 \in Senders
<1>1. config.max_thread_count \in 1..num_sender /\ config.queue_size \in Nat \ {0}
  BY SocketAssumption
<1>2. max_thread_count \in Nat \ {0} /\ queue_size \in Nat \ {0}
  BY <1>1, SocketAssumption DEF max_thread_count, queue_size
<1>3. \A i \in Senders : i % max_thread_count \in Workers
  BY <1>2, SocketAssumption DEF Workers, Senders
<1> QED BY <1>2, <1>3, SocketAssumption DEF Sockets, Senders

\* What a step of sender i has to ensure, since it leaves the receiver alone.
LEMMA SenderKeeps ==
    ASSUME IInv, NEW i \in Senders, UNCHANGED receiverVars,
           app' \in [Senders -> AppState], sendq' \in [Senders -> Queue],
           loop' \in [Senders -> LoopState], wire' \in [Senders -> Seq(Token)],
           \A j \in Senders \ {i} : /\ app'[j] = app[j] /\ sendq'[j] = sendq[j]
                                    /\ loop'[j] = loop[j] /\ wire'[j] = wire[j],
           Len(sendq'[i].msgs) <= queue_size,
           Len(wire'[i]) <= WireSize,
           wire'[i] = <<>> => wire[i] = <<>>,
           IF app'[i].pc = "send" THEN app'[i].next \in Message
           ELSE ~(app'[i].next.part < app'[i].next.arrays),
           Pipe(app'[i], sendq'[i].msgs, loop'[i], wire'[i], ctx[i], Hand(i), recvq[i].msgs,
                Awaited(i))
    PROVE  IInv'
<1>1. /\ config' = config /\ worker' = worker /\ pool' = pool /\ pending' = pending
      /\ ctx' = ctx /\ recvq' = recvq /\ sem' = sem /\ recv' = recv /\ delivered' = delivered
  BY DEF receiverVars
<1>2. Workers' = Workers /\ queue_size' = queue_size /\ \A w : Sockets(w)' = Sockets(w)
  BY <1>1 DEF Workers, queue_size, max_thread_count, Sockets
<1>3. Types'
  BY <1>1, <1>2 DEF IInv, Types
<1>4. Bounds'
  BY <1>1, <1>2 DEF IInv, Bounds
<1>5. Apps'
  BY DEF IInv, Apps
<1>6. Threads'
  <2>1. \A j \in Senders : wire[j] # <<>> => wire'[j] # <<>>
    OBVIOUS
  <2>2. \A w \in Workers : pending[w] \subseteq Senders
    BY DEF IInv, Types
  <2> QED BY <1>1, <1>2, <2>1, <2>2, Zenon DEF IInv, Threads
<1>7. Receiving' /\ MessagesIntact'
  BY <1>1 DEF IInv, Receiving, MessagesIntact, Partial, Finalizing, Expecting
<1>8. \A j \in Senders : Hand(j)' = Hand(j) /\ Awaited(j)' = Awaited(j)
  BY <1>1 DEF Hand, Awaited, max_thread_count
<1>9. Pipes'
  BY <1>1, <1>8 DEF IInv, Pipes, PipeOf
<1> QED BY <1>3, <1>4, <1>5, <1>6, <1>7, <1>9 DEF IInv

\* Other messages in a queue.
LEMMA SetMessages ==
    ASSUME NEW q \in Queue, NEW msgs \in Seq(Message)
    PROVE  /\ [q EXCEPT !.msgs = msgs] \in Queue
           /\ [q EXCEPT !.msgs = msgs].msgs = msgs
           /\ [q EXCEPT !.msgs = msgs].closed = q.closed
  BY DEF Queue

\* The application calls Send.
LEMMA StartRpcStep == ASSUME IInv, NEW i \in Senders, NEW n \in 0..MaxArrays, StartRpc(i, n)
                      PROVE  IInv'
<1> DEFINE b == [pc |-> "send", next |-> [rpc |-> app[i].next.rpc + 1, part |-> 0, arrays |-> n]]
<1>1. /\ app \in [Senders -> AppState] /\ app[i].pc = "idle" /\ app[i].next.rpc < MaxRpc
      /\ app' = [app EXCEPT ![i] = b]
      /\ sendq' = sendq /\ loop' = loop /\ wire' = wire /\ UNCHANGED receiverVars
  BY DEF IInv, Types, StartRpc
<1>2. app[i].next \in Message \cup {None} /\ ~(app[i].next.part < app[i].next.arrays)
  BY <1>1 DEF IInv, Apps, AppState
<1>3. app[i].next.rpc \in Nat
  BY <1>2, SocketAssumption DEF Message, None
<1>4. b.next \in Message /\ b \in AppState /\ b.pc = "send"
  BY <1>1, <1>3, SocketAssumption DEF AppState, Message
<1>5. Sending(b) = Sending(app[i])
  BY <1>1, <1>2 DEF Sending, Slot, Following
<1> HIDE DEF b
<1>6. app'[i] = b /\ app' \in [Senders -> AppState] /\ \A j \in Senders \ {i} : app'[j] = app[j]
  BY <1>1, <1>4
<1>7. PipeOf(i)
  BY DEF IInv, Pipes
<1>8. Pipe(app'[i], sendq'[i].msgs, loop'[i], wire'[i], ctx[i], Hand(i), recvq[i].msgs, Awaited(i))
  BY <1>1, <1>5, <1>6, <1>7, PipeStart DEF PipeOf
<1>9. Len(sendq[i].msgs) <= queue_size /\ Len(wire[i]) <= WireSize
  BY DEF IInv, Bounds
<1>10. sendq \in [Senders -> Queue] /\ loop \in [Senders -> LoopState] /\ wire \in [Senders -> Seq(Token)]
  BY DEF IInv, Types
<1> QED BY <1>1, <1>4, <1>6, <1>8, <1>9, <1>10, SenderKeeps

\* Send adds one part to the queue.
LEMMA SendPartStep == ASSUME IInv, NEW i \in Senders, SendPart(i) PROVE IInv'
<1> DEFINE a == app[i]
           b == IF a.next.part < a.next.arrays
                THEN [pc |-> "send", next |-> [a.next EXCEPT !.part = a.next.part + 1]]
                ELSE [pc |-> "idle", next |-> a.next]
           p == [sendq[i] EXCEPT !.msgs = Append(@, a.next)]
<1>1. /\ app \in [Senders -> AppState] /\ a \in AppState
      /\ sendq \in [Senders -> Queue] /\ sendq[i] \in Queue /\ sendq[i].msgs \in Seq(Message)
      /\ loop \in [Senders -> LoopState] /\ wire \in [Senders -> Seq(Token)]
  BY DEF IInv, Types, Queue
<1>2. /\ a.pc = "send" /\ a.next \in Message /\ Len(sendq[i].msgs) < queue_size
      /\ app' = [app EXCEPT ![i] = b] /\ sendq' = [sendq EXCEPT ![i] = p]
      /\ loop' = loop /\ wire' = wire /\ UNCHANGED receiverVars
  <2>1. a.pc = "send" /\ a.next \in Message /\ Len(sendq[i].msgs) < queue_size
    BY DEF SendPart, HasRoom, IInv, Apps
  <2>2. app' = [app EXCEPT ![i] = b]
    BY DEF SendPart
  <2>3. sendq' = [sendq EXCEPT ![i] = p]
    BY DEF SendPart
  <2>4. loop' = loop /\ wire' = wire /\ UNCHANGED receiverVars
    BY DEF SendPart
  <2> QED BY <2>1, <2>2, <2>3, <2>4
<1>3. b \in AppState /\ Sending(b) = Following(a.next)
      /\ IF b.pc = "send" THEN b.next \in Message ELSE ~(b.next.part < b.next.arrays)
  <2>1. CASE a.next.part < a.next.arrays
    <3>1. b = [pc |-> "send", next |-> [rpc |-> a.next.rpc, part |-> a.next.part + 1,
                                        arrays |-> a.next.arrays]]
      BY <1>1, <1>2, <2>1 DEF AppState, Message
    <3>2. b.next \in Message
      BY SMTT(30), <1>2, <2>1, <3>1, SocketAssumption DEF Message
    <3>3. Sending(b) = Following(a.next)
      BY <1>2, <2>1, <3>1, SocketAssumption DEF Sending, Slot, Following, Message
    <3> QED BY <3>1, <3>2, <3>3 DEF AppState
  <2>2. CASE ~(a.next.part < a.next.arrays)
    <3>1. b = [pc |-> "idle", next |-> a.next]
      BY <2>2
    <3> QED BY <1>2, <2>2, <3>1 DEF AppState, Sending
  <2> QED BY <2>1, <2>2
<1>4. /\ p.msgs = Append(sendq[i].msgs, a.next) /\ p \in Queue
      /\ Len(p.msgs) <= queue_size
  <2>2. /\ Append(sendq[i].msgs, a.next) \in Seq(Message)
        /\ Len(Append(sendq[i].msgs, a.next)) = Len(sendq[i].msgs) + 1
        /\ Len(sendq[i].msgs) \in Nat
    BY <1>1, <1>2, AppendProperties, LenProperties
  <2>3. queue_size \in Nat
    BY ConfigProperties DEF IInv, Types
  <2>1. p.msgs = Append(sendq[i].msgs, a.next) /\ p \in Queue
    BY <1>1, <2>2, SetMessages
  <2> HIDE DEF p
  <2>6. Len(p.msgs) <= queue_size
    BY <1>2, <2>1, <2>2, <2>3
  <2> QED BY <2>1, <2>6
<1> HIDE DEF a, b, p
<1>5. PipeOf(i)
  BY DEF IInv, Pipes
<1>6. Pipe(b, Append(sendq[i].msgs, a.next), loop[i], wire[i], ctx[i], Hand(i), recvq[i].msgs,
           Awaited(i))
  BY <1>1, <1>2, <1>3, <1>5, PipeSend DEF PipeOf, a
<1>7. /\ app'[i] = b /\ app' \in [Senders -> AppState] /\ sendq'[i] = p
      /\ sendq' \in [Senders -> Queue]
      /\ \A j \in Senders \ {i} : app'[j] = app[j] /\ sendq'[j] = sendq[j]
  BY <1>1, <1>2, <1>3, <1>4
<1>8. Len(wire[i]) <= WireSize
  BY DEF IInv, Bounds
<1> QED BY <1>1, <1>2, <1>3, <1>4, <1>6, <1>7, <1>8, SenderKeeps

\* SocketSender::Finalize closes the queue.
LEMMA SenderFinalizeStep == ASSUME IInv, NEW i \in Senders, SenderFinalize(i) PROVE IInv'
<1> DEFINE a == app[i]
           b == [a EXCEPT !.pc = "join"]
           p == [sendq[i] EXCEPT !.closed = TRUE]
<1>1. /\ app \in [Senders -> AppState] /\ a \in AppState
      /\ sendq \in [Senders -> Queue] /\ sendq[i] \in Queue
      /\ loop \in [Senders -> LoopState] /\ wire \in [Senders -> Seq(Token)]
  BY DEF IInv, Types
<1>2. /\ a.pc = "idle" /\ ~(a.next.part < a.next.arrays)
      /\ app' = [app EXCEPT ![i] = b] /\ sendq' = [sendq EXCEPT ![i] = p]
      /\ loop' = loop /\ wire' = wire /\ UNCHANGED receiverVars
  BY <1>1 DEF SenderFinalize, IInv, Apps
<1>3. b \in AppState /\ b.pc = "join" /\ b.next = a.next /\ p \in Queue /\ p.msgs = sendq[i].msgs
  BY <1>1 DEF AppState, Queue
<1>4. Sending(b) = Sending(a)
  BY <1>2, <1>3 DEF Sending
<1> HIDE DEF b, p
<1>5. PipeOf(i) /\ Len(sendq[i].msgs) <= queue_size /\ Len(wire[i]) <= WireSize
  BY DEF IInv, Pipes, Bounds
<1>6. Pipe(b, p.msgs, loop[i], wire[i], ctx[i], Hand(i), recvq[i].msgs, Awaited(i))
  BY <1>3, <1>4, <1>5, PipeStart DEF PipeOf
<1>7. /\ app'[i] = b /\ app' \in [Senders -> AppState] /\ sendq'[i] = p
      /\ sendq' \in [Senders -> Queue]
      /\ \A j \in Senders \ {i} : app'[j] = app[j] /\ sendq'[j] = sendq[j]
  BY <1>1, <1>2, <1>3
<1>8. Len(sendq'[i].msgs) <= queue_size /\ Len(wire'[i]) <= WireSize /\ wire'[i] = wire[i]
  BY <1>2, <1>3, <1>5, <1>7
<1>9. app'[i].pc # "send" /\ ~(app'[i].next.part < app'[i].next.arrays)
  BY <1>2, <1>3, <1>7
<1> QED BY <1>1, <1>2, <1>6, <1>7, <1>8, <1>9, SenderKeeps

\* SocketSender::Finalize joins SendLoop.
LEMMA SenderJoinStep == ASSUME IInv, NEW i \in Senders, SenderJoin(i) PROVE IInv'
<1> DEFINE a == app[i]
           b == [a EXCEPT !.pc = "done"]
<1>1. /\ app \in [Senders -> AppState] /\ a \in AppState
      /\ sendq \in [Senders -> Queue]
      /\ loop \in [Senders -> LoopState] /\ wire \in [Senders -> Seq(Token)]
  BY DEF IInv, Types
<1>2. /\ a.pc = "join" /\ ~(a.next.part < a.next.arrays)
      /\ app' = [app EXCEPT ![i] = b]
      /\ sendq' = sendq /\ loop' = loop /\ wire' = wire /\ UNCHANGED receiverVars
  BY <1>1 DEF SenderJoin, IInv, Apps
<1>3. b \in AppState /\ b.pc = "done" /\ b.next = a.next
  BY <1>1 DEF AppState
<1>4. Sending(b) = Sending(a)
  BY <1>2, <1>3 DEF Sending
<1> HIDE DEF b
<1>5. PipeOf(i) /\ Len(sendq[i].msgs) <= queue_size /\ Len(wire[i]) <= WireSize
  BY DEF IInv, Pipes, Bounds
<1>6. Pipe(b, sendq[i].msgs, loop[i], wire[i], ctx[i], Hand(i), recvq[i].msgs, Awaited(i))
  BY <1>4, <1>5, PipeStart DEF PipeOf
<1>7. /\ app'[i] = b /\ app' \in [Senders -> AppState]
      /\ \A j \in Senders \ {i} : app'[j] = app[j]
  BY <1>1, <1>2, <1>3
<1>9. app'[i].pc # "send" /\ ~(app'[i].next.part < app'[i].next.arrays)
  BY <1>2, <1>3, <1>7
<1> QED BY <1>1, <1>2, <1>5, <1>6, <1>7, <1>9, SenderKeeps

\* SendLoop writes a size.
LEMMA SendSizeStep == ASSUME IInv, NEW i \in Senders, SendSize(i) PROVE IInv'
<1> DEFINE q == sendq[i].msgs
           m == Head(q)
           n == [pc |-> "data", msg |-> m]
           p == [sendq[i] EXCEPT !.msgs = Tail(@)]
           V == Append(wire[i], Size(m))
<1>1. /\ app \in [Senders -> AppState]
      /\ sendq \in [Senders -> Queue] /\ sendq[i] \in Queue /\ q \in Seq(Message)
      /\ loop \in [Senders -> LoopState] /\ wire \in [Senders -> Seq(Token)]
      /\ wire[i] \in Seq(Token)
  BY DEF IInv, Types, Queue
<1>2. /\ loop[i].pc = "remove" /\ Len(wire[i]) < WireSize /\ q # <<>>
      /\ wire' = [wire EXCEPT ![i] = V] /\ loop' = [loop EXCEPT ![i] = n]
      /\ sendq' = [sendq EXCEPT ![i] = p] /\ app' = app /\ UNCHANGED receiverVars
  BY <1>1 DEF SendSize, Size
<1>3. PipeOf(i) /\ Len(q) <= queue_size
  BY DEF IInv, Pipes, Bounds
<1>4. /\ m \in Message /\ Tail(q) \in Seq(Message) /\ V \in Seq(Token)
      /\ Pipe(app[i], Tail(q), n, V, ctx[i], Hand(i), recvq[i].msgs, Awaited(i))
  BY <1>1, <1>2, <1>3, PipeSize DEF PipeOf
<1>5. p.msgs = Tail(q) /\ p \in Queue /\ n \in LoopState
  BY <1>1, <1>4 DEF Queue, LoopState
<1>6. Len(p.msgs) <= queue_size /\ Len(V) <= WireSize /\ V # <<>>
  <2>1. Len(Tail(q)) = Len(q) - 1 /\ Len(q) \in Nat /\ Len(V) = Len(wire[i]) + 1
        /\ Len(wire[i]) \in Nat /\ V # <<>>
    BY <1>1, <1>2, <1>4, HeadTailProperties, AppendProperties, LenProperties, Tokens
  <2>2. queue_size \in Nat /\ WireSize \in Nat
    BY ConfigProperties, SocketAssumption DEF IInv, Types
  <2> QED BY <1>2, <1>3, <1>5, <2>1, <2>2
<1> HIDE DEF q, m, n, p, V
<1>7. /\ sendq'[i] = p /\ sendq' \in [Senders -> Queue]
      /\ loop'[i] = n /\ loop' \in [Senders -> LoopState]
      /\ wire'[i] = V /\ wire' \in [Senders -> Seq(Token)]
      /\ \A j \in Senders \ {i} : loop'[j] = loop[j] /\ sendq'[j] = sendq[j] /\ wire'[j] = wire[j]
  BY <1>1, <1>2, <1>4, <1>5
<1>8. IF app[i].pc = "send" THEN app[i].next \in Message
      ELSE ~(app[i].next.part < app[i].next.arrays)
  BY DEF IInv, Apps
<1>9. Pipe(app'[i], sendq'[i].msgs, loop'[i], wire'[i], ctx[i], Hand(i), recvq[i].msgs, Awaited(i))
  BY <1>2, <1>4, <1>5, <1>7
<1> QED BY <1>1, <1>2, <1>6, <1>7, <1>8, <1>9, SenderKeeps

\* SendLoop writes data.
LEMMA SendDataStep == ASSUME IInv, NEW i \in Senders, SendData(i) PROVE IInv'
<1> DEFINE m == loop[i].msg
           n == [pc |-> "remove", msg |-> None]
           V == Append(wire[i], Data(m))
<1>1. /\ app \in [Senders -> AppState] /\ sendq \in [Senders -> Queue]
      /\ loop \in [Senders -> LoopState] /\ wire \in [Senders -> Seq(Token)]
      /\ wire[i] \in Seq(Token)
  BY DEF IInv, Types
<1>2. /\ loop[i].pc = "data" /\ Len(wire[i]) < WireSize
      /\ wire' = [wire EXCEPT ![i] = V] /\ loop' = [loop EXCEPT ![i] = n]
      /\ sendq' = sendq /\ app' = app /\ UNCHANGED receiverVars
  BY <1>1 DEF SendData, Data
<1>3. PipeOf(i) /\ Len(sendq[i].msgs) <= queue_size
  BY DEF IInv, Pipes, Bounds
<1>4. /\ V \in Seq(Token) /\ m \in Message
      /\ Pipe(app[i], sendq[i].msgs, n, V, ctx[i], Hand(i), recvq[i].msgs, Awaited(i))
  <2>1. n.pc = "remove"
    OBVIOUS
  <2>2. m \in Message
    BY <1>2, <1>3 DEF PipeOf, Pipe, Stream
  <2> HIDE DEF n
  <2> QED BY <1>1, <1>2, <1>3, <2>1, <2>2, PipeData DEF PipeOf
<1>5. n \in LoopState
  BY DEF LoopState
<1>6. Len(V) <= WireSize /\ V # <<>>
  <2>1. Len(V) = Len(wire[i]) + 1 /\ Len(wire[i]) \in Nat /\ V # <<>>
    BY <1>1, <1>4, AppendProperties, LenProperties, Tokens
  <2> QED BY <1>2, <2>1, SocketAssumption
<1> HIDE DEF m, n, V
<1>7. /\ loop'[i] = n /\ loop' \in [Senders -> LoopState]
      /\ wire'[i] = V /\ wire' \in [Senders -> Seq(Token)]
      /\ \A j \in Senders \ {i} : loop'[j] = loop[j] /\ wire'[j] = wire[j]
  BY <1>1, <1>2, <1>4, <1>5
<1>8. IF app[i].pc = "send" THEN app[i].next \in Message
      ELSE ~(app[i].next.part < app[i].next.arrays)
  BY DEF IInv, Apps
<1>9. Pipe(app'[i], sendq'[i].msgs, loop'[i], wire'[i], ctx[i], Hand(i), recvq[i].msgs, Awaited(i))
  BY <1>2, <1>4, <1>7
<1> QED BY <1>1, <1>2, <1>3, <1>6, <1>7, <1>8, <1>9, SenderKeeps

\* SendLoop ends.
LEMMA SendEndStep == ASSUME IInv, NEW i \in Senders, SendEnd(i) PROVE IInv'
<1> DEFINE n == [loop[i] EXCEPT !.pc = "exit"]
           V == Append(wire[i], Size(EndSignal))
<1>1. /\ app \in [Senders -> AppState] /\ sendq \in [Senders -> Queue]
      /\ loop \in [Senders -> LoopState] /\ wire \in [Senders -> Seq(Token)]
      /\ wire[i] \in Seq(Token)
  BY DEF IInv, Types
<1>2. /\ loop[i].pc = "remove" /\ Len(wire[i]) < WireSize
      /\ wire' = [wire EXCEPT ![i] = V] /\ loop' = [loop EXCEPT ![i] = n]
      /\ sendq' = sendq /\ app' = app /\ UNCHANGED receiverVars
  BY <1>1 DEF SendEnd, Size
<1>3. PipeOf(i) /\ Len(sendq[i].msgs) <= queue_size
  BY DEF IInv, Pipes, Bounds
<1>5. n \in LoopState /\ n.pc = "exit"
  BY <1>1 DEF LoopState
<1> HIDE DEF n
<1>4. /\ V \in Seq(Token)
      /\ Pipe(app[i], sendq[i].msgs, n, V, ctx[i], Hand(i), recvq[i].msgs, Awaited(i))
  BY <1>1, <1>2, <1>3, <1>5, PipeEnd DEF PipeOf
<1>6. Len(V) <= WireSize /\ V # <<>>
  <2>1. Len(V) = Len(wire[i]) + 1 /\ Len(wire[i]) \in Nat /\ V # <<>>
    BY <1>1, <1>4, AppendProperties, LenProperties, Tokens
  <2> QED BY <1>2, <2>1, SocketAssumption
<1> HIDE DEF V
<1>7. /\ loop'[i] = n /\ loop' \in [Senders -> LoopState]
      /\ wire'[i] = V /\ wire' \in [Senders -> Seq(Token)]
      /\ \A j \in Senders \ {i} : loop'[j] = loop[j] /\ wire'[j] = wire[j]
  BY <1>1, <1>2, <1>4, <1>5
<1>8. IF app[i].pc = "send" THEN app[i].next \in Message
      ELSE ~(app[i].next.part < app[i].next.arrays)
  BY DEF IInv, Apps
<1>9. Pipe(app'[i], sendq'[i].msgs, loop'[i], wire'[i], ctx[i], Hand(i), recvq[i].msgs, Awaited(i))
  BY <1>2, <1>4, <1>7
<1> QED BY <1>1, <1>2, <1>3, <1>6, <1>7, <1>8, <1>9, SenderKeeps

-----------------------------------------------------------------------------
(* Steps of a receiving thread *)

\* What a step of thread w has to ensure, that concerns the socket of sender i
\* and puts the thread into state k.
LEMMA WorkerKeeps ==
    ASSUME IInv, NEW w \in Workers, NEW i \in Sockets(w), NEW k \in WorkerState,
           UNCHANGED <<senderVars, recv, delivered>>, sem' \in Nat,
           worker' = [worker EXCEPT ![w] = k],
           worker[w].pc \in {"add", "blocked"} => worker[w].from = i,
           k.pc \in {"add", "blocked", "post"} => k.from = i /\ k.msg # None,
           k.pc = "blocked" => k.msg # EndSignal,
           pool' \in [Workers -> SUBSET Senders], pool'[w] \subseteq pool[w],
           pending' \in [Workers -> SUBSET Senders], pending'[w] \subseteq Sockets(w),
           \A v \in Workers \ {w} : pool'[v] = pool[v] /\ pending'[v] = pending[v],
           wire' \in [Senders -> Seq(Token)], ctx' \in [Senders -> Message \cup {None}],
           recvq' \in [Senders -> Queue],
           \A j \in Senders \ {i} : wire'[j] = wire[j] /\ ctx'[j] = ctx[j] /\ recvq'[j] = recvq[j],
           \A j \in pending'[w] \cap pool'[w] : wire'[j] # <<>>,
           Len(wire'[i]) <= WireSize,
           Len(recvq'[i].msgs) <= queue_size,
           recvq'[i].closed = recvq[i].closed,
           Pipe(app[i], sendq[i].msgs, loop[i], wire'[i], ctx'[i], Holds(k, i), recvq'[i].msgs,
                Awaited(i))
    PROVE  IInv'
<1>0. Types /\ config \in Configs /\ worker \in [Workers -> WorkerState]
  BY DEF IInv, Types
<1>1. /\ config' = config /\ app' = app /\ sendq' = sendq /\ loop' = loop /\ recv' = recv
      /\ delivered' = delivered
  BY DEF senderVars
<1>2. Workers' = Workers /\ queue_size' = queue_size /\ \A v : Sockets(v)' = Sockets(v)
  BY <1>1 DEF Workers, queue_size, max_thread_count, Sockets
<1>3. /\ worker'[w] = k /\ worker' \in [Workers -> WorkerState]
      /\ \A v \in Workers \ {w} : worker'[v] = worker[v]
  BY <1>0
<1>4. /\ i \in Senders /\ i % max_thread_count = w
      /\ \A v \in Workers : \A j \in Sockets(v) : j % max_thread_count = v
      /\ \A j \in Senders : j % max_thread_count \in Workers
  BY <1>0, ConfigProperties
<1>5. Types'
  BY <1>0, <1>1, <1>2, <1>3 DEF Types
<1>6. Bounds'
  BY <1>1, <1>2, <1>4 DEF IInv, Bounds
<1>7. Apps' /\ MessagesIntact'
  BY <1>1 DEF IInv, Apps, MessagesIntact
<1>8. Threads'
  <2> SUFFICES ASSUME NEW v \in Workers
               PROVE  /\ pool'[v] \subseteq Sockets(v) /\ pending'[v] \subseteq Sockets(v)
                      /\ \A j \in pending'[v] \cap pool'[v] : wire'[j] # <<>>
                      /\ worker'[v].pc \in {"add", "blocked", "post"} =>
                           worker'[v].from \in Sockets(v) /\ worker'[v].msg # None
                      /\ worker'[v].pc = "blocked" => worker'[v].msg # EndSignal
    BY <1>2 DEF Threads
  <2>0. /\ pool[v] \subseteq Sockets(v) /\ pending[v] \subseteq Sockets(v)
        /\ \A j \in pending[v] \cap pool[v] : wire[j] # <<>>
        /\ worker[v].pc \in {"add", "blocked", "post"} =>
             worker[v].from \in Sockets(v) /\ worker[v].msg # None
        /\ worker[v].pc = "blocked" => worker[v].msg # EndSignal
    BY DEF IInv, Threads
  <2>1. CASE v = w
    BY <1>3, <2>0, <2>1
  <2>2. CASE v # w
    <3>1. pool'[v] = pool[v] /\ pending'[v] = pending[v] /\ worker'[v] = worker[v]
      BY <1>3, <2>2
    <3>2. \A j \in pending[v] : j \in Senders /\ j # i /\ wire'[j] = wire[j]
      BY <1>4, <2>0, <2>2 DEF Sockets
    <3> QED BY <2>0, <3>1, <3>2
  <2> QED BY <2>1, <2>2
<1>9. Receiving'
  <2>1. \A j \in Senders : recvq'[j].closed = recvq[j].closed
    BY <1>4
  <2>2. Partial' = Partial /\ Finalizing' = Finalizing /\ Expecting' = Expecting
    BY <1>1 DEF Partial, Finalizing, Expecting
  <2> QED BY <1>1, <2>1, <2>2, Zenon DEF IInv, Receiving
<1>10. Pipes'
  <2> SUFFICES ASSUME NEW j \in Senders PROVE PipeOf(j)'
    BY DEF Pipes
  <2>0. PipeOf(j) /\ Awaited(j)' = Awaited(j) /\ max_thread_count' = max_thread_count
    BY <1>1 DEF IInv, Pipes, Awaited, max_thread_count
  <2>1. CASE j = i
    <3>1. Hand(j)' = Holds(k, i)
      BY <1>3, <1>4, <2>0, <2>1 DEF Hand
    <3> QED BY <1>1, <2>0, <2>1, <3>1 DEF PipeOf
  <2>2. CASE j # i
    <3>1. Hand(j)' = Hand(j)
      <4>1. CASE j % max_thread_count = w
        BY <1>3, <2>0, <2>2, <4>1 DEF Hand, Holds
      <4>2. CASE j % max_thread_count # w
        <5>1. worker'[j % max_thread_count] = worker[j % max_thread_count]
          BY <1>3, <1>4, <4>2
        <5> QED BY <2>0, <5>1 DEF Hand
      <4> QED BY <4>1, <4>2
    <3> QED BY <1>1, <2>0, <2>2, <3>1 DEF PipeOf
  <2> QED BY <2>1, <2>2
<1> QED BY <1>5, <1>6, <1>7, <1>8, <1>9, <1>10 DEF IInv

\* RecvLoop signals the semaphore.
LEMMA PostStep == ASSUME IInv, NEW w \in Workers, Post(w) PROVE IInv'
<1> DEFINE k == [worker[w] EXCEPT !.pc = "poll"]
           i == worker[w].from
<1>1. /\ worker \in [Workers -> WorkerState] /\ worker[w] \in WorkerState /\ worker[w].pc = "post"
      /\ sem \in Nat /\ sem' = sem + 1
      /\ worker' = [worker EXCEPT ![w] = k]
      /\ UNCHANGED <<senderVars, recv, delivered>>
      /\ wire' = wire /\ pool' = pool /\ pending' = pending /\ ctx' = ctx /\ recvq' = recvq
  BY DEF IInv, Types, Post
<1>2. k \in WorkerState /\ k.pc = "poll" /\ Holds(k, i) = None
  BY <1>1 DEF WorkerState, Holds
<1>3. /\ i \in Sockets(w) /\ pending[w] \subseteq Sockets(w)
      /\ \A j \in pending[w] \cap pool[w] : wire[j] # <<>>
  BY <1>1 DEF IInv, Threads
<1>4. i \in Senders /\ i % max_thread_count = w
  BY <1>3, ConfigProperties DEF IInv, Types
<1>5. PipeOf(i) /\ Hand(i) = None
  BY <1>1, <1>4 DEF IInv, Pipes, Hand, Holds
<1>6. Len(wire[i]) <= WireSize /\ Len(recvq[i].msgs) <= queue_size
  BY <1>4 DEF IInv, Bounds
<1>7. /\ pool \in [Workers -> SUBSET Senders] /\ pending \in [Workers -> SUBSET Senders]
      /\ wire \in [Senders -> Seq(Token)] /\ ctx \in [Senders -> Message \cup {None}]
      /\ recvq \in [Senders -> Queue]
  BY DEF IInv, Types
<1>8. Pipe(app[i], sendq[i].msgs, loop[i], wire[i], ctx[i], Holds(k, i), recvq[i].msgs, Awaited(i))
  BY <1>2, <1>5 DEF PipeOf
<1>9. /\ sem' \in Nat /\ pool'[w] \subseteq pool[w] /\ recvq'[i].closed = recvq[i].closed
      /\ worker[w].pc \in {"add", "blocked"} => worker[w].from = i
      /\ k.pc \in {"add", "blocked", "post"} => k.from = i /\ k.msg # None
      /\ k.pc = "blocked" => k.msg # EndSignal
  BY <1>1, <1>2
<1> HIDE DEF k, i
<1> QED BY <1>1, <1>2, <1>3, <1>6, <1>7, <1>8, <1>9, WorkerKeeps

\* When a queue is closed all its messages have been delivered.
LEMMA ClosedEmpty ==
    ASSUME IInv, NEW i \in Senders, recvq[i].closed
    PROVE  recvq[i].msgs = <<>> /\ Hand(i) \notin Message
<1>1. recv.pc \notin {"waitData", "take"} /\ ~(Len(delivered[i]) < MaxRpc)
  BY DEF IInv, Receiving, Finalizing, Expecting
<1>2. recvq[i].msgs \in Seq(Message) /\ Len(delivered[i]) \in Nat
  BY LenProperties DEF IInv, Types, Queue
<1>3. PipeOf(i)
  BY DEF IInv, Pipes
<1>4. Awaited(i).rpc = Len(delivered[i]) + 1
  BY <1>1 DEF Awaited
<1>5. Awaited(i).rpc \in Nat /\ Awaited(i).rpc > MaxRpc
  BY <1>1, <1>2, <1>4, SocketAssumption
<1> QED BY <1>2, <1>3, <1>5, PipeEmpty DEF PipeOf

\* The facts about a thread that has a message of sender i in its hand.
LEMMA HandProperties ==
    ASSUME IInv, NEW w \in Workers, worker[w].pc \in {"add", "blocked"}
    PROVE  LET i == worker[w].from
           IN  /\ i \in Sockets(w) /\ i \in Senders /\ i % max_thread_count = w
               /\ Hand(i) = Holds(worker[w], i)
               /\ worker[w].msg # EndSignal => worker[w].msg \in Message /\ Hand(i) = worker[w].msg
               /\ worker[w].msg = EndSignal => Hand(i) = None
               /\ recvq[i] \in Queue /\ recvq[i].msgs \in Seq(Message)
               /\ PipeOf(i)
               /\ Len(wire[i]) <= WireSize /\ Len(recvq[i].msgs) <= queue_size
               /\ pending[w] \subseteq Sockets(w)
               /\ \A j \in pending[w] \cap pool[w] : wire[j] # <<>>
               /\ worker[w] \in WorkerState /\ worker[w].msg # None
<1> DEFINE i == worker[w].from
<1>1. /\ i \in Sockets(w) /\ worker[w].msg # None /\ pending[w] \subseteq Sockets(w)
      /\ \A j \in pending[w] \cap pool[w] : wire[j] # <<>>
  BY DEF IInv, Threads
<1>2. i \in Senders /\ i % max_thread_count = w
  BY <1>1, ConfigProperties DEF IInv, Types
<1>3. worker[w] \in WorkerState /\ worker[w].msg \in Message \cup {None, EndSignal}
  BY DEF IInv, Types, WorkerState
<1>4. recvq[i] \in Queue /\ recvq[i].msgs \in Seq(Message)
  BY <1>2 DEF IInv, Types, Queue
<1>5. PipeOf(i) /\ Len(wire[i]) <= WireSize /\ Len(recvq[i].msgs) <= queue_size
  BY <1>2 DEF IInv, Pipes, Bounds
<1>6. Hand(i) = Holds(worker[w], i)
  BY <1>2 DEF Hand
<1>7. /\ worker[w].msg # EndSignal => worker[w].msg \in Message /\ Hand(i) = worker[w].msg
      /\ worker[w].msg = EndSignal => Hand(i) = None
  BY <1>1, <1>3, <1>6 DEF Holds
<1> QED BY <1>1, <1>2, <1>3, <1>4, <1>5, <1>6, <1>7

\* The message in the thread's hand is added to its queue.
LEMMA Added ==
    ASSUME IInv, NEW w \in Workers, worker[w].pc \in {"add", "blocked"},
           worker[w].msg # EndSignal, HasRoom(recvq[worker[w].from]),
           recvq' = [recvq EXCEPT ![worker[w].from].msgs = Append(@, worker[w].msg)],
           worker' = [worker EXCEPT ![w].pc = "post"],
           UNCHANGED <<senderVars, wire, pool, pending, ctx, sem, recv, delivered>>
    PROVE  IInv'
<1> DEFINE k == [worker[w] EXCEPT !.pc = "post"]
           i == worker[w].from
           m == worker[w].msg
           p == [recvq[i] EXCEPT !.msgs = Append(recvq[i].msgs, m)]
<1>1. /\ i \in Sockets(w) /\ i \in Senders /\ m \in Message /\ Hand(i) = m
      /\ recvq[i] \in Queue /\ recvq[i].msgs \in Seq(Message) /\ PipeOf(i)
      /\ Len(wire[i]) <= WireSize
      /\ pending[w] \subseteq Sockets(w) /\ \A j \in pending[w] \cap pool[w] : wire[j] # <<>>
      /\ worker[w] \in WorkerState /\ m # None
  BY HandProperties
<1>2. /\ worker' = [worker EXCEPT ![w] = k] /\ recvq' = [recvq EXCEPT ![i] = p]
      /\ UNCHANGED <<senderVars, recv, delivered>> /\ sem' = sem
      /\ wire' = wire /\ pool' = pool /\ pending' = pending /\ ctx' = ctx
  OBVIOUS
<1>3. /\ Append(recvq[i].msgs, m) \in Seq(Message)
      /\ Pipe(app[i], sendq[i].msgs, loop[i], wire[i], ctx[i], None, Append(recvq[i].msgs, m),
              Awaited(i))
  BY <1>1, PipeAdd DEF PipeOf
<1>4. p \in Queue /\ p.msgs = Append(recvq[i].msgs, m) /\ p.closed = recvq[i].closed
  BY <1>1, <1>3, SetMessages
<1>5. k \in WorkerState /\ k.pc = "post" /\ k.from = i /\ k.msg = m
  BY <1>1 DEF WorkerState
<1>6. Holds(k, i) = None
  BY <1>5 DEF Holds
<1>7. Len(p.msgs) <= queue_size
  <2>1. /\ Len(Append(recvq[i].msgs, m)) = Len(recvq[i].msgs) + 1 /\ Len(recvq[i].msgs) \in Nat
    BY <1>1, AppendProperties, LenProperties
  <2>2. Len(recvq[i].msgs) < queue_size /\ queue_size \in Nat
    BY ConfigProperties DEF HasRoom, IInv, Types
  <2> HIDE DEF p
  <2> QED BY <1>4, <2>1, <2>2
<1>8. /\ pool \in [Workers -> SUBSET Senders] /\ pending \in [Workers -> SUBSET Senders]
      /\ wire \in [Senders -> Seq(Token)] /\ ctx \in [Senders -> Message \cup {None}]
      /\ recvq \in [Senders -> Queue] /\ sem \in Nat
  BY DEF IInv, Types
<1> HIDE DEF k, p, i, m
<1>9. recvq'[i] = p /\ recvq' \in [Senders -> Queue] /\ \A j \in Senders \ {i} : recvq'[j] = recvq[j]
  BY <1>1, <1>2, <1>4, <1>8
<1>10. /\ Pipe(app[i], sendq[i].msgs, loop[i], wire'[i], ctx'[i], Holds(k, i), recvq'[i].msgs,
               Awaited(i))
       /\ Len(recvq'[i].msgs) <= queue_size
  BY <1>2, <1>3, <1>4, <1>6, <1>7, <1>9
<1>11. /\ sem' \in Nat /\ pool'[w] \subseteq pool[w] /\ recvq'[i].closed = recvq[i].closed
       /\ worker[w].pc \in {"add", "blocked"} => worker[w].from = i
       /\ k.pc \in {"add", "blocked", "post"} => k.from = i /\ k.msg # None
       /\ k.pc = "blocked" => k.msg # EndSignal
  BY <1>1, <1>2, <1>4, <1>5, <1>8, <1>9 DEF i
<1>12. /\ pool' \in [Workers -> SUBSET Senders]
       /\ pending' \in [Workers -> SUBSET Senders] /\ pending'[w] \subseteq Sockets(w)
       /\ \A v \in Workers \ {w} : pool'[v] = pool[v] /\ pending'[v] = pending[v]
       /\ wire' \in [Senders -> Seq(Token)] /\ ctx' \in [Senders -> Message \cup {None}]
       /\ \A j \in Senders \ {i} : wire'[j] = wire[j] /\ ctx'[j] = ctx[j] /\ recvq'[j] = recvq[j]
       /\ \A j \in pending'[w] \cap pool'[w] : wire'[j] # <<>>
       /\ Len(wire'[i]) <= WireSize
  BY <1>1, <1>2, <1>8, <1>9
<1>13. worker' = [worker EXCEPT ![w] = k] /\ UNCHANGED <<senderVars, recv, delivered>>
  BY <1>2
<1>14. i \in Sockets(w) /\ k \in WorkerState
  BY <1>1, <1>5
<1> QED BY <1>9, <1>10, <1>11, <1>12, <1>13, <1>14, WorkerKeeps, Zenon

\* An Add that was blocked goes on.
LEMMA AddBlockedStep == ASSUME IInv, NEW w \in Workers, AddBlocked(w) PROVE IInv'
<1>1. worker[w].pc = "blocked" /\ worker[w].msg # EndSignal
  BY DEF AddBlocked, IInv, Threads
<1> QED BY <1>1, Added DEF AddBlocked

\* RecvLoop calls Add: it is refused, blocks or adds.
LEMMA AddToQueueStep == ASSUME IInv, NEW w \in Workers, AddToQueue(w) PROVE IInv'
<1> DEFINE i == worker[w].from
           m == worker[w].msg
           refused == m = EndSignal \/ recvq[i].closed
<1>0. worker[w].pc = "add"
  BY DEF AddToQueue
<1>1. CASE ~refused /\ HasRoom(recvq[i])
  <2>1. worker' = [worker EXCEPT ![w].pc = "post"]
    BY <1>1 DEF AddToQueue
  <2>2. /\ recvq' = [recvq EXCEPT ![i].msgs = Append(@, m)]
        /\ UNCHANGED <<senderVars, wire, pool, pending, ctx, sem, recv, delivered>>
    BY <1>1 DEF AddToQueue
  <2> QED BY <1>0, <1>1, <2>1, <2>2, Added
<1>2. CASE ~(~refused /\ HasRoom(recvq[i]))
  <2> DEFINE k == [worker[w] EXCEPT !.pc = IF refused THEN "post" ELSE "blocked"]
  <2>1. /\ i \in Sockets(w) /\ i \in Senders /\ Hand(i) = Holds(worker[w], i)
        /\ PipeOf(i) /\ Len(wire[i]) <= WireSize /\ Len(recvq[i].msgs) <= queue_size
        /\ pending[w] \subseteq Sockets(w) /\ \A j \in pending[w] \cap pool[w] : wire[j] # <<>>
        /\ worker[w] \in WorkerState /\ m # None
        /\ m # EndSignal => m \in Message /\ Hand(i) = m
        /\ m = EndSignal => Hand(i) = None
    BY <1>0, HandProperties
  <2>2. worker' = [worker EXCEPT ![w] = k]
    BY <1>2 DEF AddToQueue
  <2>3. /\ recvq' = recvq
        /\ UNCHANGED <<senderVars, recv, delivered>> /\ sem' = sem
        /\ wire' = wire /\ pool' = pool /\ pending' = pending /\ ctx' = ctx
    BY <1>2 DEF AddToQueue
  <2>4. /\ k \in WorkerState /\ k.from = i /\ k.msg = m
        /\ k.pc = IF refused THEN "post" ELSE "blocked"
    BY <2>1 DEF WorkerState
  <2>5. Holds(k, i) = Hand(i)
    <3>1. CASE m = EndSignal
      BY <2>1, <2>4, <3>1 DEF Holds
    <3>2. CASE m # EndSignal
      <4>1. ~refused
        BY <2>1, <3>2, ClosedEmpty
      <4> QED BY <2>1, <2>4, <3>2, <4>1 DEF Holds
    <3> QED BY <3>1, <3>2
  <2>6. /\ pool \in [Workers -> SUBSET Senders] /\ pending \in [Workers -> SUBSET Senders]
        /\ wire \in [Senders -> Seq(Token)] /\ ctx \in [Senders -> Message \cup {None}]
        /\ recvq \in [Senders -> Queue] /\ sem \in Nat
    BY DEF IInv, Types
  <2>7. Pipe(app[i], sendq[i].msgs, loop[i], wire[i], ctx[i], Holds(k, i), recvq[i].msgs, Awaited(i))
    BY <2>1, <2>5 DEF PipeOf
  <2>8. /\ sem' \in Nat /\ pool'[w] \subseteq pool[w] /\ recvq'[i].closed = recvq[i].closed
        /\ worker[w].pc \in {"add", "blocked"} => worker[w].from = i
        /\ k.pc \in {"add", "blocked", "post"} => k.from = i /\ k.msg # None
        /\ k.pc = "blocked" => k.msg # EndSignal
    BY <2>1, <2>3, <2>4, <2>6
  <2> HIDE DEF i, m, k, refused
  <2> QED BY <2>1, <2>2, <2>3, <2>4, <2>6, <2>7, <2>8, WorkerKeeps
<1> QED BY <1>1, <1>2

\* What a step of a polling thread has to ensure, that takes the socket of
\* sender i out of the ready ones and puts the thread into state k.
LEMMA PollKeeps ==
    ASSUME IInv, NEW w \in Workers, worker[w].pc = "poll",
           NEW ready, ready \subseteq pool[w], \A j \in ready : wire[j] # <<>>,
           NEW i \in ready, NEW k \in WorkerState,
           UNCHANGED <<senderVars, recvq, sem, recv, delivered>>,
           pending' = [pending EXCEPT ![w] = ready \ {i}],
           worker' = [worker EXCEPT ![w] = k],
           k.pc \in {"poll", "add", "exit"},
           k.pc = "add" => k.from = i /\ k.msg # None,
           pool' = pool \/ pool' = [pool EXCEPT ![w] = @ \ {i}],
           wire' \in [Senders -> Seq(Token)], ctx' \in [Senders -> Message \cup {None}],
           \A j \in Senders \ {i} : wire'[j] = wire[j] /\ ctx'[j] = ctx[j],
           Len(wire'[i]) <= WireSize,
           Pipe(app[i], sendq[i].msgs, loop[i], wire'[i], ctx'[i], Holds(k, i), recvq[i].msgs,
                Awaited(i))
    PROVE  IInv'
<1>1. /\ pool \in [Workers -> SUBSET Senders] /\ pending \in [Workers -> SUBSET Senders]
      /\ recvq \in [Senders -> Queue] /\ sem \in Nat /\ pool[w] \subseteq Sockets(w)
  BY DEF IInv, Types, Threads
<1>2. i \in Sockets(w) /\ i \in Senders
  BY <1>1, ConfigProperties DEF IInv, Types
<1>3. /\ pool' \in [Workers -> SUBSET Senders] /\ pool'[w] \subseteq pool[w]
      /\ \A v \in Workers \ {w} : pool'[v] = pool[v]
  <2>1. CASE pool' = pool
    BY <1>1, <2>1
  <2>2. CASE pool' = [pool EXCEPT ![w] = @ \ {i}]
    BY <1>1, <2>2
  <2> QED BY <2>1, <2>2
<1>4. /\ pending' \in [Workers -> SUBSET Senders] /\ pending'[w] = ready \ {i}
      /\ \A v \in Workers \ {w} : pending'[v] = pending[v]
  BY <1>1
<1>5. pending'[w] \subseteq Sockets(w) /\ \A j \in pending'[w] \cap pool'[w] : wire'[j] # <<>>
  <2>1. \A j \in ready \ {i} : j \in Senders \ {i} /\ j \in Sockets(w)
    BY <1>1
  <2> QED BY <1>4, <2>1
<1>6. recvq' = recvq /\ sem' = sem /\ UNCHANGED <<senderVars, recv, delivered>>
  OBVIOUS
<1>7. /\ recvq' \in [Senders -> Queue] /\ sem' \in Nat /\ recvq'[i].closed = recvq[i].closed
      /\ \A j \in Senders \ {i} : wire'[j] = wire[j] /\ ctx'[j] = ctx[j] /\ recvq'[j] = recvq[j]
      /\ Len(recvq'[i].msgs) <= queue_size
      /\ Pipe(app[i], sendq[i].msgs, loop[i], wire'[i], ctx'[i], Holds(k, i), recvq'[i].msgs,
              Awaited(i))
  BY <1>1, <1>2, <1>6 DEF IInv, Bounds
<1>8. /\ worker[w].pc \in {"add", "blocked"} => worker[w].from = i
      /\ k.pc \in {"add", "blocked", "post"} => k.from = i /\ k.msg # None
      /\ k.pc = "blocked" => k.msg # EndSignal
  OBVIOUS
<1>9. \A v \in Workers \ {w} : pool'[v] = pool[v] /\ pending'[v] = pending[v]
  BY <1>3, <1>4
<1> QED BY <1>2, <1>3, <1>4, <1>5, <1>6, <1>7, <1>8, <1>9, WorkerKeeps, Zenon

\* The socket of a closed queue is dropped unread.
LEMMA DropStep ==
    ASSUME IInv, NEW w \in Workers, worker[w].pc = "poll",
           NEW ready, ready \subseteq pool[w], \A j \in ready : wire[j] # <<>>,
           NEW i \in ready, DropClosed(w, i),
           UNCHANGED <<senderVars, recvq, sem, recv, delivered>>,
           pending' = [pending EXCEPT ![w] = ready \ {i}]
    PROVE  IInv'
<1> DEFINE pc == IF pool[w] = {i} THEN "exit" ELSE "poll"
           k == [worker[w] EXCEPT !.from = i, !.msg = EndSignal, !.pc = pc]
<1>1. /\ worker' = [worker EXCEPT ![w] = k] /\ pool' = [pool EXCEPT ![w] = @ \ {i}]
      /\ wire' = wire /\ ctx' = ctx
  BY DEF DropClosed, RemoveSocket
<1>2. /\ wire \in [Senders -> Seq(Token)] /\ ctx \in [Senders -> Message \cup {None}]
      /\ worker[w] \in WorkerState /\ pool[w] \subseteq Sockets(w)
  BY DEF IInv, Types, Threads
<1>3. i \in Senders /\ i % max_thread_count = w
  BY <1>2, ConfigProperties DEF IInv, Types
<1>4. k \in WorkerState /\ k.pc \in {"poll", "exit"}
  BY <1>2, <1>3 DEF WorkerState
<1> HIDE DEF k
<1>5. PipeOf(i) /\ Hand(i) = None /\ Holds(k, i) = None /\ Len(wire[i]) <= WireSize
  BY <1>3, <1>4 DEF IInv, Pipes, Hand, Holds, Bounds
<1>6. Pipe(app[i], sendq[i].msgs, loop[i], wire'[i], ctx'[i], Holds(k, i), recvq[i].msgs, Awaited(i))
  BY <1>1, <1>5 DEF PipeOf
<1>7. /\ wire' \in [Senders -> Seq(Token)] /\ ctx' \in [Senders -> Message \cup {None}]
      /\ \A j \in Senders \ {i} : wire'[j] = wire[j] /\ ctx'[j] = ctx[j]
      /\ Len(wire'[i]) <= WireSize
  BY <1>1, <1>2, <1>5
<1>8. k.pc \in {"poll", "add", "exit"} /\ (k.pc = "add" => k.from = i /\ k.msg # None)
  BY <1>4
<1> QED BY <1>1, <1>4, <1>6, <1>7, <1>8, PollKeeps, Zenon

\* The socket of an open queue is read.
LEMMA ReadStep ==
    ASSUME IInv, NEW w \in Workers, worker[w].pc = "poll",
           NEW ready, ready \subseteq pool[w], \A j \in ready : wire[j] # <<>>,
           NEW i \in ready, ReadSocket(w, i),
           UNCHANGED <<senderVars, recvq, sem, recv, delivered>>,
           pending' = [pending EXCEPT ![w] = ready \ {i}]
    PROVE  IInv'
<1> DEFINE W == wire[i]
           msg == Head(W).msg
           both == ctx[i] = None /\ Len(W) >= 2
<1>1. /\ wire \in [Senders -> Seq(Token)] /\ ctx \in [Senders -> Message \cup {None}]
      /\ worker[w] \in WorkerState /\ pool[w] \subseteq Sockets(w)
  BY DEF IInv, Types, Threads
<1>2. i \in Senders /\ i % max_thread_count = w
  BY <1>1, ConfigProperties DEF IInv, Types
<1>3. PipeOf(i) /\ Hand(i) = None /\ Len(W) <= WireSize
  BY <1>2 DEF IInv, Pipes, Hand, Holds, Bounds
<1>4. /\ W \in Seq(Token) /\ W # <<>>
      /\ Pipe(app[i], sendq[i].msgs, loop[i], W, ctx[i], None, recvq[i].msgs, Awaited(i))
  BY <1>1, <1>2, <1>3 DEF PipeOf
<1>5. Len(W) \in Nat /\ Len(Tail(W)) = Len(W) - 1 /\ WireSize \in Nat
  BY <1>4, HeadTailProperties, SeqLen, SocketAssumption
<1>6. CASE /\ ctx[i] = None /\ msg = EndSignal
           /\ RemoveSocket(w, i, "add")
           /\ wire' = [wire EXCEPT ![i] = Tail(@)]
           /\ UNCHANGED ctx
  <2> DEFINE pc == IF pool[w] = {i} THEN "exit" ELSE "add"
             k == [worker[w] EXCEPT !.from = i, !.msg = EndSignal, !.pc = pc]
  <2>1. worker' = [worker EXCEPT ![w] = k] /\ pool' = [pool EXCEPT ![w] = @ \ {i}]
    BY <1>6 DEF RemoveSocket
  <2>2. k \in WorkerState /\ k.pc \in {"add", "exit"} /\ k.from = i /\ k.msg = EndSignal
    BY <1>1, <1>2 DEF WorkerState
  <2> HIDE DEF k
  <2>3. Holds(k, i) = None
    BY <2>2 DEF Holds
  <2>4. /\ Tail(W) \in Seq(Token)
        /\ Pipe(app[i], sendq[i].msgs, loop[i], Tail(W), None, None, recvq[i].msgs, Awaited(i))
    BY <1>4, <1>6, PipeReadEnd
  <2>5. /\ wire' \in [Senders -> Seq(Token)] /\ ctx' \in [Senders -> Message \cup {None}]
        /\ wire'[i] = Tail(W) /\ ctx'[i] = None
        /\ \A j \in Senders \ {i} : wire'[j] = wire[j] /\ ctx'[j] = ctx[j]
    BY <1>1, <1>2, <1>6, <2>4
  <2>6. Len(wire'[i]) <= WireSize
    BY <1>3, <1>5, <2>5
  <2>7. Pipe(app[i], sendq[i].msgs, loop[i], wire'[i], ctx'[i], Holds(k, i), recvq[i].msgs, Awaited(i))
    BY <2>3, <2>4, <2>5
  <2>8. k.pc \in {"poll", "add", "exit"} /\ (k.pc = "add" => k.from = i /\ k.msg # None)
    BY <2>2, NotMessages
  <2> QED BY <2>1, <2>2, <2>5, <2>6, <2>7, <2>8, PollKeeps, Zenon
<1>7. CASE /\ ctx[i] = None /\ msg # EndSignal /\ ~both
           /\ ctx' = [ctx EXCEPT ![i] = msg]
           /\ wire' = [wire EXCEPT ![i] = Tail(@)]
           /\ worker' = [worker EXCEPT ![w].pc = "poll"]
           /\ UNCHANGED pool
  <2> DEFINE k == [worker[w] EXCEPT !.pc = "poll"]
  <2>1. worker' = [worker EXCEPT ![w] = k] /\ pool' = pool
    BY <1>7
  <2>2. k \in WorkerState /\ k.pc = "poll"
    BY <1>1 DEF WorkerState
  <2> HIDE DEF k
  <2>3. Holds(k, i) = None
    BY <2>2 DEF Holds
  <2>4. /\ msg \in Message /\ Tail(W) \in Seq(Token)
        /\ Pipe(app[i], sendq[i].msgs, loop[i], Tail(W), msg, None, recvq[i].msgs, Awaited(i))
    <3>1. ctx[i] = None /\ msg # EndSignal /\ ~(Len(W) >= 2)
      BY <1>7
    <3> QED BY <1>4, <3>1, PipeReadSize
  <2> HIDE DEF msg
  <2>5. /\ wire' \in [Senders -> Seq(Token)] /\ ctx' \in [Senders -> Message \cup {None}]
        /\ wire'[i] = Tail(W) /\ ctx'[i] = msg
        /\ \A j \in Senders \ {i} : wire'[j] = wire[j] /\ ctx'[j] = ctx[j]
    BY <1>1, <1>2, <1>7, <2>4
  <2>6. Len(wire'[i]) <= WireSize
    BY <1>3, <1>5, <2>5
  <2>7. Pipe(app[i], sendq[i].msgs, loop[i], wire'[i], ctx'[i], Holds(k, i), recvq[i].msgs, Awaited(i))
    BY <2>3, <2>4, <2>5
  <2>8. k.pc \in {"poll", "add", "exit"} /\ (k.pc = "add" => k.from = i /\ k.msg # None)
    BY <2>2
  <2> QED BY <2>1, <2>2, <2>5, <2>6, <2>7, <2>8, PollKeeps, Zenon
<1>8. CASE /\ ctx[i] # None \/ (both /\ msg # EndSignal)
           /\ ctx' = [ctx EXCEPT ![i] = None]
           /\ wire' = [wire EXCEPT ![i] = SubSeq(@, IF both THEN 3 ELSE 2, Len(@))]
           /\ worker' = [worker EXCEPT ![w] = [pc |-> "add", from |-> i, msg |-> msg]]
           /\ UNCHANGED pool
  <2> DEFINE k == [pc |-> "add", from |-> i, msg |-> msg]
             n == IF both THEN 2 ELSE 1
             V == SubSeq(W, n + 1, Len(W))
  <2>1. worker' = [worker EXCEPT ![w] = k] /\ pool' = pool
    BY <1>8
  <2>2. /\ msg \in Message /\ V \in Seq(Token) /\ Len(V) <= Len(W)
        /\ Pipe(app[i], sendq[i].msgs, loop[i], V, None, msg, recvq[i].msgs, Awaited(i))
    <3>1. ctx[i] # None \/ (Len(W) >= 2 /\ msg # EndSignal)
      BY <1>8
    <3>2. n = IF ctx[i] = None /\ Len(W) >= 2 THEN 2 ELSE 1
      OBVIOUS
    <3>3. Head(wire[i]).msg = msg
      OBVIOUS
    <3> HIDE DEF n, W
    <3> QED BY <1>4, <3>1, <3>2, PipeReadData
  <2>3. msg # EndSignal /\ msg # None
    BY <2>2, NotMessages
  <2> HIDE DEF msg
  <2>4. k \in WorkerState /\ k.pc = "add" /\ k.from = i /\ k.msg = msg
    BY <1>2, <2>2 DEF WorkerState
  <2> HIDE DEF k
  <2>5. Holds(k, i) = msg
    BY <2>3, <2>4 DEF Holds
  <2>6. wire' = [wire EXCEPT ![i] = V]
    <3>1. n + 1 = IF both THEN 3 ELSE 2
      OBVIOUS
    <3>2. wire' = [wire EXCEPT ![i] = SubSeq(wire[i], IF both THEN 3 ELSE 2, Len(wire[i]))]
      BY <1>8
    <3> HIDE DEF n, both
    <3> QED BY <3>1, <3>2
  <2> HIDE DEF V
  <2>7. /\ wire' \in [Senders -> Seq(Token)] /\ ctx' \in [Senders -> Message \cup {None}]
        /\ wire'[i] = V /\ ctx'[i] = None
        /\ \A j \in Senders \ {i} : wire'[j] = wire[j] /\ ctx'[j] = ctx[j]
    BY <1>1, <1>2, <1>8, <2>2, <2>6
  <2>8. Len(wire'[i]) <= WireSize
    <3>1. Len(V) \in Nat
      BY <2>2, LenProperties
    <3> QED BY <1>3, <1>5, <2>2, <2>7, <3>1
  <2>9. Pipe(app[i], sendq[i].msgs, loop[i], wire'[i], ctx'[i], Holds(k, i), recvq[i].msgs, Awaited(i))
    BY <2>2, <2>5, <2>7
  <2>10. k.pc \in {"poll", "add", "exit"} /\ (k.pc = "add" => k.from = i /\ k.msg # None)
    BY <2>3, <2>4
  <2> QED BY <2>1, <2>4, <2>7, <2>8, <2>9, <2>10, PollKeeps, Zenon
<1> QED BY <1>6, <1>7, <1>8 DEF ReadSocket

\* RecvLoop looks at the next socket.
LEMMA GetActiveSocketStep == ASSUME IInv, NEW w \in Workers, GetActiveSocket(w) PROVE IInv'
<1> DEFINE live == pending[w] \cap pool[w]
           ready == IF live # {} THEN live ELSE {i \in pool[w] : wire[i] # <<>>}
<1>1. ready \subseteq pool[w] /\ \A j \in ready : wire[j] # <<>>
  BY DEF IInv, Threads
<1>2. worker[w].pc = "poll" /\ UNCHANGED <<senderVars, recvq, sem, recv, delivered>>
  BY DEF GetActiveSocket
<1>3. PICK i \in ready :
        /\ pending' = [pending EXCEPT ![w] = ready \ {i}]
        /\ DropClosed(w, i) \/ ReadSocket(w, i)
  BY Zenon DEF GetActiveSocket
<1> HIDE DEF ready
<1>4. CASE DropClosed(w, i)
  BY <1>1, <1>2, <1>3, <1>4, DropStep
<1>5. CASE ReadSocket(w, i)
  BY <1>1, <1>2, <1>3, <1>5, ReadStep
<1> QED BY <1>3, <1>4, <1>5

-----------------------------------------------------------------------------
(* Steps of the receiving application *)

\* What a step of the receiver's application has to ensure, since it leaves the
\* senders, the streams and the receiver threads alone.
LEMMA RecvKeeps ==
    ASSUME IInv, UNCHANGED <<senderVars, wire, worker, pool, pending, ctx>>,
           recvq' \in [Senders -> Queue], sem' \in Nat, recv' \in RecvState,
           delivered' \in [Senders -> Seq(Seq(Message))],
           \A i \in Senders : Len(recvq'[i].msgs) <= queue_size,
           Receiving', MessagesIntact',
           \A i \in Senders : Pipe(app[i], sendq[i].msgs, loop[i], wire[i], ctx[i], Hand(i),
                                   recvq'[i].msgs, Awaited(i)')
    PROVE  IInv'
<1>1. /\ config' = config /\ app' = app /\ sendq' = sendq /\ loop' = loop /\ wire' = wire
      /\ worker' = worker /\ pool' = pool /\ pending' = pending /\ ctx' = ctx
  BY DEF senderVars
<1>2. Workers' = Workers /\ queue_size' = queue_size /\ \A w : Sockets(w)' = Sockets(w)
  BY <1>1 DEF Workers, queue_size, max_thread_count, Sockets
<1>3. Types'
  BY <1>1, <1>2 DEF IInv, Types
<1>4. Bounds'
  BY <1>1, <1>2 DEF IInv, Bounds
<1>5. Apps' /\ Threads'
  BY <1>1, <1>2, Zenon DEF IInv, Apps, Threads
<1>6. \A i \in Senders : Hand(i)' = Hand(i)
  BY <1>1 DEF Hand, max_thread_count
<1>7. Pipes'
  BY <1>1, <1>6 DEF IInv, Pipes, PipeOf
<1> QED BY <1>3, <1>4, <1>5, <1>7 DEF IInv

\* A step that takes no message only moves the application on.
LEMMA RecvMoves ==
    ASSUME IInv, UNCHANGED <<senderVars, wire, worker, pool, pending, ctx, delivered>>,
           recvq' \in [Senders -> Queue], sem' \in Nat, recv' \in RecvState,
           \A i \in Senders : recvq'[i].msgs = recvq[i].msgs,
           recv'.parts = recv.parts,
           recv.pc \in {"waitData", "take"} <=> recv'.pc \in {"waitData", "take"},
           recv.pc \in {"waitData", "take"} => recv'.from = recv.from,
           Finalizing' => ~Expecting,
           \A i \in Senders : recvq'[i].closed => Finalizing'
    PROVE  IInv'
<1>1. delivered' = delivered
  OBVIOUS
<1>2. Receiving'
  <2>1. IF recv'.pc \in {"waitData", "take"} THEN Partial' ELSE recv'.parts = <<>>
    BY <1>1 DEF IInv, Receiving, Partial
  <2>2. Expecting' <=> Expecting
    BY <1>1 DEF Expecting
  <2> QED BY <2>1, <2>2 DEF Receiving
<1>3. MessagesIntact'
  BY <1>1 DEF IInv, MessagesIntact
<1>4. ASSUME NEW i \in Senders PROVE Awaited(i)' = Awaited(i)
  BY <1>1 DEF Awaited
<1>5. \A i \in Senders : Pipe(app[i], sendq[i].msgs, loop[i], wire[i], ctx[i], Hand(i),
                              recvq'[i].msgs, Awaited(i)')
  BY <1>4 DEF IInv, Pipes, PipeOf
<1>6. \A i \in Senders : Len(recvq'[i].msgs) <= queue_size
  BY DEF IInv, Bounds
<1>7. delivered' \in [Senders -> Seq(Seq(Message))]
  BY <1>1 DEF IInv, Types
<1> QED BY <1>2, <1>3, <1>5, <1>6, <1>7, RecvKeeps

\* TimedWait of the semaphore.
LEMMA TimedWaitStep == ASSUME IInv, TimedWait PROVE IInv'
<1>1. /\ recv \in RecvState /\ sem \in Nat /\ recvq \in [Senders -> Queue]
      /\ \A i \in Senders : recvq[i].closed => Finalizing
  BY DEF IInv, Types, Receiving
<1>2. /\ recv.pc \in {"waitData", "wait"} /\ sem > 0 /\ sem' = sem - 1 /\ recvq' = recvq
      /\ recv' = [recv EXCEPT !.pc = IF recv.pc = "wait" THEN "scan" ELSE "take"]
      /\ UNCHANGED <<senderVars, wire, worker, pool, pending, ctx, delivered>>
  BY DEF TimedWait
<1>3. /\ recv' \in RecvState /\ recv'.parts = recv.parts /\ recv'.from = recv.from
      /\ recv'.pc = IF recv.pc = "wait" THEN "scan" ELSE "take"
  BY <1>1, <1>2 DEF RecvState
<1>4. sem' \in Nat
  BY <1>1, <1>2
<1>5. ~Finalizing /\ ~Finalizing'
  BY <1>2, <1>3 DEF Finalizing
<1> QED BY <1>1, <1>2, <1>3, <1>4, <1>5, RecvMoves

\* SocketReceiver::Finalize begins.
LEMMA ReceiverFinalizeStep == ASSUME IInv, ReceiverFinalize PROVE IInv'
<1>1. /\ recv \in RecvState /\ sem \in Nat /\ recvq \in [Senders -> Queue]
      /\ \A i \in Senders : recvq[i].closed => Finalizing
  BY DEF IInv, Types, Receiving
<1>2. /\ recv.pc = "wait" /\ ~Expecting /\ sem' = sem /\ recvq' = recvq
      /\ recv' = [recv EXCEPT !.pc = "close", !.from = 0]
      /\ UNCHANGED <<senderVars, wire, worker, pool, pending, ctx, delivered>>
  BY DEF ReceiverFinalize
<1>3. 0 \in Senders
  BY ConfigProperties DEF IInv, Types
<1>4. recv' \in RecvState /\ recv'.parts = recv.parts /\ recv'.pc = "close"
  BY <1>1, <1>2, <1>3 DEF RecvState
<1>5. Finalizing'
  BY <1>4 DEF Finalizing
<1> QED BY <1>1, <1>2, <1>4, <1>5, RecvMoves

\* Finalize closes an empty queue.
LEMMA CloseQueueStep == ASSUME IInv, CloseQueue PROVE IInv'
<1> DEFINE f == recv.from
<1>1. /\ recv \in RecvState /\ sem \in Nat /\ recvq \in [Senders -> Queue] /\ f \in Senders
      /\ (Finalizing => ~Expecting)
  BY DEF IInv, Types, Receiving, RecvState
<1>2. /\ recv.pc = "close" /\ sem' = sem
      /\ recvq' = [recvq EXCEPT ![f].closed = TRUE]
      /\ recv' = IF f = num_sender - 1 THEN [recv EXCEPT !.pc = "join"]
                 ELSE [recv EXCEPT !.from = f + 1]
      /\ UNCHANGED <<senderVars, wire, worker, pool, pending, ctx, delivered>>
  BY DEF CloseQueue
<1>3. f # num_sender - 1 => f + 1 \in Senders
  BY <1>1, SocketAssumption DEF Senders
<1> HIDE DEF f
<1>4. recv' \in RecvState /\ recv'.parts = recv.parts /\ recv'.pc \in {"close", "join"}
  BY <1>1, <1>2, <1>3 DEF RecvState
<1>5. recvq' \in [Senders -> Queue] /\ \A i \in Senders : recvq'[i].msgs = recvq[i].msgs
  BY <1>1, <1>2 DEF Queue
<1>6. Finalizing /\ Finalizing'
  BY <1>2, <1>4 DEF Finalizing
<1> QED BY <1>1, <1>2, <1>4, <1>5, <1>6, RecvMoves

\* Finalize joins the receiver threads.
LEMMA ReceiverJoinStep == ASSUME IInv, ReceiverJoin PROVE IInv'
<1>1. /\ recv \in RecvState /\ sem \in Nat /\ recvq \in [Senders -> Queue]
      /\ (Finalizing => ~Expecting)
  BY DEF IInv, Types, Receiving
<1>2. /\ recv.pc = "join" /\ sem' = sem /\ recvq' = recvq /\ recv' = [recv EXCEPT !.pc = "done"]
      /\ UNCHANGED <<senderVars, wire, worker, pool, pending, ctx, delivered>>
  BY DEF ReceiverJoin
<1>3. recv' \in RecvState /\ recv'.parts = recv.parts /\ recv'.pc = "done"
  BY <1>1, <1>2 DEF RecvState
<1>4. Finalizing /\ Finalizing'
  BY <1>2, <1>3 DEF Finalizing
<1> QED BY <1>1, <1>2, <1>3, <1>4, RecvMoves

\* Remove found the queue of the scan empty.
LEMMA ScanEmptyStep ==
    ASSUME IInv, recv.pc = "scan", recv' = [recv EXCEPT !.iter = (recv.iter + 1) % num_sender],
           UNCHANGED <<senderVars, wire, worker, pool, pending, ctx, recvq, sem, delivered>>
    PROVE  IInv'
<1>1. /\ recv \in RecvState /\ sem \in Nat /\ recvq \in [Senders -> Queue]
      /\ \A i \in Senders : recvq[i].closed => Finalizing
  BY DEF IInv, Types, Receiving
<1>2. (recv.iter + 1) % num_sender \in Senders
  BY <1>1, SocketAssumption DEF RecvState, Senders
<1>3. recv' \in RecvState /\ recv'.parts = recv.parts /\ recv'.pc = "scan"
  BY <1>1, <1>2 DEF RecvState
<1>4. ~Finalizing /\ ~Finalizing'
  BY <1>3 DEF Finalizing
<1> QED BY <1>1, <1>3, <1>4, RecvMoves

\* The parts of the RPC message in the hands of a Recv, with the message that it
\* takes: they are the first ones of the next RPC message of the sender.
LEMMA TakenParts ==
    ASSUME IInv, NEW i \in Senders, recvq[i].msgs # <<>>,
           recv.pc = "scan" \/ (recv.pc = "take" /\ recv.from = i),
           NEW msg, msg = Head(recvq[i].msgs),
           NEW parts, parts = Append(recv.parts, msg)
    PROVE  /\ parts \in Seq(Message) /\ parts[1].arrays \in Nat
           /\ Len(parts) \in Nat \ {0} /\ Len(parts) <= parts[1].arrays + 1
           /\ \A j \in 1..Len(parts) :
                parts[j] = [rpc |-> Len(delivered[i]) + 1, part |-> j - 1,
                            arrays |-> parts[1].arrays]
           /\ Tail(recvq[i].msgs) \in Seq(Message)
           /\ Len(Tail(recvq[i].msgs)) <= queue_size
           /\ Pipe(app[i], sendq[i].msgs, loop[i], wire[i], ctx[i], Hand(i),
                   Tail(recvq[i].msgs),
                   IF Len(parts) = parts[1].arrays + 1
                   THEN [rpc |-> Len(delivered[i]) + 2, part |-> 0, arrays |-> 0]
                   ELSE [rpc |-> Len(delivered[i]) + 1, part |-> Len(parts),
                         arrays |-> parts[1].arrays])
<1> DEFINE r == recvq[i].msgs
           D == Len(delivered[i])
           n == Len(recv.parts)
           A == parts[1].arrays
<1>1. /\ r \in Seq(Message) /\ recv.parts \in Seq(Message) /\ delivered[i] \in Seq(Seq(Message))
      /\ PipeOf(i) /\ Len(r) <= queue_size
  BY DEF IInv, Types, Queue, RecvState, Pipes, Bounds
<1>2. n \in Nat /\ D \in Nat /\ (recv.parts = <<>> => n = 0)
  BY <1>1, LenProperties, SeqLen
<1>3. /\ msg \in Message /\ Tail(r) \in Seq(Message) /\ Slot(msg) = Awaited(i)
      /\ Pipe(app[i], sendq[i].msgs, loop[i], wire[i], ctx[i], Hand(i), Tail(r), Following(msg))
  BY <1>1, PipeTake DEF PipeOf
<1>4. /\ Len(Tail(r)) = Len(r) - 1 /\ Len(r) \in Nat /\ queue_size \in Nat
  BY <1>1, HeadTailProperties, SeqLen, ConfigProperties DEF IInv, Types
<1>5. /\ parts \in Seq(Message) /\ Len(parts) = n + 1 /\ parts[n + 1] = msg
      /\ \A j \in 1..n : parts[j] = recv.parts[j]
  BY <1>1, <1>2, <1>3, AppendProperties
<1>6. msg.rpc \in Nat /\ msg.part \in Nat /\ msg.arrays \in Nat
      /\ msg = [rpc |-> msg.rpc, part |-> msg.part, arrays |-> msg.arrays]
  <2> HIDE DEF D, n, r, A
  <2>1. msg \in Message
    BY <1>3
  <2> QED BY ONLY <2>1, SocketAssumption DEF Message
<1> HIDE DEF D, n, r
<1>7. /\ msg = [rpc |-> D + 1, part |-> n, arrays |-> A] /\ A \in Nat /\ n <= A
      /\ \A j \in 1..n : parts[j] = [rpc |-> D + 1, part |-> j - 1, arrays |-> A]
  <2>1. CASE recv.pc = "scan"
    <3>1. n = 0
      BY <1>2, <2>1 DEF IInv, Receiving
    <3>2. Slot(msg) = [rpc |-> D + 1, part |-> 0, arrays |-> 0]
      BY <1>3, <2>1 DEF Awaited, D
    <3>3. msg.rpc = D + 1 /\ msg.part = 0
      BY <3>2 DEF Slot
    <3> QED BY <1>5, <1>6, <3>1, <3>3
  <2>2. CASE recv.pc = "take" /\ recv.from = i
    <3>1. /\ n # 0 /\ n <= recv.parts[1].arrays
          /\ \A j \in 1..n : recv.parts[j] = [rpc |-> D + 1, part |-> j - 1,
                                              arrays |-> recv.parts[1].arrays]
      BY <2>2 DEF IInv, Receiving, Partial, D, n
    <3>2. Slot(msg) = [rpc |-> D + 1, part |-> n, arrays |-> recv.parts[1].arrays]
      BY <1>3, <2>2 DEF Awaited, D, n
    <3>3. msg.rpc = D + 1 /\ msg.part = n /\ msg.arrays = recv.parts[1].arrays
      BY <3>1, <3>2 DEF Slot
    <3>4. parts[1] = recv.parts[1]
      BY <1>2, <1>5, <3>1
    <3> QED BY <1>5, <1>6, <3>1, <3>3, <3>4
  <2> QED BY <2>1, <2>2
<1> HIDE DEF A
<1>8. \A j \in 1..Len(parts) : parts[j] = [rpc |-> D + 1, part |-> j - 1, arrays |-> A]
  BY <1>2, <1>5, <1>7
<1>9. Following(msg) = IF Len(parts) = A + 1
                       THEN [rpc |-> D + 2, part |-> 0, arrays |-> 0]
                       ELSE [rpc |-> D + 1, part |-> Len(parts), arrays |-> A]
  <2>1. msg.rpc = D + 1 /\ msg.part = n /\ msg.arrays = A /\ (D + 1) + 1 = D + 2
    BY <1>2, <1>7
  <2>2. Len(parts) = A + 1 <=> ~(n < A)
    BY <1>2, <1>5, <1>7
  <2> QED BY <1>5, <2>1, <2>2 DEF Following
<1>10. Len(parts) \in Nat \ {0} /\ Len(parts) <= A + 1 /\ Len(Tail(r)) <= queue_size
  BY <1>1, <1>2, <1>4, <1>5, <1>7 DEF r
<1> QED BY <1>3, <1>5, <1>7, <1>8, <1>9, <1>10, Zenon DEF A, D, r

\* Recv takes a message from the queue of sender i.
LEMMA TakeStep ==
    ASSUME IInv, NEW i \in Senders, recvq[i].msgs # <<>>,
           recv.pc = "scan" \/ (recv.pc = "take" /\ recv.from = i),
           NEW r \in RecvState, r.parts = recv.parts, r.from = recv.from,
           recvq' = [recvq EXCEPT ![i].msgs = Tail(@)],
           Received(r, i, Head(recvq[i].msgs)),
           UNCHANGED <<senderVars, wire, worker, pool, pending, ctx, sem>>
    PROVE  IInv'
<1> DEFINE parts == Append(recv.parts, Head(recvq[i].msgs))
           A == parts[1].arrays
           D == Len(delivered[i])
           e == IF Len(parts) = A + 1 THEN [rpc |-> D + 2, part |-> 0, arrays |-> 0]
                ELSE [rpc |-> D + 1, part |-> Len(parts), arrays |-> A]
<1>1. /\ recvq \in [Senders -> Queue] /\ sem' \in Nat /\ recv \in RecvState
      /\ delivered \in [Senders -> Seq(Seq(Message))] /\ delivered[i] \in Seq(Seq(Message))
      /\ D \in Nat
  BY LenProperties DEF IInv, Types
<1>2. /\ parts \in Seq(Message) /\ A \in Nat /\ Len(parts) \in Nat \ {0} /\ Len(parts) <= A + 1
      /\ \A j \in 1..Len(parts) : parts[j] = [rpc |-> D + 1, part |-> j - 1, arrays |-> A]
  BY TakenParts
<1>3. /\ Tail(recvq[i].msgs) \in Seq(Message) /\ Len(Tail(recvq[i].msgs)) <= queue_size
      /\ Pipe(app[i], sendq[i].msgs, loop[i], wire[i], ctx[i], Hand(i), Tail(recvq[i].msgs), e)
  BY TakenParts
<1>4. /\ Len(parts) = A + 1 =>
           /\ delivered' = [delivered EXCEPT ![i] = Append(delivered[i], parts)]
           /\ recv' = [r EXCEPT !.pc = "wait", !.parts = <<>>]
      /\ Len(parts) # A + 1 =>
           /\ delivered' = delivered
           /\ recv' = [r EXCEPT !.pc = "waitData", !.from = i, !.parts = parts]
  BY DEF Received
<1>5. /\ recvq' \in [Senders -> Queue] /\ recvq'[i].msgs = Tail(recvq[i].msgs)
      /\ \A j \in Senders \ {i} : recvq'[j] = recvq[j]
      /\ \A j \in Senders : recvq'[j].closed = recvq[j].closed
  <2> DEFINE q == [recvq[i] EXCEPT !.msgs = Tail(recvq[i].msgs)]
  <2>1. recvq' = [recvq EXCEPT ![i] = q]
    OBVIOUS
  <2>2. q \in Queue /\ q.msgs = Tail(recvq[i].msgs) /\ q.closed = recvq[i].closed
    BY <1>1, <1>3, SetMessages
  <2> HIDE DEF q
  <2> QED BY <1>1, <2>1, <2>2
<1>6. \A j \in Senders : Len(recvq'[j].msgs) <= queue_size
  BY <1>3, <1>5 DEF IInv, Bounds
<1>7. ~Finalizing /\ \A j \in Senders : ~recvq'[j].closed
  BY <1>5 DEF IInv, Receiving, Finalizing
<1>8. \A j \in Senders \ {i} :
        /\ Awaited(j) = [rpc |-> Len(delivered[j]) + 1, part |-> 0, arrays |-> 0]
        /\ Pipe(app[j], sendq[j].msgs, loop[j], wire[j], ctx[j], Hand(j), recvq'[j].msgs,
                [rpc |-> Len(delivered[j]) + 1, part |-> 0, arrays |-> 0])
  BY <1>5 DEF IInv, Pipes, PipeOf, Awaited
<1> HIDE DEF parts, A
<1>9. CASE Len(parts) = A + 1
  <2>1. Append(delivered[i], parts) \in Seq(Seq(Message))
        /\ Len(Append(delivered[i], parts)) = D + 1
        /\ Append(delivered[i], parts)[D + 1] = parts
        /\ \A k \in 1..D : Append(delivered[i], parts)[k] = delivered[i][k]
    BY <1>1, <1>2, AppendProperties
  <2>2. /\ delivered' \in [Senders -> Seq(Seq(Message))]
        /\ Len(delivered'[i]) = D + 1 /\ delivered'[i][D + 1] = parts
        /\ \A k \in 1..D : delivered'[i][k] = delivered[i][k]
        /\ \A j \in Senders \ {i} : delivered'[j] = delivered[j]
    BY <1>1, <1>4, <1>9, <2>1
  <2>3. recv' \in RecvState /\ recv'.pc = "wait" /\ recv'.parts = <<>>
    <3>1. <<>> \in Seq(Message)
      BY EmptySeq
    <3> QED BY <1>4, <1>9, <3>1 DEF RecvState
  <2> HIDE DEF D
  <2>4. Receiving'
    BY <1>7, <2>3 DEF Receiving, Finalizing
  <2>5. MessagesIntact'
    <3> SUFFICES ASSUME NEW j \in Senders, NEW k \in DOMAIN delivered'[j],
                        NEW p \in DOMAIN delivered'[j][k]
                 PROVE  delivered'[j][k][p] = [rpc |-> k, part |-> p - 1,
                                               arrays |-> Len(delivered'[j][k]) - 1]
      BY DEF MessagesIntact
    <3>0. \A a \in Senders : \A b \in DOMAIN delivered[a] : \A c \in DOMAIN delivered[a][b] :
            delivered[a][b][c] = [rpc |-> b, part |-> c - 1, arrays |-> Len(delivered[a][b]) - 1]
      BY DEF IInv, MessagesIntact
    <3>1. CASE j # i
      <4>1. delivered'[j] = delivered[j]
        BY <2>2, <3>1
      <4> QED BY <3>0, <4>1
    <3>2. CASE j = i
      <4>1. k \in 1..(D + 1)
        BY <2>2, <3>2, LenProperties
      <4>2. CASE k = D + 1
        <5>1. p \in 1..Len(parts)
          BY <1>2, <2>2, <3>2, <4>2, LenProperties
        <5>2. Len(parts) - 1 = A
          BY <1>2, <1>9
        <5> QED BY <1>2, <2>2, <3>2, <4>2, <5>1, <5>2
      <4>3. CASE k \in 1..D
        <5>1. k \in DOMAIN delivered[i]
          BY <1>1, <4>3, LenProperties DEF D
        <5>2. delivered'[j][k] = delivered[i][k]
          BY <2>2, <3>2, <4>3
        <5> QED BY <3>0, <5>1, <5>2
      <4> QED BY <1>1, <4>1, <4>2, <4>3
    <3> QED BY <3>1, <3>2
  <2>6. Awaited(i)' = e
    BY <1>1, <1>9, <2>2, <2>3 DEF Awaited
  <2>7. \A j \in Senders \ {i} : Awaited(j)' = [rpc |-> Len(delivered[j]) + 1, part |-> 0, arrays |-> 0]
    BY <2>2, <2>3 DEF Awaited
  <2>8. \A j \in Senders : Pipe(app[j], sendq[j].msgs, loop[j], wire[j], ctx[j], Hand(j),
                                recvq'[j].msgs, Awaited(j)')
    <3> HIDE DEF e
    <3>1. ASSUME NEW j \in Senders
          PROVE  Pipe(app[j], sendq[j].msgs, loop[j], wire[j], ctx[j], Hand(j),
                      recvq'[j].msgs, Awaited(j)')
      BY <1>3, <1>5, <1>8, <2>6, <2>7
    <3> QED BY <3>1
  <2> QED BY <1>1, <1>5, <1>6, <2>2, <2>3, <2>4, <2>5, <2>8, RecvKeeps
<1>10. CASE Len(parts) # A + 1
  <2>1. /\ delivered' = delivered /\ recv' \in RecvState
        /\ recv'.pc = "waitData" /\ recv'.from = i /\ recv'.parts = parts
    BY <1>2, <1>4, <1>10 DEF RecvState
  <2>2. Partial'
    BY <1>2, <1>10, <2>1 DEF Partial, A
  <2>3. Receiving'
    BY <1>7, <2>1, <2>2 DEF Receiving, Finalizing
  <2>4. MessagesIntact'
    BY <2>1 DEF IInv, MessagesIntact
  <2>5. Awaited(i)' = e
    BY <1>10, <2>1 DEF Awaited, A
  <2>6. \A j \in Senders \ {i} : Awaited(j)' = [rpc |-> Len(delivered[j]) + 1, part |-> 0, arrays |-> 0]
    BY <2>1 DEF Awaited
  <2>7. \A j \in Senders : Pipe(app[j], sendq[j].msgs, loop[j], wire[j], ctx[j], Hand(j),
                                recvq'[j].msgs, Awaited(j)')
    <3> HIDE DEF e
    <3>1. ASSUME NEW j \in Senders
          PROVE  Pipe(app[j], sendq[j].msgs, loop[j], wire[j], ctx[j], Hand(j),
                      recvq'[j].msgs, Awaited(j)')
      BY <1>3, <1>5, <1>8, <2>5, <2>6
    <3> QED BY <3>1
  <2> QED BY <1>1, <1>5, <1>6, <2>1, <2>3, <2>4, <2>7, RecvKeeps
<1> QED BY <1>9, <1>10

\* One turn of Recv's loop over the queues.
LEMMA ScanQueueStep == ASSUME IInv, ScanQueue PROVE IInv'
<1> DEFINE i == recv.iter
           moved == [recv EXCEPT !.iter = (i + 1) % num_sender]
<1>1. recv \in RecvState /\ i \in Senders
  BY DEF IInv, Types, RecvState
<1>2. (i + 1) % num_sender \in Senders
  BY <1>1, SocketAssumption DEF Senders
<1>3. moved \in RecvState /\ moved.parts = recv.parts /\ moved.from = recv.from
  BY <1>1, <1>2 DEF RecvState
<1>4. CASE recvq[i].msgs = <<>>
  BY <1>4, ScanEmptyStep DEF ScanQueue
<1>5. CASE recvq[i].msgs # <<>>
  <2>1. /\ recv.pc = "scan" /\ recvq' = [recvq EXCEPT ![i].msgs = Tail(@)]
        /\ Received(moved, i, Head(recvq[i].msgs))
        /\ UNCHANGED <<senderVars, wire, worker, pool, pending, ctx, sem>>
    BY <1>5 DEF ScanQueue
  <2> HIDE DEF moved, i
  <2> QED BY <1>1, <1>3, <1>5, <2>1, TakeStep, Zenon
<1> QED BY <1>4, <1>5

\* RecvFrom takes an ndarray.
LEMMA TakeArrayStep == ASSUME IInv, TakeArray PROVE IInv'
<1> DEFINE i == recv.from
<1>1. recv \in RecvState /\ i \in Senders
  BY DEF IInv, Types, RecvState
<1>2. /\ recv.pc = "take" /\ recvq[i].msgs # <<>> /\ recvq' = [recvq EXCEPT ![i].msgs = Tail(@)]
      /\ Received(recv, i, Head(recvq[i].msgs))
      /\ UNCHANGED <<senderVars, wire, worker, pool, pending, ctx, sem>>
  BY DEF TakeArray
<1> QED BY <1>1, <1>2, TakeStep, Zenon

-----------------------------------------------------------------------------
(* The invariant *)

\* The initial states: nothing is queued, and the first RPC message is awaited.
LEMMA Initially == Init => IInv
<1> SUFFICES ASSUME Init PROVE IInv
  OBVIOUS
<1> DEFINE first == [rpc |-> 1, part |-> 0, arrays |-> 0]
<1>1. config \in Configs
  BY DEF Init
<1>2. 0 \in Senders /\ \A w \in Workers : Sockets(w) \subseteq Senders
  BY <1>1, ConfigProperties DEF Sockets
<1>3. /\ <<>> \in Seq(Message) /\ <<>> \in Seq(Token) /\ <<>> \in Seq(Seq(Message))
      /\ Len(<<>>) = 0
  BY EmptySeq
<1>4. EmptyQueue \in Queue /\ EmptyQueue.msgs = <<>> /\ ~EmptyQueue.closed
  BY <1>3 DEF EmptyQueue, Queue
<1>5. Types
  <2>1. /\ app \in [Senders -> AppState] /\ loop \in [Senders -> LoopState]
        /\ ctx \in [Senders -> Message \cup {None}]
    BY DEF Init, AppState, LoopState
  <2>2. /\ sendq \in [Senders -> Queue] /\ recvq \in [Senders -> Queue]
    BY <1>4 DEF Init
  <2>3. worker \in [Workers -> WorkerState]
    BY <1>2 DEF Init, WorkerState
  <2>4. pool \in [Workers -> SUBSET Senders] /\ pending \in [Workers -> SUBSET Senders]
    BY <1>2 DEF Init
  <2>5. recv \in RecvState /\ sem \in Nat
    BY <1>2, <1>3 DEF Init, RecvState
  <2>6. wire \in [Senders -> Seq(Token)] /\ delivered \in [Senders -> Seq(Seq(Message))]
    BY <1>3 DEF Init
  <2> QED BY <1>1, <2>1, <2>2, <2>3, <2>4, <2>5, <2>6 DEF Types
<1>6. \A i \in Senders :
        /\ app[i].pc = "idle" /\ app[i].next = None /\ loop[i].pc = "remove" /\ loop[i].msg = None
        /\ sendq[i].msgs = <<>> /\ recvq[i].msgs = <<>> /\ ~recvq[i].closed
        /\ wire[i] = <<>> /\ ctx[i] = None /\ delivered[i] = <<>>
  BY <1>4 DEF Init
<1>7. Bounds
  <2>1. queue_size \in Nat /\ WireSize \in Nat
    BY <1>1, ConfigProperties, SocketAssumption
  <2> QED BY <1>3, <1>6, <2>1 DEF Bounds
<1>8. Apps
  BY <1>6 DEF Apps, None
<1>9. \A w \in Workers : worker[w].pc = "poll" /\ pool[w] = Sockets(w) /\ pending[w] = {}
  BY DEF Init
<1>10. Threads
  BY <1>9 DEF Threads
<1>11. recv.pc = "wait" /\ recv.parts = <<>>
  BY DEF Init
<1>12. Receiving
  BY <1>6, <1>11 DEF Receiving, Finalizing
<1>13. MessagesIntact
  <2>1. DOMAIN <<>> = {}
    OBVIOUS
  <2> QED BY <1>6, <2>1 DEF MessagesIntact
<1>14. Pipes
  <2> SUFFICES ASSUME NEW i \in Senders PROVE PipeOf(i)
    BY DEF Pipes
  <2>1. i % max_thread_count \in Workers
    BY <1>1, ConfigProperties
  <2>2. Hand(i) = None
    BY <1>9, <2>1 DEF Hand, Holds
  <2>3. Len(delivered[i]) = 0 /\ Awaited(i) = first
    BY <1>3, <1>6, <1>11 DEF Awaited
  <2>4. Sending(app[i]) = first
    BY <1>6 DEF Sending, Following, None
  <2>5. /\ Len(sendq[i].msgs) = 0 /\ Len(wire[i]) = 0 /\ Len(recvq[i].msgs) = 0
        /\ ctx[i] = None /\ loop[i].pc = "remove"
    BY <1>3, <1>6
  <2>6. Ahead(sendq[i].msgs, first) = first /\ Chain(sendq[i].msgs, first)
    BY <2>5 DEF Ahead, Chain
  <2>7. Unread(wire[i], None, first) = first /\ Stream(wire[i], None, loop[i], first)
    BY <2>5 DEF Unread, At, Stream
  <2>8. Ahead(recvq[i].msgs, first) = first /\ Chain(recvq[i].msgs, first)
    BY <2>5 DEF Ahead, Chain
  <2>9. InHand(None, first) = first
    BY DEF InHand
  <2> HIDE DEF first
  <2> QED BY <2>2, <2>3, <2>4, <2>5, <2>6, <2>7, <2>8, <2>9 DEF PipeOf, Pipe
<1> QED BY <1>5, <1>7, <1>8, <1>10, <1>12, <1>13, <1>14 DEF IInv

\* A stuttering step.
LEMMA Stutter == ASSUME IInv, UNCHANGED vars PROVE IInv'
<1>1. /\ UNCHANGED <<senderVars, wire, worker, pool, pending, ctx, delivered>>
      /\ recvq' = recvq /\ sem' = sem /\ recv' = recv /\ delivered' = delivered
  BY DEF vars, senderVars
<1>2. recvq \in [Senders -> Queue] /\ sem \in Nat /\ recv \in RecvState
  BY DEF IInv, Types
<1>3. (Finalizing => ~Expecting) /\ \A i \in Senders : recvq[i].closed => Finalizing
  BY DEF IInv, Receiving
<1>4. Finalizing' <=> Finalizing
  BY <1>1 DEF Finalizing
<1> QED BY <1>1, <1>2, <1>3, <1>4, RecvMoves

\* Every step preserves the invariant.
LEMMA Inductive == ASSUME IInv, [Next]_vars PROVE IInv'
<1>1. ASSUME NEW i \in Senders, SenderStep(i) PROVE IInv'
  BY <1>1, StartRpcStep, SendPartStep, SenderFinalizeStep, SenderJoinStep DEF SenderStep
<1>2. ASSUME NEW i \in Senders, SendLoop(i) PROVE IInv'
  BY <1>2, SendSizeStep, SendDataStep, SendEndStep DEF SendLoop
<1>3. ASSUME NEW w \in Workers, RecvLoop(w) PROVE IInv'
  BY <1>3, GetActiveSocketStep, AddToQueueStep, AddBlockedStep, PostStep DEF RecvLoop
<1>4. CASE Recv
  BY <1>4, TimedWaitStep, ScanQueueStep, TakeArrayStep DEF Recv
<1>5. CASE Finalize
  BY <1>5, ReceiverFinalizeStep, CloseQueueStep, ReceiverJoinStep DEF Finalize
<1>6. CASE Terminated \/ UNCHANGED vars
  BY <1>6, Stutter DEF Terminated
<1> QED BY <1>1, <1>2, <1>3, <1>4, <1>5, <1>6 DEF Next

\* The invariant is one of the specification.
THEOREM Invariance == Spec => []IInv
  BY Initially, Inductive, PTL DEF Spec

\* The state of threads, queues and streams has its type; no queue and no stream
\* holds more than fits.
THEOREM TypeCorrect == Spec => []TypeOK
<1>1. IInv => TypeOK
  BY DEF IInv, Types, Bounds, Threads, TypeOK, AppState, Queue, LoopState, WorkerState, RecvState
<1> QED BY <1>1, Invariance, PTL

\* The application gets every RPC message of every sender whole and in order.
THEOREM Intact == Spec => []MessagesIntact
<1>1. IInv => MessagesIntact
  BY DEF IInv
<1> QED BY <1>1, Invariance, PTL

-----------------------------------------------------------------------------
(* The semaphore *)

\* The tokens that are about to be posted, and the one a Recv has taken.
Posting == {w \in Workers : worker[w].pc = "post"}
Held == IF recv.pc \in {"scan", "take"} THEN 1 ELSE 0

\* A thread with one socket leaves RecvLoop with the end signal in its hand: it
\* never tries to add one.
NoEndSignal ==
    max_thread_count = num_sender =>
    \A w \in Workers : worker[w].pc \in {"add", "blocked", "post"} => worker[w].msg # EndSignal

Counts == NoEndSignal /\ SemaphoreCounts

\* The queued messages as pairs of a sender and a place in its queue.
LEMMA QueuedPairs ==
    /\ \A i \in Senders : \A k : <<i, k>> \in Queued <=> k \in 1..Len(recvq[i].msgs)
    /\ \A p \in Queued : \E i \in Senders : \E k \in 1..Len(recvq[i].msgs) : p = <<i, k>>
<1>1. \A p : p \in Queued <=> \E i \in Senders : p \in {i} \X (1..Len(recvq[i].msgs))
  BY DEF Queued
<1> QED BY <1>1

\* The same set in the next state.
LEMMA QueuedPairsNext ==
    /\ \A i \in Senders : \A k : <<i, k>> \in Queued' <=> k \in 1..Len(recvq'[i].msgs)
    /\ \A p \in Queued' : \E i \in Senders : \E k \in 1..Len(recvq'[i].msgs) : p = <<i, k>>
<1>1. \A p : p \in Queued' <=> \E i \in Senders : p \in {i} \X (1..Len(recvq'[i].msgs))
  BY DEF Queued
<1> QED BY <1>1

\* What is counted is finite.
LEMMA CountsFinite ==
    ASSUME IInv
    PROVE  /\ IsFiniteSet(Queued) /\ Cardinality(Queued) \in Nat
           /\ IsFiniteSet(Posting) /\ Cardinality(Posting) \in Nat
<1>1. /\ max_thread_count \in Nat /\ queue_size \in Nat /\ num_sender \in Nat
      /\ \A i \in Senders : Len(recvq[i].msgs) \in Nat /\ Len(recvq[i].msgs) <= queue_size
  BY ConfigProperties, SocketAssumption, LenProperties DEF IInv, Types, Queue, Bounds
<1>2. IsFiniteSet(Senders) /\ IsFiniteSet(1..queue_size) /\ IsFiniteSet(Workers)
  BY <1>1, FS_Interval DEF Senders, Workers
<1>3. IsFiniteSet(Senders \X (1..queue_size))
  BY <1>2, FS_Product
<1>4. Queued \subseteq Senders \X (1..queue_size)
  BY <1>1, QueuedPairs
<1>5. IsFiniteSet(Queued)
  BY <1>3, <1>4, FS_Subset
<1>6. IsFiniteSet(Posting)
  BY <1>2, FS_Subset DEF Posting
<1> QED BY <1>5, <1>6, FS_CardinalityType

\* With a thread per socket, a thread has the socket of its own number only.
LEMMA OneSocket ==
    ASSUME IInv, max_thread_count = num_sender, NEW w \in Workers, NEW i \in Sockets(w)
    PROVE  i = w
<1>1. i \in 0..(num_sender - 1) /\ i % num_sender = w /\ num_sender \in Nat \ {0}
  BY SocketAssumption DEF Sockets, Senders
<1> QED BY <1>1

\* A step that leaves the counted things alone.
LEMMA CountsKept ==
    ASSUME SemaphoreCounts, config' = config, sem' = sem, Held' = Held, Posting' = Posting,
           Queued' = Queued
    PROVE  SemaphoreCounts'
  BY DEF SemaphoreCounts, Held, Posting, max_thread_count

\* A message is added to the queue of sender i, and will be posted.
LEMMA CountsAdd ==
    ASSUME IInv, SemaphoreCounts, config' = config, sem' = sem, recv' = recv,
           NEW w \in Workers, worker[w].pc # "post", NEW k, k.pc = "post",
           worker' = [worker EXCEPT ![w] = k],
           NEW i \in Senders, NEW msg \in Message,
           recvq' = [recvq EXCEPT ![i].msgs = Append(@, msg)]
    PROVE  SemaphoreCounts'
<1> DEFINE n == Len(recvq[i].msgs)
<1>1. recvq \in [Senders -> Queue] /\ recvq[i].msgs \in Seq(Message) /\ n \in Nat
  BY LenProperties DEF IInv, Types, Queue
<1>2. Len(Append(recvq[i].msgs, msg)) = n + 1
  BY <1>1, AppendProperties
<1>3. /\ Len(recvq'[i].msgs) = n + 1
      /\ \A j \in Senders \ {i} : recvq'[j] = recvq[j]
  BY <1>1, <1>2 DEF Queue
<1>4. /\ Queued' = Queued \cup {<<i, n + 1>>} /\ <<i, n + 1>> \notin Queued
  <2>1. <<i, n + 1>> \notin Queued
    BY <1>1, QueuedPairs
  <2>2. 1..(n + 1) = (1..n) \cup {n + 1}
    BY <1>1
  <2>3. ASSUME NEW p \in Queued' PROVE p \in Queued \cup {<<i, n + 1>>}
    <3>1. PICK j \in Senders : \E k1 \in 1..Len(recvq'[j].msgs) : p = <<j, k1>>
      BY QueuedPairsNext
    <3> QED BY <1>3, <2>2, <3>1, QueuedPairs
  <2>4. ASSUME NEW p \in Queued \cup {<<i, n + 1>>} PROVE p \in Queued'
    <3>1. CASE p = <<i, n + 1>>
      BY <1>3, <2>2, <3>1, QueuedPairsNext
    <3>2. CASE p \in Queued
      <4>1. PICK j \in Senders : \E k1 \in 1..Len(recvq[j].msgs) : p = <<j, k1>>
        BY <3>2, QueuedPairs
      <4> QED BY <1>3, <2>2, <4>1, QueuedPairsNext
    <3> QED BY <3>1, <3>2
  <2> QED BY <2>1, <2>3, <2>4
<1>5. Workers' = Workers /\ max_thread_count' = max_thread_count /\ Held' = Held
  BY DEF Workers, max_thread_count, Held
<1>6. Posting' = Posting \cup {w} /\ w \notin Posting
  <2>1. worker \in [Workers -> WorkerState]
    BY DEF IInv, Types
  <2> QED BY <1>5, <2>1 DEF Posting
<1>7. /\ Cardinality(Queued') = Cardinality(Queued) + 1
      /\ Cardinality(Posting') = Cardinality(Posting) + 1
  BY <1>4, <1>6, CountsFinite, FS_AddElement
<1>8. /\ sem \in Nat /\ Held \in Nat /\ Cardinality(Queued) \in Nat /\ Cardinality(Posting) \in Nat
  BY CountsFinite DEF IInv, Types, Held
<1>9. max_thread_count = num_sender => sem + Held + Cardinality(Posting) = Cardinality(Queued)
  BY DEF SemaphoreCounts, Held, Posting
<1>10. max_thread_count' = num_sender =>
         sem' + Held' + Cardinality(Posting') = Cardinality(Queued')
  BY <1>5, <1>7, <1>8, <1>9
<1> QED BY <1>10 DEF SemaphoreCounts, Held, Posting

\* A Recv that holds a token takes a message of sender i.
LEMMA CountsTake ==
    ASSUME IInv, SemaphoreCounts, config' = config, sem' = sem, worker' = worker,
           Held = 1, Held' = 0, NEW i \in Senders, recvq[i].msgs # <<>>,
           recvq' = [recvq EXCEPT ![i].msgs = Tail(@)]
    PROVE  SemaphoreCounts'
<1> DEFINE n == Len(recvq[i].msgs)
<1>1. /\ recvq \in [Senders -> Queue] /\ recvq[i].msgs \in Seq(Message)
  BY DEF IInv, Types, Queue
<1>2. Len(Tail(recvq[i].msgs)) = n - 1 /\ n \in Nat \ {0}
  BY <1>1, HeadTailProperties, SeqLen
<1>3. /\ Len(recvq'[i].msgs) = n - 1
      /\ \A j \in Senders \ {i} : recvq'[j] = recvq[j]
  BY <1>1, <1>2 DEF Queue
<1>4. Queued' = Queued \ {<<i, n>>} /\ <<i, n>> \in Queued
  <2>1. <<i, n>> \in Queued
    BY <1>2, QueuedPairs
  <2>2. 1..(n - 1) = (1..n) \ {n}
    BY <1>2
  <2>3. ASSUME NEW p \in Queued' PROVE p \in Queued \ {<<i, n>>}
    <3>1. PICK j \in Senders : \E k1 \in 1..Len(recvq'[j].msgs) : p = <<j, k1>>
      BY QueuedPairsNext
    <3> QED BY <1>3, <2>2, <3>1, QueuedPairs
  <2>4. ASSUME NEW p \in Queued \ {<<i, n>>} PROVE p \in Queued'
    <3>1. PICK j \in Senders : \E k1 \in 1..Len(recvq[j].msgs) : p = <<j, k1>>
      BY QueuedPairs
    <3> QED BY <1>3, <2>2, <3>1, QueuedPairsNext
  <2> QED BY <2>1, <2>3, <2>4
<1>5. /\ Workers' = Workers /\ max_thread_count' = max_thread_count /\ Posting' = Posting
  BY DEF Workers, max_thread_count, Posting
<1>6. Cardinality(Queued') = Cardinality(Queued) - 1
  BY <1>4, CountsFinite, FS_RemoveElement
<1>7. sem \in Nat /\ Cardinality(Queued) \in Nat /\ Cardinality(Posting) \in Nat
  BY CountsFinite DEF IInv, Types
<1>8. max_thread_count = num_sender => sem + Held + Cardinality(Posting) = Cardinality(Queued)
  BY DEF SemaphoreCounts, Held, Posting
<1>9. max_thread_count' = num_sender =>
         sem' + Held' + Cardinality(Posting') = Cardinality(Queued')
  BY <1>5, <1>6, <1>7, <1>8
<1> QED BY <1>9 DEF SemaphoreCounts, Held, Posting

\* A step that leaves the receiver threads and the messages in the queues alone.
LEMMA CountsFrame ==
    ASSUME Counts, UNCHANGED <<config, worker, sem>>, Held' = Held,
           \A i \in Senders : recvq'[i].msgs = recvq[i].msgs
    PROVE  Counts'
<1>1. max_thread_count' = max_thread_count /\ Workers' = Workers /\ Posting' = Posting
  BY DEF max_thread_count, Workers, Posting
<1>2. Queued' = Queued
  BY DEF Queued
<1>3. NoEndSignal'
  BY <1>1 DEF Counts, NoEndSignal
<1> QED BY <1>1, <1>2, <1>3, CountsKept DEF Counts

\* A step of thread w of the receiver has to care for the message in its hand.
LEMMA NoEndSignalKept ==
    ASSUME IInv, NoEndSignal, config' = config, NEW w \in Workers, NEW k,
           worker' = [worker EXCEPT ![w] = k],
           max_thread_count = num_sender =>
             (k.pc \in {"add", "blocked", "post"} => k.msg # EndSignal)
    PROVE  NoEndSignal'
<1>1. max_thread_count' = max_thread_count /\ Workers' = Workers
  BY DEF max_thread_count, Workers
<1>2. worker \in [Workers -> WorkerState]
  BY DEF IInv, Types
<1>3. \A v \in Workers : worker'[v] = IF v = w THEN k ELSE worker[v]
  BY <1>2
<1> QED BY <1>1, <1>3 DEF NoEndSignal

\* What RecvLoop has in its hand after it looked at a socket.
LEMMA SocketRead ==
    ASSUME IInv, NEW w \in Workers, GetActiveSocket(w)
    PROVE  \E k : /\ worker' = [worker EXCEPT ![w] = k]
                  /\ k.pc \in {"poll", "add", "exit"}
                  /\ max_thread_count = num_sender => (k.pc = "add" => k.msg # EndSignal)
<1> DEFINE live == pending[w] \cap pool[w]
           ready == IF live # {} THEN live ELSE {i \in pool[w] : wire[i] # <<>>}
<1>1. ready \subseteq pool[w] /\ \A j \in ready : wire[j] # <<>>
  BY DEF IInv, Threads
<1>2. PICK i \in ready : DropClosed(w, i) \/ ReadSocket(w, i)
  BY Zenon DEF GetActiveSocket
<1> HIDE DEF ready
<1>3. /\ wire \in [Senders -> Seq(Token)] /\ worker[w] \in WorkerState /\ worker[w].pc = "poll"
      /\ pool[w] \subseteq Sockets(w) /\ i \in Sockets(w) /\ i \in Senders /\ i % max_thread_count = w
  <2>1. worker[w].pc = "poll"
    BY DEF GetActiveSocket
  <2> QED BY <1>1, <2>1, ConfigProperties DEF IInv, Types, Threads
<1>4. max_thread_count = num_sender => pool[w] = {i}
  BY <1>1, <1>3, OneSocket
<1>5. ASSUME NEW pc, pc \in {"poll", "add"}, RemoveSocket(w, i, pc)
      PROVE  \E k : /\ worker' = [worker EXCEPT ![w] = k]
                    /\ k.pc \in {"poll", "add", "exit"}
                    /\ max_thread_count = num_sender => (k.pc = "add" => k.msg # EndSignal)
  <2> DEFINE k == [worker[w] EXCEPT !.from = i, !.msg = EndSignal,
                                    !.pc = IF pool[w] = {i} THEN "exit" ELSE pc]
  <2>1. worker' = [worker EXCEPT ![w] = k]
    BY <1>5 DEF RemoveSocket
  <2>2. k.pc = IF pool[w] = {i} THEN "exit" ELSE pc
    BY <1>3 DEF WorkerState
  <2> HIDE DEF k
  <2> QED BY <1>4, <1>5, <2>1, <2>2
<1>6. CASE DropClosed(w, i)
  BY <1>5, <1>6 DEF DropClosed
<1>7. CASE ReadSocket(w, i)
  <2> DEFINE msg == Head(wire[i]).msg
             both == ctx[i] = None /\ Len(wire[i]) >= 2
  <2>1. CASE RemoveSocket(w, i, "add")
    BY <1>5, <2>1
  <2>2. CASE worker' = [worker EXCEPT ![w].pc = "poll"]
    <3>1. worker' = [worker EXCEPT ![w] = [worker[w] EXCEPT !.pc = "poll"]]
      BY <2>2
    <3>2. [worker[w] EXCEPT !.pc = "poll"].pc = "poll"
      BY <1>3 DEF WorkerState
    <3> QED BY <3>1, <3>2
  <2>3. CASE /\ ctx[i] # None \/ (both /\ msg # EndSignal)
             /\ worker' = [worker EXCEPT ![w] = [pc |-> "add", from |-> i, msg |-> msg]]
    <3>1. PipeOf(i) /\ Hand(i) = None
      BY <1>3 DEF IInv, Pipes, Hand, Holds
    <3>2. Pipe(app[i], sendq[i].msgs, loop[i], wire[i], ctx[i], None, recvq[i].msgs, Awaited(i))
      BY <3>1 DEF PipeOf
    <3>3. wire[i] \in Seq(Token) /\ wire[i] # <<>>
      BY <1>1, <1>3
    <3>4. msg \in Message
      BY <2>3, <3>2, <3>3, PipeReadData
    <3>5. msg # EndSignal
      BY <3>4, NotMessages
    <3> HIDE DEF msg
    <3>6. [pc |-> "add", from |-> i, msg |-> msg].pc = "add"
          /\ [pc |-> "add", from |-> i, msg |-> msg].msg = msg
      OBVIOUS
    <3> QED BY <2>3, <3>5, <3>6
  <2> QED BY <1>7, <2>1, <2>2, <2>3 DEF ReadSocket
<1> QED BY <1>2, <1>6, <1>7

\* GetActiveSocket keeps the counts.
LEMMA CountsRead == ASSUME IInv, Counts, NEW w \in Workers, GetActiveSocket(w) PROVE Counts'
<1>1. /\ worker[w].pc = "poll" /\ config' = config /\ recvq' = recvq /\ sem' = sem /\ recv' = recv
  BY DEF GetActiveSocket, senderVars
<1>2. PICK k : /\ worker' = [worker EXCEPT ![w] = k]
               /\ k.pc \in {"poll", "add", "exit"}
               /\ max_thread_count = num_sender => (k.pc = "add" => k.msg # EndSignal)
  BY SocketRead
<1>3. NoEndSignal'
  BY <1>1, <1>2, NoEndSignalKept DEF Counts
<1>4. Posting' = Posting
  <2>1. worker \in [Workers -> WorkerState] /\ Workers' = Workers
    BY <1>1 DEF IInv, Types, Workers, max_thread_count
  <2> QED BY <1>1, <1>2, <2>1 DEF Posting
<1>5. Held' = Held /\ Queued' = Queued
  BY <1>1 DEF Held, Queued
<1> QED BY <1>1, <1>3, <1>4, <1>5, CountsKept DEF Counts

\* So do the two parts of Add.
LEMMA CountsAddToQueue ==
    ASSUME IInv, Counts, NEW w \in Workers, AddToQueue(w) \/ AddBlocked(w)
    PROVE  Counts'
<1> DEFINE i == worker[w].from
           msg == worker[w].msg
<1>1. /\ worker[w].pc \in {"add", "blocked"} /\ config' = config /\ sem' = sem /\ recv' = recv
      /\ worker[w] \in WorkerState
  BY DEF AddToQueue, AddBlocked, senderVars, IInv, Types
<1>2. /\ i \in Senders /\ (msg # EndSignal => msg \in Message /\ Hand(i) = msg)
  BY <1>1, HandProperties
<1>3. PICK pc \in {"post", "blocked"} :
        /\ worker' = [worker EXCEPT ![w].pc = pc]
        /\ \/ recvq' = [recvq EXCEPT ![i].msgs = Append(@, msg)] /\ pc = "post"
           \/ recvq' = recvq /\ (pc = "blocked" \/ msg = EndSignal \/ recvq[i].closed)
  <2>1. CASE AddBlocked(w)
    BY <2>1 DEF AddBlocked
  <2>2. CASE AddToQueue(w)
    <3> DEFINE refused == msg = EndSignal \/ recvq[i].closed
               room == HasRoom(recvq[i])
    <3>1. /\ IF ~refused /\ room THEN recvq' = [recvq EXCEPT ![i].msgs = Append(@, msg)]
             ELSE recvq' = recvq
          /\ worker' = [worker EXCEPT ![w].pc = IF refused \/ room THEN "post" ELSE "blocked"]
      BY <2>2 DEF AddToQueue
    <3> QED BY <3>1
  <2> QED BY <2>1, <2>2
<1> DEFINE k == [worker[w] EXCEPT !.pc = pc]
<1>4. worker' = [worker EXCEPT ![w] = k] /\ k.pc = pc /\ k.msg = msg
  BY <1>1, <1>3 DEF WorkerState
<1> HIDE DEF k
<1>5. max_thread_count = num_sender => msg # EndSignal
  BY <1>1 DEF Counts, NoEndSignal
<1>6. NoEndSignal'
  BY <1>1, <1>4, <1>5, NoEndSignalKept DEF Counts
<1>7. max_thread_count' = max_thread_count /\ Workers' = Workers
  BY <1>1 DEF max_thread_count, Workers
<1>8. CASE max_thread_count # num_sender
  BY <1>6, <1>7, <1>8 DEF Counts, SemaphoreCounts
<1>9. CASE max_thread_count = num_sender
  <2>1. msg \in Message /\ ~recvq[i].closed
    BY <1>2, <1>5, <1>9, ClosedEmpty
  <2>2. CASE recvq' = [recvq EXCEPT ![i].msgs = Append(@, msg)] /\ pc = "post"
    <3>1. worker[w].pc # "post" /\ k.pc = "post"
      BY <1>1, <1>4, <2>2
    <3> HIDE DEF i, msg
    <3> QED BY <1>1, <1>2, <1>4, <1>6, <2>1, <2>2, <3>1, CountsAdd DEF Counts
  <2>3. CASE recvq' = recvq /\ pc = "blocked"
    <3>1. Posting' = Posting
      <4>1. worker \in [Workers -> WorkerState]
        BY DEF IInv, Types
      <4> QED BY <1>1, <1>4, <1>7, <2>3, <4>1 DEF Posting
    <3>2. Held' = Held /\ Queued' = Queued
      BY <1>1, <2>3 DEF Held, Queued
    <3> QED BY <1>1, <1>6, <3>1, <3>2, CountsKept DEF Counts
  <2> QED BY <1>3, <1>5, <1>9, <2>1, <2>2, <2>3
<1> QED BY <1>8, <1>9

\* Post moves one from the threads to the semaphore.
LEMMA CountsPost == ASSUME IInv, Counts, NEW w \in Workers, Post(w) PROVE Counts'
<1> DEFINE k == [worker[w] EXCEPT !.pc = "poll"]
<1>1. /\ worker[w].pc = "post" /\ sem' = sem + 1 /\ config' = config /\ recvq' = recvq /\ recv' = recv
      /\ worker' = [worker EXCEPT ![w] = k]
  BY DEF Post, senderVars
<1>2. worker \in [Workers -> WorkerState] /\ k.pc = "poll"
  BY DEF IInv, Types, WorkerState
<1> HIDE DEF k
<1>3. NoEndSignal'
  BY <1>1, <1>2, NoEndSignalKept DEF Counts
<1>4. /\ Workers' = Workers /\ max_thread_count' = max_thread_count /\ Held' = Held /\ Queued' = Queued
  BY <1>1 DEF Workers, max_thread_count, Held, Queued
<1>5. Posting' = Posting \ {w} /\ w \in Posting
  BY <1>1, <1>2, <1>4 DEF Posting
<1>6. Cardinality(Posting') = Cardinality(Posting) - 1
  BY <1>5, CountsFinite, FS_RemoveElement
<1>7. /\ sem \in Nat /\ Held \in Nat /\ Cardinality(Queued) \in Nat /\ Cardinality(Posting) \in Nat
  BY CountsFinite DEF IInv, Types, Held
<1>8. max_thread_count = num_sender => sem + Held + Cardinality(Posting) = Cardinality(Queued)
  BY DEF Counts, SemaphoreCounts, Held, Posting
<1>9. max_thread_count' = num_sender =>
         sem' + Held' + Cardinality(Posting') = Cardinality(Queued')
  BY <1>1, <1>4, <1>6, <1>7, <1>8
<1>10. SemaphoreCounts'
  BY <1>9 DEF SemaphoreCounts, Held, Posting
<1> QED BY <1>3, <1>10 DEF Counts

\* TimedWait moves one from the semaphore to the Recv.
LEMMA CountsWait == ASSUME IInv, Counts, TimedWait PROVE Counts'
<1>1. /\ sem' = sem - 1 /\ sem > 0 /\ recv.pc \in {"wait", "waitData"}
      /\ recv' = [recv EXCEPT !.pc = IF recv.pc = "wait" THEN "scan" ELSE "take"]
      /\ config' = config /\ recvq' = recvq /\ worker' = worker
  BY DEF TimedWait, senderVars
<1>2. recv \in RecvState /\ sem \in Nat
  BY DEF IInv, Types
<1>3. recv'.pc \in {"scan", "take"}
  BY <1>1, <1>2 DEF RecvState
<1>4. Held = 0 /\ Held' = 1
  BY <1>1, <1>3 DEF Held
<1>5. /\ Workers' = Workers /\ max_thread_count' = max_thread_count /\ Posting' = Posting
      /\ Queued' = Queued
  BY <1>1 DEF Workers, max_thread_count, Posting, Queued
<1>6. NoEndSignal'
  BY <1>1, <1>5 DEF Counts, NoEndSignal
<1>7. Cardinality(Queued) \in Nat /\ Cardinality(Posting) \in Nat
  BY CountsFinite
<1>8. max_thread_count = num_sender => sem + Held + Cardinality(Posting) = Cardinality(Queued)
  BY DEF Counts, SemaphoreCounts, Held, Posting
<1>9. max_thread_count' = num_sender =>
         sem' + Held' + Cardinality(Posting') = Cardinality(Queued')
  BY <1>1, <1>2, <1>4, <1>5, <1>7, <1>8
<1>10. SemaphoreCounts'
  BY <1>9 DEF SemaphoreCounts, Held, Posting
<1> QED BY <1>6, <1>10 DEF Counts

\* The token is spent for a message.
LEMMA CountsReceived ==
    ASSUME IInv, Counts, recv.pc \in {"scan", "take"}, NEW i \in Senders, recvq[i].msgs # <<>>,
           NEW r \in RecvState, NEW msg, Received(r, i, msg),
           recvq' = [recvq EXCEPT ![i].msgs = Tail(@)], UNCHANGED <<config, worker, sem>>
    PROVE  Counts'
<1>1. recv'.pc \in {"wait", "waitData"}
  BY DEF Received, RecvState
<1>2. Held = 1 /\ Held' = 0
  BY <1>1 DEF Held
<1>3. SemaphoreCounts'
  BY <1>2, CountsTake DEF Counts
<1>4. NoEndSignal'
  BY DEF Counts, NoEndSignal, Workers, max_thread_count
<1> QED BY <1>3, <1>4 DEF Counts

\* One turn of the scan.
LEMMA CountsScan == ASSUME IInv, Counts, ScanQueue PROVE Counts'
<1> DEFINE i == recv.iter
           moved == [recv EXCEPT !.iter = (i + 1) % num_sender]
<1>1. recv \in RecvState /\ i \in Senders
  BY DEF IInv, Types, RecvState
<1>2. (i + 1) % num_sender \in Senders
  BY <1>1, SocketAssumption DEF Senders
<1>3. moved \in RecvState /\ moved.pc = recv.pc
  BY <1>1, <1>2 DEF RecvState
<1>4. recv.pc = "scan" /\ UNCHANGED <<config, worker, sem>>
  BY DEF ScanQueue, senderVars
<1>5. CASE recvq' = recvq /\ recv' = moved
  <2>1. Held' = Held
    BY <1>3, <1>5 DEF Held
  <2> QED BY <1>4, <1>5, <2>1, CountsFrame
<1>6. CASE /\ recvq[i].msgs # <<>> /\ recvq' = [recvq EXCEPT ![i].msgs = Tail(@)]
           /\ Received(moved, i, Head(recvq[i].msgs))
  <2> HIDE DEF i, moved
  <2> QED BY <1>1, <1>3, <1>4, <1>6, CountsReceived
<1> QED BY <1>5, <1>6 DEF ScanQueue

\* RecvFrom's Remove.
LEMMA CountsTakeArray == ASSUME IInv, Counts, TakeArray PROVE Counts'
<1>1. recv \in RecvState /\ recv.from \in Senders
  BY DEF IInv, Types, RecvState
<1>2. /\ recv.pc = "take" /\ UNCHANGED <<config, worker, sem>>
      /\ recvq[recv.from].msgs # <<>>
      /\ recvq' = [recvq EXCEPT ![recv.from].msgs = Tail(@)]
      /\ Received(recv, recv.from, Head(recvq[recv.from].msgs))
  BY DEF TakeArray, senderVars
<1> QED BY <1>1, <1>2, CountsReceived

\* Finalize spends no token and removes no message.
LEMMA CountsFinalize == ASSUME IInv, Counts, Finalize PROVE Counts'
<1>1. recv \in RecvState /\ recvq \in [Senders -> Queue] /\ recv.from \in Senders
  BY DEF IInv, Types, RecvState
<1>2. recv.pc \in {"wait", "close", "join"} /\ UNCHANGED <<config, worker, sem>>
  BY DEF Finalize, ReceiverFinalize, CloseQueue, ReceiverJoin, senderVars
<1>3. recv'.pc \in {"close", "join", "done"}
  BY <1>1, <1>2 DEF Finalize, ReceiverFinalize, CloseQueue, ReceiverJoin, RecvState
<1>4. Held' = Held
  BY <1>2, <1>3 DEF Held
<1>5. \A i \in Senders : recvq'[i].msgs = recvq[i].msgs
  BY <1>1 DEF Finalize, ReceiverFinalize, CloseQueue, ReceiverJoin, Queue
<1> QED BY <1>2, <1>4, <1>5, CountsFrame

\* Initially there is nothing to count.
LEMMA CountsInitially == ASSUME Init PROVE Counts
<1>1. sem = 0 /\ Held = 0 /\ \A w \in Workers : worker[w].pc = "poll"
  BY DEF Init, Held
<1>2. NoEndSignal /\ Posting = {}
  BY <1>1 DEF NoEndSignal, Posting
<1>3. Len(<<>>) = 0
  OBVIOUS
<1>4. \A i \in Senders : Len(recvq[i].msgs) = 0
  BY <1>3 DEF Init, EmptyQueue
<1>5. Queued = {}
  <2> SUFFICES ASSUME NEW p \in Queued PROVE FALSE
    OBVIOUS
  <2> QED BY <1>4, QueuedPairs
<1>6. Cardinality({}) = 0
  BY FS_EmptySet
<1>7. sem + Held + Cardinality(Posting) = Cardinality(Queued)
  BY <1>1, <1>2, <1>5, <1>6
<1>8. SemaphoreCounts
  BY <1>7 DEF SemaphoreCounts, Held, Posting
<1> QED BY <1>2, <1>8 DEF Counts

\* Every step keeps the counts.
LEMMA CountsInductive == ASSUME IInv, Counts, [Next]_vars PROVE Counts'
<1>1. ASSUME UNCHANGED receiverVars PROVE Counts'
  <2>1. UNCHANGED <<config, worker, sem, recv, recvq>>
    BY <1>1 DEF receiverVars
  <2>2. Held' = Held
    BY <2>1 DEF Held
  <2> QED BY <2>1, <2>2, CountsFrame
<1>2. ASSUME NEW i \in Senders, SenderStep(i) \/ SendLoop(i) PROVE UNCHANGED receiverVars
  BY <1>2 DEF SenderStep, SendLoop, StartRpc, SendPart, SenderFinalize, SenderJoin, SendSize,
              SendData, SendEnd
<1>3. ASSUME NEW w \in Workers, RecvLoop(w) PROVE Counts'
  BY <1>3, CountsRead, CountsAddToQueue, CountsPost DEF RecvLoop
<1>4. CASE Recv
  BY <1>4, CountsWait, CountsScan, CountsTakeArray DEF Recv
<1>5. CASE Finalize
  BY <1>5, CountsFinalize
<1>6. CASE Terminated \/ UNCHANGED vars
  <2>1. UNCHANGED receiverVars
    BY <1>6 DEF Terminated, vars, receiverVars
  <2> QED BY <1>1, <2>1
<1> QED BY <1>1, <1>2, <1>3, <1>4, <1>5, <1>6 DEF Next

\* queue_sem_ counts the messages in the queues, whatever the threads interleave,
\* when every socket has a thread of its own.
THEOREM SemaphoreIsCount == Spec => []SemaphoreCounts
<1>1. Init => Counts
  BY CountsInitially
<1>2. IInv /\ Counts /\ [Next]_vars => Counts'
  BY CountsInductive
<1>3. Counts => SemaphoreCounts
  BY DEF Counts
<1> QED BY <1>1, <1>2, <1>3, Invariance, PTL DEF Spec
=============================================================================
