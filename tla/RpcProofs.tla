------------------------------ MODULE RpcProofs ------------------------------
(***************************************************************************)
(* Rpc never takes another call's reply, and a connection on which a call  *)
(* failed never answers again: proofs for every service and every range    *)
(* of the sequence number.  What the generated code writes it reads again, *)
(* from every peer: proofs for every struct, order of fields and depth.    *)
(***************************************************************************)
EXTENDS ThriftRpc, SequenceLemmas, TLAPS

\* The calls made after the one numbered a, up to the one numbered b.
Dist(a, b) == IF b >= a THEN b - a ELSE b - a + (MaxSeq - MinSeq + 1)

Answers == UNION {Bodies(n) : n \in Names}
AllBodies == Answers \cup {None}
Messages == [seq : Seqs, req : Requests]
Frames == [seq : Seqs, name : Names, kind : {"reply", "exception", "other"}, body : AllBodies]

TypeOK ==
    /\ pc \in {"closed", "connecting", "connected", "idle", "reading"}
    /\ up \in BOOLEAN /\ seq \in Seqs /\ gone \in Nat /\ rest \in BOOLEAN
    /\ failed \in BOOLEAN
    /\ sent \in Seq(Messages) /\ inbox \in Seq(Frames)

\* A connection works or has lost something; only a working one carries requests.
Lost == (up => gone = 0) /\ (~up => sent = <<>>)

\* Replies, then requests, are in the order of the calls, the last one numbered seq.
Numbered ==
    /\ Owed <= MaxOwed
    /\ \A i \in 1..Len(inbox) : Dist(inbox[i].seq, seq) = Owed - i
    /\ \A i \in 1..Len(sent) : Dist(sent[i].seq, seq) = Owed - Len(inbox) - i

\* The server answers each method with a body of its own.
BodiesFit ==
    \A i \in 1..Len(inbox) : inbox[i].kind = "reply" => inbox[i].body \in Bodies(inbox[i].name)

\* What the connection owes its caller, the rest of a frame included, is one
\* more than a caller without failures would find.
Debt == Owed + (IF rest THEN 1 ELSE 0)
Settled ==
    /\ pc \in {"closed", "connecting", "connected"} => ~failed /\ Debt = 0 /\ ~up
    /\ pc = "idle" => IF failed THEN Debt >= 1 ELSE Debt = 0
    /\ pc = "reading" => IF failed THEN Debt >= 2 ELSE Debt = 1 /\ ~rest
    /\ failed => result \notin Answered

RpcInv == TypeOK /\ Lost /\ Numbered /\ BodiesFit /\ Settled

-----------------------------------------------------------------------------
(* the sequence number *)

\* increment_sequence_number stays in the range of an i32.
LEMMA IncrementTyped ==
    ASSUME NEW b \in Seqs
    PROVE  IncrementSequenceNumber(b) \in Seqs
BY RpcAssumption DEF IncrementSequenceNumber, Seqs

\* One more call puts every earlier one a step further back, also across the wrap.
LEMMA OneFurther ==
    ASSUME NEW a \in Seqs, NEW b \in Seqs, Dist(a, b) < MaxSeq - MinSeq
    PROVE  Dist(a, IncrementSequenceNumber(b)) = Dist(a, b) + 1
BY RpcAssumption DEF IncrementSequenceNumber, Seqs, Dist

\* A call is no call behind itself.
LEMMA SameIsZero ==
    ASSUME NEW a \in Seqs
    PROVE  Dist(a, a) = 0
BY RpcAssumption DEF Seqs, Dist

-----------------------------------------------------------------------------
(* the initial state, opening *)

\* What the connection owes is a number.
LEMMA OwedTyped == TypeOK => Owed \in Nat
BY DEF TypeOK, Owed

\* A connection that carries nothing is in order.
LEMMA FreshNumbered ==
    ASSUME sent = <<>>, inbox = <<>>, gone = 0
    PROVE  Owed = 0 /\ Numbered /\ BodiesFit
<1>1. Owed = 0
  BY DEF Owed
<1>2. Len(inbox) = 0 /\ Len(sent) = 0
  OBVIOUS
<1> QED
  BY <1>1, <1>2, RpcAssumption DEF Numbered, BodiesFit

\* Nothing is owed before the connection is opened.
LEMMA InitEstablishes == Init => RpcInv
<1> SUFFICES ASSUME Init PROVE RpcInv
  OBVIOUS
<1>1. TypeOK
  <2>1. 0 \in Seqs
    BY RpcAssumption DEF Seqs
  <2>2. sent \in Seq(Messages) /\ inbox \in Seq(Frames)
    BY DEF Init
  <2> QED
    BY <2>1, <2>2 DEF Init, TypeOK
<1>2. Lost
  BY DEF Init, Lost
<1>3. Owed = 0 /\ Numbered /\ BodiesFit
  BY FreshNumbered DEF Init
<1>4. Settled
  BY <1>3 DEF Init, Settled, Debt, Answered
<1> QED
  BY <1>1, <1>2, <1>3, <1>4 DEF RpcInv

\* Opening replaces the connection, and what it owed with it.
LEMMA OpenKeeps == RpcInv /\ Open => RpcInv'
<1> SUFFICES ASSUME RpcInv, Open PROVE RpcInv'
  OBVIOUS
<1>1. TypeOK'
  <2>1. 0 \in Seqs
    BY RpcAssumption DEF Seqs
  <2>2. sent' \in Seq(Messages) /\ inbox' \in Seq(Frames)
    <3>1. sent' = <<>> /\ inbox' = <<>>
      BY DEF Open
    <3> QED
      BY <3>1
  <2> QED
    BY <2>1, <2>2 DEF Open, TypeOK
<1>2. Lost'
  BY DEF Open, Lost
<1>3. Owed' = 0
  BY DEF Open, Owed
<1>4. Len(inbox') = 0 /\ Len(sent') = 0
  BY DEF Open
<1>5. Numbered' /\ BodiesFit'
  BY <1>3, <1>4, RpcAssumption DEF Numbered, BodiesFit
<1>6. Settled'
  BY <1>3 DEF Open, Settled, Debt, Answered
<1> QED
  BY <1>1, <1>2, <1>5, <1>6 DEF RpcInv

\* The wire as a whole.
LEMMA WireUnchanged ==
    ASSUME RpcInv, UNCHANGED <<seq, wire>>
    PROVE  Owed' = Owed /\ Debt' = Debt /\ Numbered' /\ BodiesFit'
<1>1. UNCHANGED <<seq, sent, inbox, gone, rest>>
  BY DEF wire
<1>2. Owed' = Owed
  BY <1>1 DEF Owed
<1>3. Debt' = Debt
  BY <1>1, <1>2 DEF Debt
<1>4. Numbered'
  BY <1>1, <1>2 DEF Numbered, RpcInv
<1>5. BodiesFit'
  BY <1>1 DEF BodiesFit, RpcInv
<1> QED
  BY <1>2, <1>3, <1>4, <1>5

\* Connecting, address by address, and setting up the stream.
LEMMA ConnectKeeps == RpcInv /\ (ConnectAddr \/ SetUp) => RpcInv'
<1> SUFFICES ASSUME RpcInv, ConnectAddr \/ SetUp PROVE RpcInv'
  OBVIOUS
<1>1. UNCHANGED <<seq, wire, failed>> /\ UNCHANGED <<sent, inbox, gone, rest>>
  BY DEF ConnectAddr, SetUp, wire
<1>2. Owed' = Owed /\ Debt' = Debt /\ Numbered' /\ BodiesFit'
  BY <1>1, WireUnchanged
<1>3. pc \in {"connecting", "connected"} /\ ~failed /\ Debt = 0 /\ ~up
  BY DEF ConnectAddr, SetUp, RpcInv, Settled
<1>4. Owed = 0 /\ ~rest /\ gone = 0
  BY <1>3, OwedTyped DEF Debt, Owed, RpcInv, TypeOK
<1>5. \/ pc' \in {"closed", "connecting", "connected"} /\ up' = up
      \/ pc' = "idle" /\ up' = TRUE
  BY <1>3 DEF ConnectAddr, SetUp
<1>6. sent = <<>>
  BY <1>3 DEF RpcInv, Lost
<1>7. TypeOK'
  BY <1>1, <1>5 DEF RpcInv, TypeOK
<1>8. Lost'
  BY <1>1, <1>4, <1>6 DEF Lost
<1>9. Settled'
  <2>1. CASE pc' \in {"closed", "connecting", "connected"} /\ up' = up
    BY <2>1, <1>1, <1>2, <1>3 DEF Settled
  <2>2. CASE pc' = "idle"
    BY <2>2, <1>1, <1>2, <1>3 DEF Settled
  <2> QED
    BY <1>5, <2>1, <2>2
<1> QED
  BY <1>2, <1>7, <1>8, <1>9 DEF RpcInv

-----------------------------------------------------------------------------
(* a call *)

\* A call adds one debt, behind all others.
LEMMA CallKeeps ==
    ASSUME NEW r \in Requests, RpcInv, Call(r)
    PROVE  RpcInv'
<1>1. /\ pc = "idle" /\ Owed < MaxOwed /\ seq' = IncrementSequenceNumber(seq)
      /\ up' = up /\ inbox' = inbox /\ rest' = rest
  BY DEF Call
<1>2. TypeOK /\ Lost /\ Numbered /\ BodiesFit /\ Settled /\ Owed \in Nat
  BY OwedTyped DEF RpcInv
<1>3. seq \in Seqs /\ seq' \in Seqs
  BY <1>1, <1>2, IncrementTyped DEF TypeOK
<1>4. ASSUME NEW i \in 1..Len(inbox)
      PROVE  Dist(inbox[i].seq, seq') = Owed + 1 - i
  <2>1. inbox[i] \in Frames
    BY <1>2 DEF TypeOK
  <2>2. inbox[i].seq \in Seqs
    BY <2>1 DEF Frames
  <2>3. Dist(inbox[i].seq, seq) = Owed - i
    BY <1>2 DEF Numbered
  <2>4. Dist(inbox[i].seq, seq) < MaxSeq - MinSeq
    BY <2>3, <1>1, <1>2, RpcAssumption
  <2>5. Dist(inbox[i].seq, seq') = Dist(inbox[i].seq, seq) + 1
    BY <2>2, <2>4, <1>1, <1>3, OneFurther
  <2> QED
    BY <2>3, <2>5, <1>2
<1>5. ASSUME NEW i \in 1..Len(sent)
      PROVE  Dist(sent[i].seq, seq') = Owed + 1 - Len(inbox) - i
  <2>1. sent[i] \in Messages
    BY <1>2 DEF TypeOK
  <2>2. sent[i].seq \in Seqs
    BY <2>1 DEF Messages
  <2>3. Dist(sent[i].seq, seq) = Owed - Len(inbox) - i /\ Len(inbox) \in Nat
    BY <1>2 DEF Numbered, TypeOK
  <2>4. Dist(sent[i].seq, seq) < MaxSeq - MinSeq
    BY <2>3, <1>1, <1>2, RpcAssumption
  <2>5. Dist(sent[i].seq, seq') = Dist(sent[i].seq, seq) + 1
    BY <2>2, <2>4, <1>1, <1>3, OneFurther
  <2> QED
    BY <2>3, <2>5, <1>2
<1>6. BodiesFit'
  BY <1>1, <1>2 DEF BodiesFit
<1>7. CASE up
  <2>1. /\ sent' = Append(sent, [seq |-> seq', req |-> r])
        /\ pc' = "reading" /\ result' = "none" /\ UNCHANGED <<gone, failed>>
    BY <1>7 DEF Call, Flush
  <2>2. sent' \in Seq(Messages) /\ Len(sent') = Len(sent) + 1
    <3>1. [seq |-> seq', req |-> r] \in Messages
      BY <1>3 DEF Messages
    <3> QED
      BY <3>1, <2>1, <1>2 DEF TypeOK
  <2>3. gone = 0
    BY <1>2, <1>7 DEF Lost
  <2>4. Owed' = Owed + 1
    BY <2>1, <2>2, <1>1, <1>2 DEF Owed, TypeOK
  <2>5. TypeOK'
    BY <2>1, <2>2, <1>1, <1>2, <1>3 DEF TypeOK
  <2>6. Lost'
    BY <2>1, <2>3, <1>1, <1>7 DEF Lost
  <2>7. Numbered'
    <3>1. Owed' <= MaxOwed
      BY <2>4, <1>1, <1>2, RpcAssumption
    <3>2. ASSUME NEW i \in 1..Len(inbox')
          PROVE  Dist(inbox'[i].seq, seq') = Owed' - i
      BY <1>1, <1>2, <1>4, <2>4
    <3>3. ASSUME NEW i \in 1..Len(sent')
          PROVE  Dist(sent'[i].seq, seq') = Owed' - Len(inbox') - i
      <4>1. CASE i = Len(sent) + 1
        <5>1. sent'[i] = [seq |-> seq', req |-> r]
          BY <4>1, <2>1, <1>2 DEF TypeOK
        <5>2. Dist(sent'[i].seq, seq') = 0
          BY <5>1, <1>3, SameIsZero
        <5>3. Owed' - Len(inbox') - i = 0
          BY <4>1, <2>3, <2>4, <1>1, <1>2 DEF Owed, TypeOK
        <5> QED
          BY <5>2, <5>3
      <4>2. CASE i # Len(sent) + 1
        <5>1. i \in 1..Len(sent)
          BY <4>2, <2>2, <1>2 DEF TypeOK
        <5>2. sent'[i] = sent[i]
          BY <5>1, <2>1, <1>2 DEF TypeOK
        <5> QED
          BY <5>1, <5>2, <1>1, <1>2, <1>5, <2>4
      <4> QED
        BY <4>1, <4>2
    <3> QED
      BY <3>1, <3>2, <3>3 DEF Numbered
  <2>8. Debt' = Debt + 1
    BY <2>4, <1>1, <1>2 DEF Debt
  <2>9. Settled'
    BY <2>1, <2>8, <1>1, <1>2 DEF Settled, Debt, Answered
  <2> QED
    BY <1>6, <2>5, <2>6, <2>7, <2>9 DEF RpcInv
<1>8. CASE ~up
  <2>1. /\ gone' = gone + 1 /\ sent' = sent
        /\ \/ pc' = "reading" /\ result' = "none" /\ failed' = failed
           \/ pc' = "idle" /\ result' = "transport" /\ failed' = TRUE
    BY <1>8 DEF Call
  <2>2. sent = <<>> /\ Len(sent) = 0
    BY <1>2, <1>8 DEF Lost
  <2>3. Owed' = Owed + 1
    BY <2>1, <1>1, <1>2 DEF Owed, TypeOK
  <2>4. TypeOK'
    <3>1. pc' \in {"idle", "reading"} /\ failed' \in BOOLEAN
      BY <2>1, <1>2 DEF TypeOK
    <3> QED
      BY <3>1, <2>1, <1>1, <1>2, <1>3 DEF TypeOK
  <2>5. Lost'
    BY <2>1, <2>2, <1>1, <1>8 DEF Lost
  <2>6. Numbered'
    <3>1. Owed' <= MaxOwed
      BY <2>3, <1>1, <1>2, RpcAssumption
    <3>2. ASSUME NEW i \in 1..Len(inbox')
          PROVE  Dist(inbox'[i].seq, seq') = Owed' - i
      BY <1>1, <1>2, <1>4, <2>3
    <3>3. Len(sent') = 0
      BY <2>1, <2>2
    <3> QED
      BY <3>1, <3>2, <3>3 DEF Numbered
  <2>7. Debt' = Debt + 1 /\ Debt \in Nat
    BY <2>3, <1>1, <1>2 DEF Debt
  <2>8. Settled'
    <3>1. CASE pc' = "reading" /\ result' = "none" /\ failed' = failed
      BY <3>1, <2>7, <1>1, <1>2 DEF Settled, Debt, Answered
    <3>2. CASE pc' = "idle" /\ result' = "transport" /\ failed' = TRUE
      BY <3>2, <2>7, <1>1, <1>2 DEF Settled, Answered
    <3> QED
      BY <2>1, <3>1, <3>2
  <2> QED
    BY <1>6, <2>4, <2>5, <2>6, <2>8 DEF RpcInv
<1> QED
  BY <1>7, <1>8

\* The server takes the oldest request and answers behind the earlier replies.
LEMMA ServeKeeps == RpcInv /\ Serve => RpcInv'
<1> SUFFICES ASSUME RpcInv, Serve PROVE RpcInv'
  OBVIOUS
<1>1. /\ up /\ sent # <<>> /\ sent' = Tail(sent)
      /\ pc' = pc /\ up' = up /\ seq' = seq /\ gone' = gone /\ rest' = rest
      /\ result' = result /\ failed' = failed
  BY DEF Serve
<1>2. TypeOK /\ Lost /\ Numbered /\ BodiesFit /\ Settled /\ Owed \in Nat
  BY OwedTyped DEF RpcInv
<1>3. PICK f : /\ inbox' = Append(inbox, f) /\ f.seq = Head(sent).seq /\ f \in Frames
               /\ f.kind = "reply" => f.body \in Bodies(f.name)
  <2>1. Head(sent) \in Messages
    BY <1>1, <1>2 DEF TypeOK
  <2>2. Head(sent).seq \in Seqs /\ Head(sent).req \in Requests /\ Head(sent).req.name \in Names
    BY <2>1 DEF Messages, Names
  <2> DEFINE reply(kind, body) ==
        [seq |-> Head(sent).seq, name |-> Head(sent).req.name, kind |-> kind, body |-> body]
  <2>3. \/ \E b \in Bodies(Head(sent).req.name) : inbox' = Append(inbox, reply("reply", b))
        \/ \E kind \in {"exception", "other"} : inbox' = Append(inbox, reply(kind, None))
    BY DEF Serve
  <2>4. ASSUME NEW kind \in {"exception", "other"}, inbox' = Append(inbox, reply(kind, None))
        PROVE  \E f : /\ inbox' = Append(inbox, f) /\ f.seq = Head(sent).seq /\ f \in Frames
                      /\ f.kind = "reply" => f.body \in Bodies(f.name)
    <3>1. None \in AllBodies
      BY DEF AllBodies
    <3>2. reply(kind, None) \in Frames
      BY <2>2, <3>1 DEF Frames
    <3>3. reply(kind, None).kind # "reply" /\ reply(kind, None).seq = Head(sent).seq
      OBVIOUS
    <3> HIDE DEF reply
    <3> QED
      BY <2>4, <3>2, <3>3
  <2>5. ASSUME NEW b \in Bodies(Head(sent).req.name), inbox' = Append(inbox, reply("reply", b))
        PROVE  \E f : /\ inbox' = Append(inbox, f) /\ f.seq = Head(sent).seq /\ f \in Frames
                      /\ f.kind = "reply" => f.body \in Bodies(f.name)
    <3>1. b \in AllBodies
      BY <2>2 DEF AllBodies, Answers
    <3>2. reply("reply", b) \in Frames
      BY <2>2, <3>1 DEF Frames
    <3>3. reply("reply", b).body \in Bodies(reply("reply", b).name)
      OBVIOUS
    <3>4. reply("reply", b).seq = Head(sent).seq
      OBVIOUS
    <3> HIDE DEF reply
    <3> QED
      BY <2>5, <3>2, <3>3, <3>4
  <2> QED
    BY <2>3, <2>4, <2>5
<1>4. /\ inbox' \in Seq(Frames) /\ Len(inbox') = Len(inbox) + 1
      /\ sent' \in Seq(Messages) /\ Len(sent') = Len(sent) - 1
      /\ Len(sent) \in Nat \ {0} /\ Len(inbox) \in Nat
  BY <1>1, <1>2, <1>3 DEF TypeOK
<1>5. Owed' = Owed /\ Debt' = Debt
  <2>1. Owed' = Owed
    BY <1>1, <1>2, <1>4 DEF Owed, TypeOK
  <2> QED
    BY <2>1, <1>1 DEF Debt
<1>6. TypeOK'
  BY <1>1, <1>2, <1>4 DEF TypeOK
<1>7. Lost'
  BY <1>1, <1>2 DEF Lost
<1>8. Numbered'
  <2>1. Owed' <= MaxOwed
    BY <1>2, <1>5 DEF Numbered
  <2>2. ASSUME NEW i \in 1..Len(inbox')
        PROVE  Dist(inbox'[i].seq, seq') = Owed' - i
    <3>1. CASE i = Len(inbox) + 1
      <4>1. inbox'[i] = f
        BY <3>1, <1>2, <1>3 DEF TypeOK
      <4>2. Head(sent) = sent[1] /\ 1 \in 1..Len(sent)
        BY <1>1, <1>2, <1>4 DEF TypeOK
      <4>3. Dist(sent[1].seq, seq) = Owed - Len(inbox) - 1
        BY <4>2, <1>2 DEF Numbered
      <4> QED
        BY <3>1, <4>1, <4>2, <4>3, <1>1, <1>2, <1>3, <1>4, <1>5
    <3>2. CASE i # Len(inbox) + 1
      <4>1. i \in 1..Len(inbox)
        BY <3>2, <1>4
      <4>2. inbox'[i] = inbox[i]
        BY <4>1, <1>2, <1>3 DEF TypeOK
      <4>3. Dist(inbox[i].seq, seq) = Owed - i
        BY <4>1, <1>2 DEF Numbered
      <4> QED
        BY <4>2, <4>3, <1>1, <1>5
    <3> QED
      BY <3>1, <3>2
  <2>3. ASSUME NEW i \in 1..Len(sent')
        PROVE  Dist(sent'[i].seq, seq') = Owed' - Len(inbox') - i
    <3>1. i + 1 \in 1..Len(sent)
      BY <1>4
    <3>2. sent'[i] = sent[i + 1]
      BY <1>1, <1>2, <1>4 DEF TypeOK
    <3>3. Dist(sent[i + 1].seq, seq) = Owed - Len(inbox) - (i + 1)
      BY <3>1, <1>2 DEF Numbered
    <3> QED
      BY <3>2, <3>3, <1>1, <1>2, <1>4, <1>5
  <2> QED
    BY <2>1, <2>2, <2>3 DEF Numbered
<1>9. BodiesFit'
  <2> SUFFICES ASSUME NEW i \in 1..Len(inbox'), inbox'[i].kind = "reply"
               PROVE  inbox'[i].body \in Bodies(inbox'[i].name)
    BY DEF BodiesFit
  <2>1. CASE i = Len(inbox) + 1
    <3>1. inbox'[i] = f
      BY <2>1, <1>2, <1>3 DEF TypeOK
    <3> QED
      BY <3>1, <1>3
  <2>2. CASE i # Len(inbox) + 1
    <3>1. i \in 1..Len(inbox)
      BY <2>2, <1>4
    <3>2. inbox'[i] = inbox[i]
      BY <3>1, <1>2, <1>3 DEF TypeOK
    <3> QED
      BY <3>1, <3>2, <1>2 DEF BodiesFit
  <2> QED
    BY <2>1, <2>2
<1>10. Settled'
  BY <1>1, <1>2, <1>5 DEF Settled
<1> QED
  BY <1>6, <1>7, <1>8, <1>9, <1>10 DEF RpcInv

-----------------------------------------------------------------------------
(* reading *)

\* Taking the oldest frame settles one debt and moves the others up.
LEMMA TakeFrame ==
    ASSUME RpcInv, inbox # <<>>, inbox' = Tail(inbox), seq' = seq, sent' = sent, gone' = gone
    PROVE  /\ inbox' \in Seq(Frames) /\ Owed' = Owed - 1 /\ Owed \in Nat \ {0}
           /\ Numbered' /\ BodiesFit'
<1>1. TypeOK /\ Numbered /\ BodiesFit /\ Owed \in Nat
  BY OwedTyped DEF RpcInv
<1>2. /\ inbox' \in Seq(Frames) /\ Len(inbox') = Len(inbox) - 1
      /\ Len(inbox) \in Nat \ {0} /\ Len(sent) \in Nat
  BY <1>1 DEF TypeOK
<1>3. Owed' = Owed - 1 /\ Owed > 0
  BY <1>1, <1>2 DEF Owed, TypeOK
<1>4. ASSUME NEW i \in 1..Len(inbox')
      PROVE  i + 1 \in 1..Len(inbox) /\ inbox'[i] = inbox[i + 1]
  BY <1>1, <1>2 DEF TypeOK
<1>5. Numbered'
  <2>1. Owed' <= MaxOwed
    BY <1>1, <1>3, RpcAssumption DEF Numbered
  <2>2. ASSUME NEW i \in 1..Len(inbox')
        PROVE  Dist(inbox'[i].seq, seq') = Owed' - i
    <3>1. Dist(inbox[i + 1].seq, seq) = Owed - (i + 1)
      BY <1>1, <1>4 DEF Numbered
    <3> QED
      BY <3>1, <1>1, <1>3, <1>4
  <2>3. ASSUME NEW i \in 1..Len(sent')
        PROVE  Dist(sent'[i].seq, seq') = Owed' - Len(inbox') - i
    <3>1. Dist(sent[i].seq, seq) = Owed - Len(inbox) - i
      BY <1>1 DEF Numbered
    <3> QED
      BY <3>1, <1>1, <1>2, <1>3
  <2> QED
    BY <2>1, <2>2, <2>3 DEF Numbered
<1>6. BodiesFit'
  BY <1>1, <1>4 DEF BodiesFit
<1> QED
  BY <1>1, <1>2, <1>3, <1>5, <1>6

\* The expected reply is the only thing owed: it answers the last call.
LEMMA ExpectedIsLast ==
    ASSUME RpcInv, inbox # <<>>, Expected(Head(inbox))
    PROVE  Owed = 1
<1>1. TypeOK /\ Numbered /\ Owed \in Nat
  BY OwedTyped DEF RpcInv
<1>2. Head(inbox) = inbox[1] /\ 1 \in 1..Len(inbox) /\ seq \in Seqs
  BY <1>1 DEF TypeOK
<1>3. Dist(inbox[1].seq, seq) = Owed - 1
  BY <1>1, <1>2 DEF Numbered
<1>4. Dist(inbox[1].seq, seq) = 0
  BY <1>2, SameIsZero DEF Expected
<1> QED
  BY <1>1, <1>3, <1>4

\* Reading a reply: the call's own, or a failure that leaves the debt as it was.
LEMMA ReadReplyKeeps == RpcInv /\ ReadReply => RpcInv'
<1> SUFFICES ASSUME RpcInv, ReadReply PROVE RpcInv'
  OBVIOUS
<1>1. /\ pc = "reading" /\ ~rest /\ inbox # <<>> /\ inbox' = Tail(inbox) /\ pc' = "idle"
      /\ up' = up /\ seq' = seq /\ sent' = sent /\ gone' = gone
  BY DEF ReadReply
<1>2. TypeOK /\ Lost /\ Settled
  BY DEF RpcInv
<1>3. /\ inbox' \in Seq(Frames) /\ Owed' = Owed - 1 /\ Owed \in Nat \ {0}
      /\ Numbered' /\ BodiesFit'
  BY <1>1, TakeFrame
<1>4. Lost'
  BY <1>1, <1>2 DEF Lost
<1> DEFINE f == Head(inbox)
           d == Decode(f.name, f.body)
<1>5. Debt = Owed
  BY <1>1, <1>3 DEF Debt
<1>6. CASE ~Expected(f) \/ f.kind \notin {"exception", "reply"}
  <2>1. result' = "mismatch" /\ rest' = TRUE /\ failed' = TRUE
    BY <1>6 DEF ReadReply
  <2>2. TypeOK'
    BY <2>1, <1>1, <1>2, <1>3 DEF TypeOK
  <2>3. Debt' >= 1
    BY <2>1, <1>3 DEF Debt
  <2>4. Settled'
    BY <2>1, <2>3, <1>1 DEF Settled, Answered
  <2> QED
    BY <2>2, <2>4, <1>3, <1>4 DEF RpcInv
<1>7. CASE Expected(f) /\ f.kind = "exception"
  <2>1. result' = "exception" /\ rest' = rest /\ failed' = failed
    BY <1>7 DEF ReadReply
  <2>2. Owed = 1
    BY <1>1, <1>7, ExpectedIsLast
  <2>3. ~failed
    BY <2>2, <1>1, <1>2, <1>5 DEF Settled
  <2>4. TypeOK'
    BY <2>1, <1>1, <1>2, <1>3 DEF TypeOK
  <2>5. Debt' = 0
    BY <2>1, <2>2, <1>1, <1>3 DEF Debt
  <2>6. Settled'
    BY <2>1, <2>3, <2>5, <1>1 DEF Settled
  <2> QED
    BY <2>4, <2>6, <1>3, <1>4 DEF RpcInv
<1>8. CASE Expected(f) /\ f.kind = "reply"
  <2>1. /\ result' = d.st /\ rest' = d.left
        /\ failed' = (failed \/ d.st = "undecodable")
    BY <1>8 DEF ReadReply
  <2>2. Owed = 1
    BY <1>1, <1>8, ExpectedIsLast
  <2>3. ~failed
    BY <2>2, <1>1, <1>2, <1>5 DEF Settled
  <2>4. d.st \in {"ok", "missing", "undecodable"} /\ d.left = (d.st = "undecodable")
    <3>1. f = inbox[1] /\ 1 \in 1..Len(inbox) /\ f \in Frames
      BY <1>1, <1>2 DEF TypeOK
    <3>2. f.name \in Names
      BY <3>1 DEF Frames
    <3>3. f.body \in Bodies(f.name)
      BY <3>1, <1>8 DEF RpcInv, BodiesFit
    <3> QED
      BY <3>2, <3>3, RpcAssumption
  <2> HIDE DEF d
  <2>5. CASE d.st = "undecodable"
    <3>1. result' = "undecodable" /\ rest' = TRUE /\ failed' = TRUE
      BY <2>1, <2>4, <2>5
    <3>2. TypeOK'
      BY <3>1, <1>1, <1>2, <1>3 DEF TypeOK
    <3>3. Debt' >= 1
      BY <3>1, <1>3 DEF Debt
    <3>4. Settled'
      BY <3>1, <3>3, <1>1 DEF Settled, Answered
    <3> QED
      BY <3>2, <3>4, <1>3, <1>4 DEF RpcInv
  <2>6. CASE d.st # "undecodable"
    <3>1. rest' = FALSE /\ failed' = FALSE
      BY <2>1, <2>3, <2>4, <2>6
    <3>2. TypeOK'
      BY <3>1, <1>1, <1>2, <1>3 DEF TypeOK
    <3>3. Debt' = 0
      BY <3>1, <2>2, <1>3 DEF Debt
    <3>4. Settled'
      BY <3>1, <3>3, <1>1 DEF Settled
    <3> QED
      BY <3>2, <3>4, <1>3, <1>4 DEF RpcInv
  <2> QED
    BY <2>5, <2>6
<1> QED
  BY <1>6, <1>7, <1>8 DEF ReadReply

\* Reading what an earlier call left gives up with part of the debt still open.
LEMMA ReadRestKeeps == RpcInv /\ ReadRest => RpcInv'
<1> SUFFICES ASSUME RpcInv, ReadRest PROVE RpcInv'
  OBVIOUS
<1>1. /\ pc = "reading" /\ rest /\ pc' = "idle" /\ result' = "mismatch" /\ failed' = TRUE
      /\ up' = up /\ seq' = seq /\ sent' = sent /\ gone' = gone /\ inbox' = inbox /\ rest' \in BOOLEAN
  BY DEF ReadRest
<1>2. TypeOK /\ Lost /\ Settled /\ Owed \in Nat
  BY OwedTyped DEF RpcInv
<1>3. failed /\ Debt >= 2
  BY <1>1, <1>2 DEF Settled
<1>4. Owed >= 1
  BY <1>1, <1>2, <1>3 DEF Debt
<1>5. Lost'
  BY <1>1, <1>2 DEF Lost
<1>6. Owed' = Owed
  BY <1>1 DEF Owed
<1>7. Numbered' /\ BodiesFit'
  BY <1>1, <1>6 DEF RpcInv, Numbered, BodiesFit
<1>8. Debt' >= 1
  BY <1>2, <1>4, <1>6 DEF Debt
<1>9. Settled'
  BY <1>1, <1>8 DEF Settled, Answered
<1>10. TypeOK'
  BY <1>1, <1>2 DEF TypeOK
<1> QED
  BY <1>5, <1>7, <1>9, <1>10 DEF RpcInv

\* Reading on into the next frame leaves the rest of that one.
LEMMA ReadOverKeeps == RpcInv /\ ReadOver => RpcInv'
<1> SUFFICES ASSUME RpcInv, ReadOver PROVE RpcInv'
  OBVIOUS
<1>1. /\ pc = "reading" /\ rest /\ pc' = "idle" /\ result' = "mismatch" /\ failed' = TRUE
      /\ up' = up /\ seq' = seq /\ sent' = sent /\ gone' = gone
      /\ inbox # <<>> /\ inbox' = Tail(inbox) /\ rest' = rest
  BY DEF ReadOver
<1>2. TypeOK /\ Lost
  BY DEF RpcInv
<1>3. Lost'
  BY <1>1, <1>2 DEF Lost
<1>4. /\ inbox' \in Seq(Frames) /\ Owed' = Owed - 1 /\ Owed \in Nat \ {0}
      /\ Numbered' /\ BodiesFit'
  BY <1>1, TakeFrame
<1>5. Debt' >= 1
  BY <1>1, <1>4 DEF Debt
<1>6. Settled'
  BY <1>1, <1>5 DEF Settled, Answered
<1>7. TypeOK'
  BY <1>1, <1>2, <1>4 DEF TypeOK
<1> QED
  BY <1>3, <1>4, <1>6, <1>7 DEF RpcInv

\* The end of the stream leaves the debt of a lost connection.
LEMMA ReadEofKeeps == RpcInv /\ ReadEof => RpcInv'
<1> SUFFICES ASSUME RpcInv, ReadEof PROVE RpcInv'
  OBVIOUS
<1>1. /\ pc = "reading" /\ pc' = "idle" /\ result' = "transport" /\ failed' = TRUE
      /\ up' = up /\ seq' = seq /\ UNCHANGED wire
      /\ sent' = sent /\ inbox' = inbox /\ gone' = gone /\ rest' = rest
  BY DEF ReadEof, wire
<1>2. TypeOK /\ Lost /\ Settled /\ Owed \in Nat
  BY OwedTyped DEF RpcInv
<1>3. Debt' = Debt /\ Numbered' /\ BodiesFit'
  BY <1>1, WireUnchanged
<1>4. Debt >= 1
  BY <1>1, <1>2 DEF Settled, Debt
<1>5. Settled'
  BY <1>1, <1>3, <1>4 DEF Settled, Answered
<1>6. Lost'
  BY <1>1, <1>2 DEF Lost
<1>7. TypeOK'
  BY <1>1, <1>2 DEF TypeOK
<1> QED
  BY <1>3, <1>5, <1>6, <1>7 DEF RpcInv

\* A break loses messages, never the debt for them.
LEMMA BreakKeeps == RpcInv /\ Break => RpcInv'
<1> SUFFICES ASSUME RpcInv, Break PROVE RpcInv'
  OBVIOUS
<1>1. /\ up /\ up' = FALSE /\ sent' = <<>>
      /\ pc' = pc /\ seq' = seq /\ rest' = rest /\ result' = result /\ failed' = failed
  BY DEF Break
<1>2. PICK k \in 0..Len(inbox) : /\ inbox' = SubSeq(inbox, 1, k)
                                 /\ gone' = gone + Len(sent) + (Len(inbox) - k)
  BY DEF Break
<1>3. TypeOK /\ Lost /\ Numbered /\ BodiesFit /\ Settled /\ Owed \in Nat
  BY OwedTyped DEF RpcInv
<1>4. /\ inbox' \in Seq(Frames) /\ Len(inbox') = k /\ k \in Nat /\ Len(inbox) \in Nat
      /\ \A i \in 1..k : inbox'[i] = inbox[i] /\ i \in 1..Len(inbox)
  BY <1>2, <1>3 DEF TypeOK
<1>5. Len(sent') = 0 /\ sent' \in Seq(Messages) /\ gone' \in Nat
  BY <1>1, <1>2, <1>3, <1>4 DEF TypeOK
<1>6. Owed' = Owed /\ Debt' = Debt
  <2>1. Owed' = Owed
    BY <1>2, <1>3, <1>4, <1>5 DEF Owed, TypeOK
  <2> QED
    BY <2>1, <1>1 DEF Debt
<1>7. Numbered'
  BY <1>1, <1>3, <1>4, <1>5, <1>6 DEF Numbered
<1>8. BodiesFit'
  BY <1>3, <1>4 DEF BodiesFit
<1>9. Lost'
  BY <1>1 DEF Lost
<1>10. Settled'
  BY <1>1, <1>3, <1>6 DEF Settled
<1>11. TypeOK'
  BY <1>1, <1>3, <1>4, <1>5 DEF TypeOK
<1> QED
  BY <1>7, <1>8, <1>9, <1>10, <1>11 DEF RpcInv

-----------------------------------------------------------------------------
(* the theorems *)

\* A step that changes nothing.
LEMMA StutterKeeps == RpcInv /\ UNCHANGED vars => RpcInv'
<1> SUFFICES ASSUME RpcInv, UNCHANGED vars PROVE RpcInv'
  OBVIOUS
<1>1. /\ UNCHANGED <<seq, wire>> /\ pc' = pc /\ up' = up /\ seq' = seq /\ result' = result
      /\ failed' = failed /\ sent' = sent /\ inbox' = inbox /\ gone' = gone /\ rest' = rest
  BY DEF vars, wire
<1>2. Debt' = Debt /\ Numbered' /\ BodiesFit'
  BY <1>1, WireUnchanged
<1>3. Settled' /\ Lost'
  BY <1>1, <1>2 DEF RpcInv, Settled, Lost
<1>4. TypeOK'
  BY <1>1 DEF RpcInv, TypeOK
<1> QED
  BY <1>2, <1>3, <1>4 DEF RpcInv

\* The inductive invariant: replies come in the order of the calls, and a
\* connection owes exactly what its last call waits for unless a call failed.
THEOREM RpcInvariant == Spec => []RpcInv
<1>1. ASSUME RpcInv, [Next]_vars
      PROVE  RpcInv'
  <2>1. CASE Open
    BY <1>1, <2>1, OpenKeeps
  <2>2. CASE ConnectAddr \/ SetUp
    BY <1>1, <2>2, ConnectKeeps
  <2>3. ASSUME NEW r \in Requests, Call(r)
        PROVE  RpcInv'
    BY <1>1, <2>3, CallKeeps
  <2>4. CASE Serve
    BY <1>1, <2>4, ServeKeeps
  <2>5. CASE ReadReply
    BY <1>1, <2>5, ReadReplyKeeps
  <2>6. CASE ReadRest
    BY <1>1, <2>6, ReadRestKeeps
  <2>7. CASE ReadEof
    BY <1>1, <2>7, ReadEofKeeps
  <2>8. CASE ReadOver
    BY <1>1, <2>8, ReadOverKeeps
  <2>9. CASE Break
    BY <1>1, <2>9, BreakKeeps
  <2>10. CASE UNCHANGED vars
    BY <1>1, <2>10, StutterKeeps
  <2> QED
    BY <1>1, <2>1, <2>2, <2>3, <2>4, <2>5, <2>6, <2>7, <2>8, <2>9, <2>10 DEF Next, ReadStep
<1> QED
  BY <1>1, InitEstablishes, PTL DEF Spec

\* verify_expected_sequence_number is enough: whatever the network loses and
\* wherever the i32 wraps, a call that returns an answer took its own reply, and
\* nothing of it or of an earlier call is left on the connection.
THEOREM OwnReplyOnly == Spec => []TakesOwnReply
<1>1. RpcInv => TakesOwnReply
  <2> SUFFICES ASSUME RpcInv, pc = "idle", result \in Answered
               PROVE  Owed = 0 /\ ~rest
    BY DEF TakesOwnReply
  <2>1. ~failed /\ Debt = 0 /\ Owed \in Nat
    BY OwedTyped DEF RpcInv, Settled
  <2> QED
    BY <2>1 DEF Debt
<1> QED
  BY <1>1, RpcInvariant, PTL

\* A connection on which a call failed never gives another answer.
THEOREM FailureStays == Spec => []FailureIsFinal
<1>1. RpcInv => FailureIsFinal
  BY DEF RpcInv, Settled, FailureIsFinal
<1> QED
  BY <1>1, RpcInvariant, PTL

-----------------------------------------------------------------------------
(* the recursive functions satisfy their equations *)

\* Each of the codec's functions, one level from the level below it.
TypedLevel(d, prev) ==
    [type \in Universe |-> [v \in Universe |-> IF d = 0 THEN FALSE ELSE TypedBy(prev, type, v)]]

\* Typed is what its definition says, level by level; so are the others.
LEMMA TypedEquation ==
    Typed = [d \in 0..MaxDepth |-> TypedLevel(d, Typed[d - 1])]
<1> DEFINE Lev(d, x) == TypedLevel(d, x)
           Solves(f, n) == f = [d \in 0..n |-> Lev(d, f[d - 1])]
           Good == {n \in Nat : \E f : Solves(f, n)}
<1>0. \A x, y : Lev(0, x) = Lev(0, y)
    BY DEF TypedLevel
<1> HIDE DEF Lev
<1>1. 0 \in Good
    <2> DEFINE f == [d \in 0..0 |-> Lev(0, 0)]
    <2>1. \A d \in 0..0 : d = 0
        OBVIOUS
    <2>2. f = [d \in 0..0 |-> Lev(d, f[d - 1])]
        BY <1>0, <2>1
    <2> QED BY <2>2
<1>2. ASSUME NEW n \in Nat, n \in Good PROVE n + 1 \in Good
    <2>1. PICK f : Solves(f, n)
        BY <1>2
    <2> DEFINE g == [d \in 0..(n + 1) |-> IF d = n + 1 THEN Lev(d, f[n]) ELSE f[d]]
    <2>2. ASSUME NEW d \in 0..(n + 1) PROVE g[d] = Lev(d, g[d - 1])
        <3>1. CASE d = n + 1
            <4>1. d - 1 = n /\ n \in 0..(n + 1) /\ n # n + 1
                BY <3>1
            <4> QED BY <3>1, <4>1
        <3>2. CASE d # n + 1 /\ d # 0
            <4>1. d \in 0..n /\ d - 1 \in 0..(n + 1) /\ d - 1 # n + 1
                BY <3>2
            <4> QED BY <2>1, <3>2, <4>1
        <3>3. CASE d = 0
            <4>1. 0 \in 0..n /\ 0 # n + 1
                OBVIOUS
            <4> QED BY <1>0, <2>1, <3>3, <4>1
        <3> QED BY <3>1, <3>2, <3>3
    <2>3. Solves(g, n + 1)
        BY <2>2
    <2>4. \E h : Solves(h, n + 1)
        BY <2>3
    <2> QED BY <2>4
<1>3. MaxDepth \in Good
    <2> HIDE DEF Good
    <2> QED BY <1>1, <1>2, SetInduction, CodecAssumption
<1>4. \E f : f = [d \in 0..MaxDepth |-> Lev(d, f[d - 1])]
    BY <1>3
<1>5. Typed = CHOOSE f : f = [d \in 0..MaxDepth |-> Lev(d, f[d - 1])]
    BY DEF Typed, Lev, TypedLevel
<1> QED BY <1>4, <1>5 DEF Lev

MeantLevel(d, prev) ==
    [type \in Universe |-> [v \in Universe |-> IF d = 0 THEN 0 ELSE MeantBy(prev, type, v)]]

\* What a value means, by level.
LEMMA MeantEquation ==
    Meant = [d \in 0..MaxDepth |-> MeantLevel(d, Meant[d - 1])]
<1> DEFINE Lev(d, x) == MeantLevel(d, x)
           Solves(f, n) == f = [d \in 0..n |-> Lev(d, f[d - 1])]
           Good == {n \in Nat : \E f : Solves(f, n)}
<1>0. \A x, y : Lev(0, x) = Lev(0, y)
    BY DEF MeantLevel
<1> HIDE DEF Lev
<1>1. 0 \in Good
    <2> DEFINE f == [d \in 0..0 |-> Lev(0, 0)]
    <2>1. \A d \in 0..0 : d = 0
        OBVIOUS
    <2>2. f = [d \in 0..0 |-> Lev(d, f[d - 1])]
        BY <1>0, <2>1
    <2> QED BY <2>2
<1>2. ASSUME NEW n \in Nat, n \in Good PROVE n + 1 \in Good
    <2>1. PICK f : Solves(f, n)
        BY <1>2
    <2> DEFINE g == [d \in 0..(n + 1) |-> IF d = n + 1 THEN Lev(d, f[n]) ELSE f[d]]
    <2>2. ASSUME NEW d \in 0..(n + 1) PROVE g[d] = Lev(d, g[d - 1])
        <3>1. CASE d = n + 1
            <4>1. d - 1 = n /\ n \in 0..(n + 1) /\ n # n + 1
                BY <3>1
            <4> QED BY <3>1, <4>1
        <3>2. CASE d # n + 1 /\ d # 0
            <4>1. d \in 0..n /\ d - 1 \in 0..(n + 1) /\ d - 1 # n + 1
                BY <3>2
            <4> QED BY <2>1, <3>2, <4>1
        <3>3. CASE d = 0
            <4>1. 0 \in 0..n /\ 0 # n + 1
                OBVIOUS
            <4> QED BY <1>0, <2>1, <3>3, <4>1
        <3> QED BY <3>1, <3>2, <3>3
    <2>3. Solves(g, n + 1)
        BY <2>2
    <2>4. \E h : Solves(h, n + 1)
        BY <2>3
    <2> QED BY <2>4
<1>3. MaxDepth \in Good
    <2> HIDE DEF Good
    <2> QED BY <1>1, <1>2, SetInduction, CodecAssumption
<1>4. \E f : f = [d \in 0..MaxDepth |-> Lev(d, f[d - 1])]
    BY <1>3
<1>5. Meant = CHOOSE f : f = [d \in 0..MaxDepth |-> Lev(d, f[d - 1])]
    BY DEF Meant, Lev, MeantLevel
<1> QED BY <1>4, <1>5 DEF Lev

LegalLevel(d, prev) ==
    [type \in Universe |-> [v \in Universe |-> IF d = 0 THEN FALSE ELSE LegalBy(prev, type, v)]]

\* Which values a reader can make sense of, by level.
LEMMA LegalEquation ==
    Legal = [d \in 0..MaxDepth |-> LegalLevel(d, Legal[d - 1])]
<1> DEFINE Lev(d, x) == LegalLevel(d, x)
           Solves(f, n) == f = [d \in 0..n |-> Lev(d, f[d - 1])]
           Good == {n \in Nat : \E f : Solves(f, n)}
<1>0. \A x, y : Lev(0, x) = Lev(0, y)
    BY DEF LegalLevel
<1> HIDE DEF Lev
<1>1. 0 \in Good
    <2> DEFINE f == [d \in 0..0 |-> Lev(0, 0)]
    <2>1. \A d \in 0..0 : d = 0
        OBVIOUS
    <2>2. f = [d \in 0..0 |-> Lev(d, f[d - 1])]
        BY <1>0, <2>1
    <2> QED BY <2>2
<1>2. ASSUME NEW n \in Nat, n \in Good PROVE n + 1 \in Good
    <2>1. PICK f : Solves(f, n)
        BY <1>2
    <2> DEFINE g == [d \in 0..(n + 1) |-> IF d = n + 1 THEN Lev(d, f[n]) ELSE f[d]]
    <2>2. ASSUME NEW d \in 0..(n + 1) PROVE g[d] = Lev(d, g[d - 1])
        <3>1. CASE d = n + 1
            <4>1. d - 1 = n /\ n \in 0..(n + 1) /\ n # n + 1
                BY <3>1
            <4> QED BY <3>1, <4>1
        <3>2. CASE d # n + 1 /\ d # 0
            <4>1. d \in 0..n /\ d - 1 \in 0..(n + 1) /\ d - 1 # n + 1
                BY <3>2
            <4> QED BY <2>1, <3>2, <4>1
        <3>3. CASE d = 0
            <4>1. 0 \in 0..n /\ 0 # n + 1
                OBVIOUS
            <4> QED BY <1>0, <2>1, <3>3, <4>1
        <3> QED BY <3>1, <3>2, <3>3
    <2>3. Solves(g, n + 1)
        BY <2>2
    <2>4. \E h : Solves(h, n + 1)
        BY <2>3
    <2> QED BY <2>4
<1>3. MaxDepth \in Good
    <2> HIDE DEF Good
    <2> QED BY <1>1, <1>2, SetInduction, CodecAssumption
<1>4. \E f : f = [d \in 0..MaxDepth |-> Lev(d, f[d - 1])]
    BY <1>3
<1>5. Legal = CHOOSE f : f = [d \in 0..MaxDepth |-> Lev(d, f[d - 1])]
    BY DEF Legal, Lev, LegalLevel
<1> QED BY <1>4, <1>5 DEF Lev

WriterLevel(order, d, prev) ==
    [type \in Universe |-> [v \in Universe |-> IF d = 0 THEN <<>> ELSE WriteBy(prev, type, v, order)]]

\* The writer, by level.
LEMMA WriterEquation ==
    ASSUME NEW order
    PROVE  Writer(order) = [d \in 0..MaxDepth |-> WriterLevel(order, d, Writer(order)[d - 1])]
<1> DEFINE Lev(d, x) == WriterLevel(order, d, x)
           Solves(f, n) == f = [d \in 0..n |-> Lev(d, f[d - 1])]
           Good == {n \in Nat : \E f : Solves(f, n)}
<1>0. \A x, y : Lev(0, x) = Lev(0, y)
    BY DEF WriterLevel
<1> HIDE DEF Lev
<1>1. 0 \in Good
    <2> DEFINE f == [d \in 0..0 |-> Lev(0, 0)]
    <2>1. \A d \in 0..0 : d = 0
        OBVIOUS
    <2>2. f = [d \in 0..0 |-> Lev(d, f[d - 1])]
        BY <1>0, <2>1
    <2> QED BY <2>2
<1>2. ASSUME NEW n \in Nat, n \in Good PROVE n + 1 \in Good
    <2>1. PICK f : Solves(f, n)
        BY <1>2
    <2> DEFINE g == [d \in 0..(n + 1) |-> IF d = n + 1 THEN Lev(d, f[n]) ELSE f[d]]
    <2>2. ASSUME NEW d \in 0..(n + 1) PROVE g[d] = Lev(d, g[d - 1])
        <3>1. CASE d = n + 1
            <4>1. d - 1 = n /\ n \in 0..(n + 1) /\ n # n + 1
                BY <3>1
            <4> QED BY <3>1, <4>1
        <3>2. CASE d # n + 1 /\ d # 0
            <4>1. d \in 0..n /\ d - 1 \in 0..(n + 1) /\ d - 1 # n + 1
                BY <3>2
            <4> QED BY <2>1, <3>2, <4>1
        <3>3. CASE d = 0
            <4>1. 0 \in 0..n /\ 0 # n + 1
                OBVIOUS
            <4> QED BY <1>0, <2>1, <3>3, <4>1
        <3> QED BY <3>1, <3>2, <3>3
    <2>3. Solves(g, n + 1)
        BY <2>2
    <2>4. \E h : Solves(h, n + 1)
        BY <2>3
    <2> QED BY <2>4
<1>3. MaxDepth \in Good
    <2> HIDE DEF Good
    <2> QED BY <1>1, <1>2, SetInduction, CodecAssumption
<1>4. \E f : f = [d \in 0..MaxDepth |-> Lev(d, f[d - 1])]
    BY <1>3
<1>5. Writer(order) = CHOOSE f : f = [d \in 0..MaxDepth |-> Lev(d, f[d - 1])]
    BY DEF Writer, Lev, WriterLevel
<1> QED BY <1>4, <1>5 DEF Lev

ReaderLevel(w, d, prev) ==
    [type \in Universe |-> [p \in Nat |-> IF d = 0 THEN Err(p) ELSE ReadBy(prev, type, w, p)]]

\* The reader, by level.
LEMMA ReaderEquation ==
    ASSUME NEW w
    PROVE  Reader(w) = [d \in 0..MaxDepth |-> ReaderLevel(w, d, Reader(w)[d - 1])]
<1> DEFINE Lev(d, x) == ReaderLevel(w, d, x)
           Solves(f, n) == f = [d \in 0..n |-> Lev(d, f[d - 1])]
           Good == {n \in Nat : \E f : Solves(f, n)}
<1>0. \A x, y : Lev(0, x) = Lev(0, y)
    BY DEF ReaderLevel
<1> HIDE DEF Lev
<1>1. 0 \in Good
    <2> DEFINE f == [d \in 0..0 |-> Lev(0, 0)]
    <2>1. \A d \in 0..0 : d = 0
        OBVIOUS
    <2>2. f = [d \in 0..0 |-> Lev(d, f[d - 1])]
        BY <1>0, <2>1
    <2> QED BY <2>2
<1>2. ASSUME NEW n \in Nat, n \in Good PROVE n + 1 \in Good
    <2>1. PICK f : Solves(f, n)
        BY <1>2
    <2> DEFINE g == [d \in 0..(n + 1) |-> IF d = n + 1 THEN Lev(d, f[n]) ELSE f[d]]
    <2>2. ASSUME NEW d \in 0..(n + 1) PROVE g[d] = Lev(d, g[d - 1])
        <3>1. CASE d = n + 1
            <4>1. d - 1 = n /\ n \in 0..(n + 1) /\ n # n + 1
                BY <3>1
            <4> QED BY <3>1, <4>1
        <3>2. CASE d # n + 1 /\ d # 0
            <4>1. d \in 0..n /\ d - 1 \in 0..(n + 1) /\ d - 1 # n + 1
                BY <3>2
            <4> QED BY <2>1, <3>2, <4>1
        <3>3. CASE d = 0
            <4>1. 0 \in 0..n /\ 0 # n + 1
                OBVIOUS
            <4> QED BY <1>0, <2>1, <3>3, <4>1
        <3> QED BY <3>1, <3>2, <3>3
    <2>3. Solves(g, n + 1)
        BY <2>2
    <2>4. \E h : Solves(h, n + 1)
        BY <2>3
    <2> QED BY <2>4
<1>3. MaxDepth \in Good
    <2> HIDE DEF Good
    <2> QED BY <1>1, <1>2, SetInduction, CodecAssumption
<1>4. \E f : f = [d \in 0..MaxDepth |-> Lev(d, f[d - 1])]
    BY <1>3
<1>5. Reader(w) = CHOOSE f : f = [d \in 0..MaxDepth |-> Lev(d, f[d - 1])]
    BY DEF Reader, Lev, ReaderLevel
<1> QED BY <1>4, <1>5 DEF Lev

FieldLevel(R, fields, w, d, prev) ==
    [q \in Nat |->
        IF d = 0 THEN Err(q)
        ELSE IF At(w, q, "stop") THEN Ok(<<>>, q + 1)
        ELSE IF ~At(w, q, "field") THEN Err(q)
        ELSE ReadField(R, fields, w, q, prev)]

\* The loop over fields, by turns.
LEMMA FieldEquation ==
    ASSUME NEW R, NEW fields, NEW w, Len(w) \in Nat
    PROVE  FieldLoop(R, fields, w) = [d \in 0..Len(w) |-> FieldLevel(R, fields, w, d, FieldLoop(R, fields, w)[d - 1])]
<1> DEFINE Lev(d, x) == FieldLevel(R, fields, w, d, x)
           Solves(f, n) == f = [d \in 0..n |-> Lev(d, f[d - 1])]
           Good == {n \in Nat : \E f : Solves(f, n)}
<1>0. \A x, y : Lev(0, x) = Lev(0, y)
    BY DEF FieldLevel
<1> HIDE DEF Lev
<1>1. 0 \in Good
    <2> DEFINE f == [d \in 0..0 |-> Lev(0, 0)]
    <2>1. \A d \in 0..0 : d = 0
        OBVIOUS
    <2>2. f = [d \in 0..0 |-> Lev(d, f[d - 1])]
        BY <1>0, <2>1
    <2> QED BY <2>2
<1>2. ASSUME NEW n \in Nat, n \in Good PROVE n + 1 \in Good
    <2>1. PICK f : Solves(f, n)
        BY <1>2
    <2> DEFINE g == [d \in 0..(n + 1) |-> IF d = n + 1 THEN Lev(d, f[n]) ELSE f[d]]
    <2>2. ASSUME NEW d \in 0..(n + 1) PROVE g[d] = Lev(d, g[d - 1])
        <3>1. CASE d = n + 1
            <4>1. d - 1 = n /\ n \in 0..(n + 1) /\ n # n + 1
                BY <3>1
            <4> QED BY <3>1, <4>1
        <3>2. CASE d # n + 1 /\ d # 0
            <4>1. d \in 0..n /\ d - 1 \in 0..(n + 1) /\ d - 1 # n + 1
                BY <3>2
            <4> QED BY <2>1, <3>2, <4>1
        <3>3. CASE d = 0
            <4>1. 0 \in 0..n /\ 0 # n + 1
                OBVIOUS
            <4> QED BY <1>0, <2>1, <3>3, <4>1
        <3> QED BY <3>1, <3>2, <3>3
    <2>3. Solves(g, n + 1)
        BY <2>2
    <2>4. \E h : Solves(h, n + 1)
        BY <2>3
    <2> QED BY <2>4
<1>3. Len(w) \in Good
    <2> HIDE DEF Good
    <2> QED BY <1>1, <1>2, SetInduction
<1>4. \E f : f = [d \in 0..Len(w) |-> Lev(d, f[d - 1])]
    BY <1>3
<1>5. FieldLoop(R, fields, w) = CHOOSE f : f = [d \in 0..Len(w) |-> Lev(d, f[d - 1])]
    BY DEF FieldLoop, Lev, FieldLevel
<1> QED BY <1>4, <1>5 DEF Lev

ItemLevel(R, type, w, p, d, prev) ==
    [q \in Nat |->
        IF d = 0 THEN Ok(<<>>, q)
        ELSE LET i == Count(w[p]) - d + 1
                 r == R[ItemRead(type, w[p], i)][q]
                 s == prev[r.p]
             IN  IF ~r.ok THEN Err(r.p)
                 ELSE IF ~s.ok THEN s
                 ELSE Ok(With(s.v, i, r.v), s.p)]

\* The loop over items, by turns.
LEMMA ItemEquation ==
    ASSUME NEW R, NEW type, NEW w, NEW p, Count(w[p]) \in Nat
    PROVE  ItemLoop(R, type, w, p) = [d \in 0..Count(w[p]) |-> ItemLevel(R, type, w, p, d, ItemLoop(R, type, w, p)[d - 1])]
<1> DEFINE Lev(d, x) == ItemLevel(R, type, w, p, d, x)
           Solves(f, n) == f = [d \in 0..n |-> Lev(d, f[d - 1])]
           Good == {n \in Nat : \E f : Solves(f, n)}
<1>0. \A x, y : Lev(0, x) = Lev(0, y)
    BY DEF ItemLevel
<1> HIDE DEF Lev
<1>1. 0 \in Good
    <2> DEFINE f == [d \in 0..0 |-> Lev(0, 0)]
    <2>1. \A d \in 0..0 : d = 0
        OBVIOUS
    <2>2. f = [d \in 0..0 |-> Lev(d, f[d - 1])]
        BY <1>0, <2>1
    <2> QED BY <2>2
<1>2. ASSUME NEW n \in Nat, n \in Good PROVE n + 1 \in Good
    <2>1. PICK f : Solves(f, n)
        BY <1>2
    <2> DEFINE g == [d \in 0..(n + 1) |-> IF d = n + 1 THEN Lev(d, f[n]) ELSE f[d]]
    <2>2. ASSUME NEW d \in 0..(n + 1) PROVE g[d] = Lev(d, g[d - 1])
        <3>1. CASE d = n + 1
            <4>1. d - 1 = n /\ n \in 0..(n + 1) /\ n # n + 1
                BY <3>1
            <4> QED BY <3>1, <4>1
        <3>2. CASE d # n + 1 /\ d # 0
            <4>1. d \in 0..n /\ d - 1 \in 0..(n + 1) /\ d - 1 # n + 1
                BY <3>2
            <4> QED BY <2>1, <3>2, <4>1
        <3>3. CASE d = 0
            <4>1. 0 \in 0..n /\ 0 # n + 1
                OBVIOUS
            <4> QED BY <1>0, <2>1, <3>3, <4>1
        <3> QED BY <3>1, <3>2, <3>3
    <2>3. Solves(g, n + 1)
        BY <2>2
    <2>4. \E h : Solves(h, n + 1)
        BY <2>3
    <2> QED BY <2>4
<1>3. Count(w[p]) \in Good
    <2> HIDE DEF Good
    <2> QED BY <1>1, <1>2, SetInduction
<1>4. \E f : f = [d \in 0..Count(w[p]) |-> Lev(d, f[d - 1])]
    BY <1>3
<1>5. ItemLoop(R, type, w, p) = CHOOSE f : f = [d \in 0..Count(w[p]) |-> Lev(d, f[d - 1])]
    BY DEF ItemLoop, Lev, ItemLevel
<1> QED BY <1>4, <1>5 DEF Lev

-----------------------------------------------------------------------------
(* the loops of a reader *)

\* Reading from p ends before q with x, or fails on the way, as good says.
Reads(r, good, x, p, q) ==
    IF good THEN r = Ok(x, q) ELSE r.ok = FALSE /\ r.p \in p..q

\* The items of a list or a map lie between o[0] and o[c], where R reads them.
ItemsLie(R, type, w, p, o, bad, x) ==
    /\ \A i \in 0..Count(w[p]) : o[i] \in Nat
    /\ \A i \in 1..Count(w[p]) :
        /\ o[i - 1] <= o[i]
        /\ Reads(R[ItemRead(type, w[p], i)][o[i - 1]], i \notin bad, x[i], o[i - 1], o[i])

\* A function of x with one more entry of x.
LEMMA WithOne ==
    ASSUME NEW x, NEW S, NEW a
    PROVE  With([i \in S |-> x[i]], a, x[a]) = [i \in {a} \cup S |-> x[i]]
BY DEF With, Over

\* The loop over a list or a map reads item after item.
LEMMA ItemLoopReads ==
    ASSUME NEW R, NEW type, NEW w, NEW p, NEW o, NEW bad, NEW x,
           Count(w[p]) \in Nat, ItemsLie(R, type, w, p, o, bad, x)
    PROVE  Reads(ItemLoop(R, type, w, p)[Count(w[p])][o[0]], \A i \in 1..Count(w[p]) : i \notin bad,
                 [i \in 1..Count(w[p]) |-> x[i]], o[0], o[Count(w[p])])
<1> DEFINE c == Count(w[p])
           I == ItemLoop(R, type, w, p)
           Is(n) == /\ o[c - n] <= o[c]
                    /\ Reads(I[n][o[c - n]], \A i \in (c - n + 1)..c : i \notin bad,
                             [i \in (c - n + 1)..c |-> x[i]], o[c - n], o[c])
           Good == {n \in Nat : n <= c => Is(n)}
<1>0. c \in Nat /\ \A i \in 0..c : o[i] \in Nat
    BY DEF ItemsLie
<1>1. \A n \in 0..c : \A q \in Nat : I[n][q] = ItemLevel(R, type, w, p, n, I[n - 1])[q]
    BY ItemEquation
<1> HIDE DEF I
<1>2. 0 \in Good
    <2>1. c - 0 = c /\ (c - 0 + 1)..c = {} /\ 0 \in 0..c /\ o[c] \in Nat
        BY <1>0
    <2>2. I[0][o[c]] = Ok(<<>>, o[c])
        BY <1>1, <2>1 DEF ItemLevel
    <2>3. [i \in {} |-> x[i]] = <<>>
        OBVIOUS
    <2> QED BY <2>1, <2>2, <2>3 DEF Reads
<1>3. ASSUME NEW n \in Nat, n \in Good PROVE n + 1 \in Good
    <2> SUFFICES ASSUME n + 1 <= c PROVE Is(n + 1)
        <3> HIDE DEF Is
        <3> QED BY <1>0
    <2>0. n <= c /\ Is(n)
        <3>1. n <= c
            BY <1>0
        <3> HIDE DEF Is
        <3> QED BY <1>3, <3>1
    <2>1. PICK i \in 1..c : i = c - n /\ i - 1 = c - (n + 1) /\ i = c - (n + 1) + 1
        BY <1>0
    <2>2. /\ n + 1 \in 0..c /\ n + 1 - 1 = n /\ i - 1 \in 0..c /\ i \in 0..c /\ c \in 0..c
          /\ i..c = {i} \cup ((i + 1)..c)
        BY <1>0, <2>1
    <2>3. o[i] <= o[c] /\ Reads(I[n][o[i]], \A j \in (i + 1)..c : j \notin bad,
                                [j \in (i + 1)..c |-> x[j]], o[i], o[c])
        BY <2>0, <2>1
    <2> DEFINE r == R[ItemRead(type, w[p], i)][o[i - 1]]
               s == I[n][r.p]
    <2>4. o[i - 1] <= o[i] /\ Reads(r, i \notin bad, x[i], o[i - 1], o[i])
        BY DEF ItemsLie
    <2>5. /\ o[i - 1] \in Nat /\ o[i] \in Nat /\ o[c] \in Nat
          /\ o[i - 1] <= o[c]
        BY <1>0, <2>2, <2>3, <2>4
    <2>6. I[n + 1][o[i - 1]] =
            IF ~r.ok THEN Err(r.p) ELSE IF ~s.ok THEN s ELSE Ok(With(s.v, i, r.v), s.p)
        <3>1. I[n + 1][o[i - 1]] = ItemLevel(R, type, w, p, n + 1, I[n])[o[i - 1]]
            BY <1>1, <2>2, <2>5
        <3>2. n + 1 # 0 /\ Count(w[p]) - (n + 1) + 1 = i
            BY <2>1
        <3> HIDE DEF c
        <3> QED BY <2>5, <3>1, <3>2 DEF ItemLevel
    <2> HIDE DEF r, s
    <2>7. CASE i \in bad
        <3>1. r.ok = FALSE /\ r.p \in o[i - 1]..o[i]
            BY <2>4, <2>7 DEF Reads
        <3>2. I[n + 1][o[i - 1]] = Err(r.p) /\ r.p \in o[i - 1]..o[c]
            BY <2>3, <2>5, <2>6, <3>1
        <3> QED BY <2>1, <2>2, <2>5, <2>7, <3>2 DEF Reads, Err
    <2>8. CASE i \notin bad
        <3>1. r = Ok(x[i], o[i])
            BY <2>4, <2>8 DEF Reads
        <3>2. r.ok = TRUE /\ r.v = x[i] /\ r.p = o[i]
            BY <3>1 DEF Ok
        <3>3. s = I[n][o[i]]
            BY <3>2 DEF s
        <3>4. CASE \A j \in (i + 1)..c : j \notin bad
            <4>1. s = Ok([j \in (i + 1)..c |-> x[j]], o[c])
                BY <2>3, <3>3, <3>4 DEF Reads
            <4>2. s.ok = TRUE /\ s.v = [j \in (i + 1)..c |-> x[j]] /\ s.p = o[c]
                BY <4>1 DEF Ok
            <4>3. With(s.v, i, x[i]) = [j \in i..c |-> x[j]]
                <5>1. With([j \in (i + 1)..c |-> x[j]], i, x[i]) = [j \in {i} \cup ((i + 1)..c) |-> x[j]]
                    BY WithOne
                <5> QED BY <2>2, <4>2, <5>1
            <4>4. I[n + 1][o[i - 1]] = Ok([j \in i..c |-> x[j]], o[c])
                BY <2>6, <3>2, <4>2, <4>3
            <4>5. \A j \in i..c : j \notin bad
                BY <2>2, <2>8, <3>4
            <4> QED BY <2>1, <2>5, <4>4, <4>5 DEF Reads
        <3>5. CASE ~ \A j \in (i + 1)..c : j \notin bad
            <4>1. s.ok = FALSE /\ s.p \in o[i]..o[c]
                BY <2>3, <3>3, <3>5 DEF Reads
            <4>2. I[n + 1][o[i - 1]] = s /\ s.p \in o[i - 1]..o[c]
                BY <2>4, <2>5, <2>6, <3>2, <4>1
            <4>3. ~ \A j \in i..c : j \notin bad
                BY <2>2, <3>5
            <4> QED BY <2>1, <2>5, <4>1, <4>2, <4>3 DEF Reads
        <3> QED BY <3>4, <3>5
    <2> QED BY <2>7, <2>8
<1>4. c \in Good
    <2> HIDE DEF Good
    <2> QED BY <1>0, <1>2, <1>3, SetInduction
<1>5. c - c = 0 /\ 0 + 1 = 1 /\ c - c + 1 = 1 /\ c <= c
    BY <1>0
<1>6. Is(c)
    BY <1>4, <1>5
<1> QED BY <1>5, <1>6 DEF I

\* The turn of a struct's loop for the field that may lie between p and q.
FieldLies(R, fields, w, id, p, q, names, bad, y) ==
    \/ p = q /\ names = {}
    \/ /\ p < q /\ At(w, p, "field") /\ w[p].id = id /\ names = Arms(fields, id)
       /\ \/ names = {} /\ Reads(R[AnyOf(w[p].wire)][p + 1], TRUE, 0, p + 1, q)
          \/ \E n : /\ names = {n}
                    /\ Reads(R[fields[n].type][p + 1], n \notin bad, y[n], p + 1, q)

\* The fields of a struct lie between o[0] and o[m], where R reads them; the stop
\* byte comes after them.  A reader that fails does so before it.
FieldsLie(R, fields, w, ids, m, o, names, bad, y) ==
    /\ \A j \in 0..m : o[j] \in Nat /\ o[j] # 0
    /\ At(w, o[m], "stop")
    /\ \A j \in 1..m : FieldLies(R, fields, w, ids[j], o[j - 1], o[j], names[j], bad, y)
LoopReads(r, N, bad, y, p, q) ==
    IF N \cap bad = {} THEN r = Ok([n \in N |-> y[n]], q + 1) ELSE r.ok = FALSE /\ r.p \in p..q

\* A field that is there: one turn of the loop.
LEMMA FieldTurn ==
    ASSUME NEW R, NEW fields, NEW w, NEW p \in Nat, NEW q \in Nat, NEW e \in Nat, NEW names, NEW N,
           NEW bad, NEW y, NEW after, p < q, q <= e, names = Arms(fields, w[p].id),
           \/ names = {} /\ Reads(R[AnyOf(w[p].wire)][p + 1], TRUE, 0, p + 1, q)
           \/ \E n : names = {n} /\ Reads(R[fields[n].type][p + 1], n \notin bad, y[n], p + 1, q),
           LoopReads(after[q], N, bad, y, q, e)
    PROVE  LoopReads(ReadField(R, fields, w, p, after), names \cup N, bad, y, p, e)
<1> DEFINE arms == Arms(fields, w[p].id)
           name == CHOOSE n \in arms : TRUE
           r == R[IF arms = {} THEN AnyOf(w[p].wire) ELSE fields[name].type][p + 1]
           s == after[r.p]
<1>1. ReadField(R, fields, w, p, after) =
        IF ~r.ok THEN Err(r.p) ELSE IF ~s.ok \/ arms = {} THEN s ELSE Ok(With(s.v, name, r.v), s.p)
    BY DEF ReadField
<1>2. CASE names = {} /\ Reads(R[AnyOf(w[p].wire)][p + 1], TRUE, 0, p + 1, q)
    <2>1. r = Ok(0, q)
        BY <1>2 DEF Reads
    <2>2. r.ok = TRUE /\ r.p = q
        BY <2>1 DEF Ok
    <2>3. ReadField(R, fields, w, p, after) = after[q]
        <3> HIDE DEF r
        <3> QED BY <1>1, <1>2, <2>2
    <2>4. names \cup N = N /\ q..e \subseteq p..e
        BY <1>2
    <2> QED BY <2>3, <2>4 DEF LoopReads
<1>3. ASSUME NEW n, names = {n}, Reads(R[fields[n].type][p + 1], n \notin bad, y[n], p + 1, q)
      PROVE  LoopReads(ReadField(R, fields, w, p, after), names \cup N, bad, y, p, e)
    <2>1. name = n /\ arms # {} /\ arms = {n}
        BY <1>3
    <2>2. r = R[fields[n].type][p + 1]
        BY <2>1
    <2> HIDE DEF r, name, arms
    <2>3. CASE n \in bad
        <3>1. r.ok = FALSE /\ r.p \in (p + 1)..q
            BY <1>3, <2>2, <2>3 DEF Reads
        <3>2. ReadField(R, fields, w, p, after) = Err(r.p) /\ r.p \in p..e
            BY <1>1, <3>1
        <3>3. (names \cup N) \cap bad # {}
            BY <1>3, <2>3
        <3> QED BY <3>2, <3>3 DEF LoopReads, Err
    <2>4. CASE n \notin bad
        <3>1. r = Ok(y[n], q)
            BY <1>3, <2>2, <2>4 DEF Reads
        <3>2. r.ok = TRUE /\ r.p = q /\ r.v = y[n]
            BY <3>1 DEF Ok
        <3>3. s = after[q]
            BY <3>2
        <3> HIDE DEF s
        <3>4. (names \cup N) \cap bad = N \cap bad
            BY <1>3, <2>4
        <3>5. CASE N \cap bad = {}
            <4>1. s = Ok([i \in N |-> y[i]], e + 1)
                BY <3>3, <3>5 DEF LoopReads
            <4>2. s.ok = TRUE /\ s.v = [i \in N |-> y[i]] /\ s.p = e + 1
                BY <4>1 DEF Ok
            <4>3. ReadField(R, fields, w, p, after) = Ok(With([i \in N |-> y[i]], n, y[n]), e + 1)
                BY <1>1, <2>1, <3>2, <4>2
            <4>4. With([i \in N |-> y[i]], n, y[n]) = [i \in {n} \cup N |-> y[i]]
                BY WithOne
            <4> QED BY <1>3, <3>4, <3>5, <4>3, <4>4 DEF LoopReads
        <3>6. CASE N \cap bad # {}
            <4>1. s.ok = FALSE /\ s.p \in q..e
                BY <3>3, <3>6 DEF LoopReads
            <4>2. ReadField(R, fields, w, p, after) = s /\ s.p \in p..e
                BY <1>1, <3>2, <4>1
            <4> QED BY <3>4, <3>6, <4>1, <4>2 DEF LoopReads
        <3> QED BY <3>5, <3>6
    <2> QED BY <2>3, <2>4
<1> QED BY <1>2, <1>3

\* The loop over the fields of a struct reads field after field, up to the stop
\* byte; there are turns enough in the message.
LEMMA FieldLoopReads ==
    ASSUME NEW R, NEW fields, NEW w, NEW ids, NEW m \in Nat, NEW o, NEW names, NEW bad, NEW y,
           Len(w) \in Nat, FieldsLie(R, fields, w, ids, m, o, names, bad, y)
    PROVE  LoopReads(FieldLoop(R, fields, w)[Len(w)][o[0]], UNION {names[j] : j \in 1..m},
                     bad, y, o[0], o[m])
<1> DEFINE l == Len(w)
           F == FieldLoop(R, fields, w)
           N(k) == UNION {names[j] : j \in (m - k + 1)..m}
           Is(k) == /\ o[m - k] <= o[m]
                    /\ \A f \in 0..l : f > o[m] - o[m - k] =>
                        LoopReads(F[f][o[m - k]], N(k), bad, y, o[m - k], o[m])
           Good == {k \in Nat : k <= m => Is(k)}
<1>0. l \in Nat /\ \A j \in 0..m : o[j] \in Nat /\ o[j] # 0
    BY DEF FieldsLie
<1>1. \A f \in 0..l : \A q \in Nat : F[f][q] = FieldLevel(R, fields, w, f, F[f - 1])[q]
    BY FieldEquation
<1> HIDE DEF F
<1>2. 0 \in Good
    <2>1. m - 0 = m /\ (m - 0 + 1)..m = {} /\ o[m] \in Nat /\ At(w, o[m], "stop")
        BY <1>0 DEF FieldsLie
    <2>2. ASSUME NEW f \in 0..l, f > o[m] - o[m] PROVE F[f][o[m]] = Ok(<<>>, o[m] + 1)
        <3>1. f # 0
            BY <2>1, <2>2
        <3> QED BY <1>1, <2>1, <3>1 DEF FieldLevel
    <2>3. N(0) = {}
        BY <2>1
    <2>4. [n \in {} |-> y[n]] = <<>>
        OBVIOUS
    <2>5. \A f \in 0..l : f > o[m] - o[m] => LoopReads(F[f][o[m]], {}, bad, y, o[m], o[m])
        BY <2>2, <2>4 DEF LoopReads
    <2>6. Is(0)
        <3> HIDE DEF N
        <3>1. o[m] <= o[m]
            BY <2>1
        <3> QED BY <2>1, <2>3, <2>5, <3>1, Zenon
    <2> QED
        <3> HIDE DEF Is
        <3> QED BY <2>6
<1>3. ASSUME NEW k \in Nat, k \in Good PROVE k + 1 \in Good
    <2> SUFFICES ASSUME k + 1 <= m PROVE Is(k + 1)
        <3> HIDE DEF Is
        <3> QED BY <1>0
    <2>0. k <= m /\ Is(k)
        <3>1. k <= m
            OBVIOUS
        <3> HIDE DEF Is
        <3> QED BY <1>3, <3>1
    <2>1. PICK j \in 1..m : j = m - k /\ j - 1 = m - (k + 1) /\ j = m - (k + 1) + 1 /\ j + 1 = m - k + 1
        OBVIOUS
    <2>2. PICK p \in Nat, q \in Nat, e \in Nat : p = o[j - 1] /\ q = o[j] /\ e = o[m]
        <3>1. j - 1 \in 0..m /\ j \in 0..m /\ m \in 0..m
            OBVIOUS
        <3> QED BY <1>0, <3>1
    <2> DEFINE later == UNION {names[i] : i \in (j + 1)..m}
    <2>3. /\ q <= e
          /\ \A f \in 0..l : f > e - q => LoopReads(F[f][q], later, bad, y, q, e)
        BY <2>0, <2>1, <2>2
    <2>4. N(k + 1) = names[j] \cup later
        <3>1. j..m = {j} \cup ((j + 1)..m)
            OBVIOUS
        <3> QED BY <2>1, <3>1
    <2> HIDE DEF later
    <2>5. FieldLies(R, fields, w, ids[j], p, q, names[j], bad, y)
        BY <2>2 DEF FieldsLie
    <2>6. p <= q /\ p <= e
        <3>1. p = q \/ p < q
            BY <2>5, Zenon DEF FieldLies
        <3> QED BY <2>3, <3>1
    <2>7. ASSUME NEW f \in 0..l, f > e - p PROVE LoopReads(F[f][p], names[j] \cup later, bad, y, p, e)
        <3>1. CASE p = q /\ names[j] = {}
            BY <2>3, <2>7, <3>1
        <3>2. CASE /\ p < q /\ At(w, p, "field") /\ w[p].id = ids[j] /\ names[j] = Arms(fields, ids[j])
                   /\ \/ names[j] = {} /\ Reads(R[AnyOf(w[p].wire)][p + 1], TRUE, 0, p + 1, q)
                      \/ \E n : /\ names[j] = {n}
                                /\ Reads(R[fields[n].type][p + 1], n \notin bad, y[n], p + 1, q)
            <4>1. f # 0 /\ f - 1 \in 0..l /\ f - 1 > e - q
                BY <1>0, <2>3, <2>7, <3>2
            <4>2. F[f][p] = ReadField(R, fields, w, p, F[f - 1])
                <5>1. ~At(w, p, "stop") /\ At(w, p, "field")
                    BY <3>2 DEF At
                <5> QED BY <1>1, <4>1, <5>1 DEF FieldLevel
            <4>3. LoopReads(F[f - 1][q], later, bad, y, q, e)
                BY <2>3, <4>1
            <4>4. names[j] = Arms(fields, w[p].id)
                BY <3>2
            <4>5. LoopReads(ReadField(R, fields, w, p, F[f - 1]), names[j] \cup later, bad, y, p, e)
                BY <2>3, <3>2, <4>3, <4>4, FieldTurn, Zenon
            <4> QED BY <4>2, <4>5
        <3> QED BY <2>5, <3>1, <3>2 DEF FieldLies
    <2>8. QED
        <3> HIDE DEF N
        <3> QED BY <2>1, <2>2, <2>4, <2>6, <2>7
<1>4. m \in Good
    <2> HIDE DEF Good
    <2> QED BY <1>2, <1>3, SetInduction
<1>5. m - m = 0 /\ m - m + 1 = 1 /\ m <= m
    OBVIOUS
<1>6. Is(m)
    <2> HIDE DEF Is
    <2> QED BY <1>4, <1>5
<1>7. l > o[m] - o[0] /\ l \in 0..l
    <2>1. o[m] \in 1..l /\ o[0] \in Nat /\ o[0] # 0
        <3>1. 0 \in 0..m
            OBVIOUS
        <3> QED BY <1>0, <3>1 DEF FieldsLie, At
    <2> QED BY <1>0, <2>1
<1> QED BY <1>5, <1>6, <1>7 DEF F

-----------------------------------------------------------------------------
(* what is written lies in the message *)

\* What a writer writes.
Tokens ==
    {Field(id, x) : id \in Int, x \in Wires} \cup {Stop}
    \cup {Scalar(x, v) : x \in Wires, v \in Universe}
    \cup {ListBegin(Wire(t), n) : t \in Universe, n \in Nat}
    \cup {MapBegin(Wire(s), Wire(t), n) : s \in Universe, t \in Universe, n \in Nat}

\* The message w has the tokens e from p on.
Occurs(e, w, p) == \A i \in 1..Len(e) : p + i - 1 \in 1..Len(w) /\ w[p + i - 1] = e[i]

\* The parts of what lies in a message lie there one after the other.
LEMMA OccursConcat ==
    ASSUME NEW S, NEW a \in Seq(S), NEW b \in Seq(S), NEW w, NEW p \in Nat, Occurs(a \o b, w, p)
    PROVE  Occurs(a, w, p) /\ Occurs(b, w, p + Len(a))
<1>1. PICK k \in Nat, l \in Nat : k = Len(a) /\ l = Len(b)
    OBVIOUS
<1>2. PICK c : /\ c = a \o b /\ Len(c) = k + l
               /\ \A i \in 1..(k + l) : c[i] = IF i <= k THEN a[i] ELSE b[i - k]
    <2>1. /\ Len(a \o b) = k + l
          /\ \A i \in 1..(k + l) : (a \o b)[i] = IF i <= k THEN a[i] ELSE b[i - k]
        BY <1>1, ConcatProperties
    <2> QED BY <2>1, Zenon
<1>3. \A i \in 1..(k + l) : p + i - 1 \in 1..Len(w) /\ w[p + i - 1] = c[i]
    BY <1>2 DEF Occurs
<1>4. ASSUME NEW i \in 1..k PROVE p + i - 1 \in 1..Len(w) /\ w[p + i - 1] = a[i]
    <2>1. i \in 1..(k + l) /\ i <= k
        OBVIOUS
    <2> QED BY <1>2, <1>3, <2>1
<1>5. ASSUME NEW i \in 1..l PROVE p + k + i - 1 \in 1..Len(w) /\ w[p + k + i - 1] = b[i]
    <2>1. k + i \in 1..(k + l) /\ ~(k + i <= k) /\ k + i - k = i /\ p + (k + i) - 1 = p + k + i - 1
        OBVIOUS
    <2>2. c[k + i] = b[i]
        <3>1. \A h \in 1..(k + l) : ~(h <= k) => c[h] = b[h - k]
            BY <1>2
        <3>2. c[k + i] = b[k + i - k]
            BY <2>1, <3>1
        <3> QED BY <2>1, <3>2
    <2>3. p + (k + i) - 1 \in 1..Len(w) /\ w[p + (k + i) - 1] = c[k + i]
        BY <1>3, <2>1
    <2> QED BY <2>1, <2>2, <2>3
<1> QED BY <1>1, <1>4, <1>5 DEF Occurs

\* So do the parts of a concatenation of many.
LEMMA OccursFlat ==
    ASSUME NEW S, NEW seqs \in Seq(Seq(S)), NEW w, NEW p \in Nat, Occurs(FlattenSeq(seqs), w, p),
           NEW i \in 1..Len(seqs)
    PROVE  Occurs(seqs[i], w, p + Offset(seqs, i - 1))
<1>1. PICK l \in Nat, k \in Nat, a \in Nat, b \in Nat :
        /\ l = Len(FlattenSeq(seqs)) /\ k = Len(seqs[i]) /\ a = Offset(seqs, i - 1) /\ b = Offset(seqs, i)
    BY FlattenSeqOffsets, FlattenSeqType
<1>2. /\ b = a + k /\ b <= l
      /\ \A j \in 1..k : FlattenSeq(seqs)[a + j] = seqs[i][j]
    BY <1>1, FlattenSeqOffsets
<1>3. \A j \in 1..l : p + j - 1 \in 1..Len(w) /\ w[p + j - 1] = FlattenSeq(seqs)[j]
    BY <1>1 DEF Occurs
<1>4. ASSUME NEW j \in 1..k PROVE p + a + j - 1 \in 1..Len(w) /\ w[p + a + j - 1] = seqs[i][j]
    <2>1. a + j \in 1..l /\ p + (a + j) - 1 = p + a + j - 1
        BY <1>2
    <2>2. p + (a + j) - 1 \in 1..Len(w) /\ w[p + (a + j) - 1] = FlattenSeq(seqs)[a + j]
        BY <1>3, <2>1
    <2> QED BY <1>2, <2>1, <2>2
<1> QED BY <1>1, <1>4 DEF Occurs

\* The first token of what lies at p.
LEMMA OccursOne ==
    ASSUME NEW x, NEW w, NEW p \in Nat, Occurs(<<x>>, w, p)
    PROVE  p \in 1..Len(w) /\ w[p] = x
<1>1. Len(<<x>>) = 1 /\ <<x>>[1] = x /\ p + 1 - 1 = p /\ 1 \in 1..1
    OBVIOUS
<1> QED BY <1>1 DEF Occurs

-----------------------------------------------------------------------------
(* types *)

\* The wire type tells lists and maps apart, and what is neither from enums.
LEMMA Kinds ==
    ASSUME NEW t, WellFormed(t)
    PROVE  /\ t.k # "any" /\ Wire(t) \in Wires
           /\ (Wire(t) = "map") = (t.k = "map")
           /\ (Wire(t) = "list") = (t.k = "list")
           /\ t.k = "enum" => Wire(t) = "i32"
BY DEF WellFormed, Wire

\* What skip goes by.
LEMMA AnyKinds ==
    ASSUME NEW x
    PROVE  AnyOf(x).k = "any" /\ AnyOf(x).wire = x /\ Wire(AnyOf(x)) = x /\ FieldsOf(AnyOf(x)) = <<>>
BY DEF AnyOf, Wire, FieldsOf

\* e at any place of the message is read as x, or turned down, and skipped.
Understood(R, w, t, e, good, x) ==
    \A p \in Nat : p # 0 /\ Occurs(e, w, p) =>
        /\ Reads(R[t][p], good, x, p, p + Len(e))
        /\ Reads(R[AnyOf(Wire(t))][p], TRUE, 0, p, p + Len(e))

\* What W writes of values of a type, R reads.
Faithful(W, R, T, L, M, w) ==
    \A t, v \in Universe : T[t][v] =>
        /\ WellFormed(t) /\ W[t][v] \in Seq(Tokens)
        /\ Understood(R, w, t, W[t][v], L[t][v], M[t][v])

\* The same for one type and value, from what is known of the parts.
UnderstoodBy(R, w, t, e, good, x) ==
    /\ e \in Seq(Tokens)
    /\ \A p \in Nat : p # 0 /\ Occurs(e, w, p) =>
        /\ Reads(ReadBy(R, t, w, p), good, x, p, p + Len(e))
        /\ Reads(ReadBy(R, AnyOf(Wire(t)), w, p), TRUE, 0, p, p + Len(e))

Plain == Wires \ {"struct", "list", "map"}

\* Scalars, enums among them.
LEMMA ScalarUnderstood ==
    ASSUME NEW W, NEW R, NEW L, NEW M, NEW w, NEW t, NEW v \in Universe, NEW order,
           WellFormed(t), Wire(t) \in Plain
    PROVE  UnderstoodBy(R, w, t, WriteBy(W, t, v, order), LegalBy(L, t, v), MeantBy(M, t, v))
<1>1. /\ WriteBy(W, t, v, order) = <<Scalar(Wire(t), v)>> /\ MeantBy(M, t, v) = v
      /\ LegalBy(L, t, v) <=> (t.k = "enum" => v \in t.numbers)
    <2>1. ~(Wire(t) = "struct") /\ ~(Wire(t) = "list") /\ ~(Wire(t) = "map") /\ Wire(t) \notin {"list", "map"}
        BY DEF Plain
    <2>2. WriteBy(W, t, v, order) = <<Scalar(Wire(t), v)>> /\ MeantBy(M, t, v) = v
        BY <2>1 DEF WriteBy, MeantBy
    <2>3. CASE t.k = "enum"
        BY <2>1, <2>2, <2>3 DEF LegalBy
    <2>4. CASE t.k # "enum"
        BY <2>1, <2>2, <2>4 DEF LegalBy
    <2> QED BY <2>3, <2>4
<1>2. Scalar(Wire(t), v) \in Tokens
    BY DEF Plain, Tokens
<1>3. <<Scalar(Wire(t), v)>> \in Seq(Tokens) /\ Len(<<Scalar(Wire(t), v)>>) = 1
    BY <1>2
<1>4. ASSUME NEW p \in Nat, Occurs(<<Scalar(Wire(t), v)>>, w, p)
      PROVE  /\ Reads(ReadBy(R, t, w, p), t.k = "enum" => v \in t.numbers, v, p, p + 1)
             /\ Reads(ReadBy(R, AnyOf(Wire(t)), w, p), TRUE, 0, p, p + 1)
    <2>1. p \in 1..Len(w) /\ w[p] = Scalar(Wire(t), v)
        BY <1>4, OccursOne
    <2>2. At(w, p, "scalar") /\ w[p].wire = Wire(t) /\ w[p].v = v
        BY <2>1 DEF At, Scalar
    <2>3. /\ ReadScalar(t, w, p) = IF t.k = "enum" /\ v \notin t.numbers THEN Err(p + 1) ELSE Ok(v, p + 1)
          /\ ReadScalar(AnyOf(Wire(t)), w, p) = Ok(v, p + 1)
        BY <2>2, AnyKinds DEF ReadScalar
    <2>4. ReadBy(R, t, w, p) = ReadScalar(t, w, p)
        BY Kinds DEF ReadBy, Keep, Plain
    <2>5. ReadBy(R, AnyOf(Wire(t)), w, p) = Ok(0, p + 1)
        <3> DEFINE a == AnyOf(Wire(t))
        <3>1. a.k = "any" /\ Wire(a) \in Plain
            BY AnyKinds
        <3> HIDE DEF a
        <3>2. ReadBy(R, a, w, p) = IF ReadScalar(a, w, p).ok THEN Ok(0, ReadScalar(a, w, p).p) ELSE ReadScalar(a, w, p)
            BY <3>1 DEF ReadBy, Keep, Plain
        <3>3. ReadScalar(a, w, p).ok = TRUE /\ ReadScalar(a, w, p).p = p + 1
            BY <2>3 DEF a, Ok
        <3> QED BY <3>2, <3>3 DEF a
    <2>6. Reads(ReadBy(R, AnyOf(Wire(t)), w, p), TRUE, 0, p, p + 1)
        BY <2>5 DEF Reads
    <2>7. Reads(ReadBy(R, t, w, p), t.k = "enum" => v \in t.numbers, v, p, p + 1)
        BY <2>3, <2>4 DEF Reads, Err, Ok
    <2> QED BY <2>6, <2>7
<1>5. ASSUME NEW p \in Nat, Occurs(<<Scalar(Wire(t), v)>>, w, p)
      PROVE  /\ Reads(ReadBy(R, t, w, p), LegalBy(L, t, v), v, p, p + 1)
             /\ Reads(ReadBy(R, AnyOf(Wire(t)), w, p), TRUE, 0, p, p + 1)
    BY <1>1, <1>4, <1>5 DEF Reads
<1> QED BY <1>1, <1>3, <1>5, Zenon DEF UnderstoodBy

\* Where parts that are written one after the other begin.
Places(parts, q) == [i \in 0..Len(parts) |-> q + Offset(parts, i)]
\* The parts lie there.
LEMMA PartsLie ==
    ASSUME NEW parts \in Seq(Seq(Tokens)), NEW w, NEW q \in Nat, Occurs(FlattenSeq(parts), w, q),
           NEW n \in Nat, n = Len(parts)
    PROVE  /\ Places(parts, q)[0] = q /\ Places(parts, q)[n] = q + Len(FlattenSeq(parts))
           /\ \A i \in 0..n : Places(parts, q)[i] \in Nat /\ q <= Places(parts, q)[i]
           /\ \A i \in 1..n :
                /\ Len(parts[i]) \in Nat
                /\ Places(parts, q)[i] = Places(parts, q)[i - 1] + Len(parts[i])
                /\ Occurs(parts[i], w, Places(parts, q)[i - 1])
<1>1. /\ Offset(parts, 0) = 0 /\ Offset(parts, n) = Len(FlattenSeq(parts))
      /\ \A i \in 1..n : /\ Offset(parts, i - 1) \in Nat /\ Offset(parts, i) \in Nat /\ Len(parts[i]) \in Nat
                         /\ Offset(parts, i) = Offset(parts, i - 1) + Len(parts[i])
    BY FlattenSeqOffsets
<1>2. \A i \in 0..n : Places(parts, q)[i] = q + Offset(parts, i)
    BY DEF Places
<1>3. ASSUME NEW i \in 0..n PROVE Places(parts, q)[i] \in Nat /\ q <= Places(parts, q)[i]
    <2>1. i = 0 \/ i \in 1..n
        OBVIOUS
    <2>2. Offset(parts, i) \in Nat
        BY <1>1, <2>1
    <2> QED BY <1>2, <2>2
<1>4. ASSUME NEW i \in 1..n
      PROVE  /\ Len(parts[i]) \in Nat
             /\ Places(parts, q)[i] = Places(parts, q)[i - 1] + Len(parts[i])
             /\ Occurs(parts[i], w, Places(parts, q)[i - 1])
    <2>1. i \in 0..n /\ i - 1 \in 0..n
        OBVIOUS
    <2>2. Places(parts, q)[i] = q + Offset(parts, i) /\ Places(parts, q)[i - 1] = q + Offset(parts, i - 1)
        BY <1>2, <2>1
    <2>3. Occurs(parts[i], w, q + Offset(parts, i - 1))
        BY OccursFlat
    <2> QED BY <1>1, <2>2, <2>3
<1>5. 0 \in 0..n /\ n \in 0..n
    OBVIOUS
<1>6. Places(parts, q)[0] = q /\ Places(parts, q)[n] = q + Len(FlattenSeq(parts))
    <2>1. Places(parts, q)[0] = q + Offset(parts, 0) /\ Places(parts, q)[n] = q + Offset(parts, n)
        BY <1>2, <1>5, Zenon
    <2>2. q + 0 = q
        OBVIOUS
    <2> QED BY <1>1, <2>1, <2>2, Zenon
<1> QED BY <1>3, <1>4, <1>6, Zenon

\* What a reader of parts finds in them.
LEMMA PartUnderstood ==
    ASSUME NEW W, NEW R, NEW T, NEW L, NEW M, NEW w, Faithful(W, R, T, L, M, w),
           NEW t \in Universe, NEW v \in Universe, T[t][v]
    PROVE  /\ WellFormed(t) /\ W[t][v] \in Seq(Tokens) /\ Len(W[t][v]) \in Nat
           /\ \A p \in Nat : p # 0 /\ Occurs(W[t][v], w, p) =>
                /\ Reads(R[t][p], L[t][v], M[t][v], p, p + Len(W[t][v]))
                /\ Reads(R[AnyOf(Wire(t))][p], TRUE, 0, p, p + Len(W[t][v]))
<1>1. /\ WellFormed(t) /\ W[t][v] \in Seq(Tokens)
      /\ Understood(R, w, t, W[t][v], L[t][v], M[t][v])
    BY Zenon DEF Faithful
<1>2. Len(W[t][v]) \in Nat
    BY <1>1
<1> QED BY <1>1, <1>2, Zenon DEF Understood

\* Lists and maps.
Items(W, t, v) == [i \in 1..Len(v) |-> W[ItemType(t, i)][v[i]]]
\* A list or a map is written as a header and its items.
LEMMA ItemsWritten ==
    ASSUME NEW W, NEW R, NEW T, NEW L, NEW M, NEW w, Faithful(W, R, T, L, M, w),
           NEW t, NEW v, TypedBy(T, t, v), Wire(t) \in {"list", "map"}, NEW order
    PROVE  /\ v \in Seq(Universe) /\ Len(v) \in Nat
           /\ \A i \in 1..Len(v) : ItemType(t, i) \in Universe /\ v[i] \in Universe /\ T[ItemType(t, i)][v[i]]
           /\ Items(W, t, v) \in Seq(Seq(Tokens)) /\ Len(Items(W, t, v)) = Len(v)
           /\ \A i \in 1..Len(v) : Items(W, t, v)[i] = W[ItemType(t, i)][v[i]]
           /\ Begin(t, Len(v)) \in Tokens /\ Begin(t, Len(v)).t = Wire(t) /\ Count(Begin(t, Len(v))) = Len(v)
           /\ WriteBy(W, t, v, order) = <<Begin(t, Len(v))>> \o FlattenSeq(Items(W, t, v))
<1>1. WellFormed(t)
    BY DEF TypedBy
<1>2. /\ v \in Seq(Universe) /\ (Wire(t) = "map" => Len(v) % 2 = 0)
      /\ \A i \in 1..Len(v) : T[ItemType(t, i)][v[i]]
    BY DEF TypedBy
<1>3. PICK n \in Nat : n = Len(v) /\ \A i \in 1..n : v[i] \in Universe
    BY <1>2
<1>4. \A i \in 1..n : ItemType(t, i) \in Universe
    BY <1>1, Kinds DEF WellFormed, ItemType
<1>5. \A i \in 1..n : W[ItemType(t, i)][v[i]] \in Seq(Tokens)
    BY <1>2, <1>3, <1>4, PartUnderstood
<1>6. /\ Items(W, t, v) \in Seq(Seq(Tokens)) /\ Len(Items(W, t, v)) = n
      /\ \A i \in 1..n : Items(W, t, v)[i] = W[ItemType(t, i)][v[i]]
    BY <1>3, <1>5 DEF Items
<1>7. WriteBy(W, t, v, order) = <<Begin(t, n)>> \o FlattenSeq(Items(W, t, v))
    BY <1>3 DEF WriteBy, WriteItems, Items
<1>8. Begin(t, n) \in Tokens /\ Begin(t, n).t = Wire(t) /\ Count(Begin(t, n)) = n
    <2>1. CASE Wire(t) = "list"
        <3>1. t.of \in Universe /\ t.k # "map" /\ Begin(t, n) = ListBegin(Wire(t.of), n)
            BY <1>1, <2>1, Kinds DEF WellFormed, Begin
        <3>2. Begin(t, n) \in Tokens
            BY <3>1 DEF Tokens
        <3> QED BY <2>1, <3>1, <3>2 DEF ListBegin, Count
    <2>2. CASE Wire(t) = "map"
        <3>1. n \div 2 \in Nat /\ 2 * (n \div 2) = n
            BY <1>2, <1>3, <2>2
        <3>2. /\ t.key \in Universe /\ t.of \in Universe /\ t.k = "map"
              /\ Begin(t, n) = MapBegin(Wire(t.key), Wire(t.of), n \div 2)
            BY <1>1, <2>2, Kinds DEF WellFormed, Begin
        <3>3. Begin(t, n) \in Tokens
            BY <3>1, <3>2 DEF Tokens
        <3> QED BY <2>2, <3>1, <3>2, <3>3 DEF MapBegin, Count
    <2> QED BY <2>1, <2>2
<1> QED BY <1>2, <1>3, <1>4, <1>6, <1>7, <1>8

\* A header, then parts.
LEMMA HeaderThenParts ==
    ASSUME NEW b \in Tokens, NEW parts \in Seq(Seq(Tokens)), NEW w, NEW p \in Nat,
           Occurs(<<b>> \o FlattenSeq(parts), w, p)
    PROVE  p \in 1..Len(w) /\ w[p] = b /\ Occurs(FlattenSeq(parts), w, p + 1)
<1>1. <<b>> \in Seq(Tokens) /\ FlattenSeq(parts) \in Seq(Tokens) /\ Len(<<b>>) = 1
    BY FlattenSeqType
<1>2. Occurs(<<b>>, w, p) /\ Occurs(FlattenSeq(parts), w, p + 1)
    BY <1>1, OccursConcat
<1> QED BY <1>2, OccursOne

\* A list or a map is read item by item, or skipped by its header.
LEMMA ItemsUnderstood ==
    ASSUME NEW W, NEW R, NEW T, NEW L, NEW M, NEW w, Faithful(W, R, T, L, M, w),
           NEW t, NEW v, TypedBy(T, t, v), Wire(t) \in {"list", "map"}, NEW order
    PROVE  UnderstoodBy(R, w, t, WriteBy(W, t, v, order), LegalBy(L, t, v), MeantBy(M, t, v))
<1> DEFINE parts == Items(W, t, v)
           It(i) == ItemType(t, i)
<1>0. WellFormed(t)
    BY DEF TypedBy
<1>1. PICK n \in Nat, b \in Tokens :
        /\ n = Len(v) /\ b = Begin(t, n) /\ b.t = Wire(t) /\ Count(b) = n
        /\ parts \in Seq(Seq(Tokens)) /\ Len(parts) = n
        /\ \A i \in 1..n : It(i) \in Universe /\ v[i] \in Universe /\ T[It(i)][v[i]]
        /\ \A i \in 1..n : parts[i] = W[It(i)][v[i]]
        /\ <<b>> \o FlattenSeq(parts) = WriteBy(W, t, v, order)
    <2>1. /\ Len(v) \in Nat /\ Begin(t, Len(v)) \in Tokens /\ Begin(t, Len(v)).t = Wire(t)
          /\ Count(Begin(t, Len(v))) = Len(v)
          /\ parts \in Seq(Seq(Tokens)) /\ Len(parts) = Len(v)
          /\ \A i \in 1..Len(v) : It(i) \in Universe /\ v[i] \in Universe /\ T[It(i)][v[i]]
          /\ \A i \in 1..Len(v) : parts[i] = W[It(i)][v[i]]
          /\ <<Begin(t, Len(v))>> \o FlattenSeq(parts) = WriteBy(W, t, v, order)
        BY ItemsWritten
    <2> HIDE DEF parts, It
    <2> QED BY <2>1, Zenon
<1>e. PICK e : e = <<b>> \o FlattenSeq(parts) /\ e = WriteBy(W, t, v, order)
    BY <1>1
<1>2. e \in Seq(Tokens) /\ Len(FlattenSeq(parts)) \in Nat /\ Len(e) = 1 + Len(FlattenSeq(parts))
    <2>1. FlattenSeq(parts) \in Seq(Tokens)
        BY <1>1, FlattenSeqType
    <2>2. <<b>> \in Seq(Tokens) /\ Len(<<b>>) = 1
        OBVIOUS
    <2> QED BY <1>e, <2>1, <2>2, ConcatProperties
<1> DEFINE bad == {i \in 1..n : ~L[It(i)][v[i]]}
           x == [i \in 1..n |-> M[It(i)][v[i]]]
           none == [i \in 1..n |-> 0]
<1>3. LegalBy(L, t, v) <=> \A i \in 1..n : i \notin bad
    <2>1. LegalBy(L, t, v) <=> \A i \in 1..n : L[It(i)][v[i]]
        <3>1. Wire(t) # "struct" /\ t.k # "enum"
            BY <1>0, Kinds
        <3>2. LegalBy(L, t, v) <=> \A i \in 1..Len(v) : L[It(i)][v[i]]
            BY <3>1 DEF LegalBy
        <3> QED BY <1>1, <3>2, Zenon
    <2> QED BY <2>1
<1>4. MeantBy(M, t, v) = IF Wire(t) = "map" THEN MapOf(x) ELSE x
    BY <1>1 DEF MeantBy
<1> HIDE DEF parts, It
<1>5. ASSUME NEW p \in Nat, p # 0, Occurs(e, w, p)
      PROVE  /\ Reads(ReadBy(R, t, w, p), LegalBy(L, t, v), MeantBy(M, t, v), p, p + Len(e))
             /\ Reads(ReadBy(R, AnyOf(Wire(t)), w, p), TRUE, 0, p, p + Len(e))
    <2>1. p \in 1..Len(w) /\ w[p] = b /\ Occurs(FlattenSeq(parts), w, p + 1)
        BY <1>1, <1>e, <1>5, HeaderThenParts
    <2>2. PICK o :
            /\ o[0] = p + 1 /\ o[n] = p + 1 + Len(FlattenSeq(parts))
            /\ \A i \in 0..n : o[i] \in Nat /\ p + 1 <= o[i]
            /\ \A i \in 1..n : /\ Len(parts[i]) \in Nat /\ o[i] = o[i - 1] + Len(parts[i])
                               /\ Occurs(parts[i], w, o[i - 1])
        <3>1. p + 1 \in Nat
            OBVIOUS
        <3> DEFINE o == Places(parts, p + 1)
        <3>2. /\ o[0] = p + 1 /\ o[n] = p + 1 + Len(FlattenSeq(parts))
              /\ \A i \in 0..n : o[i] \in Nat /\ p + 1 <= o[i]
              /\ \A i \in 1..n : /\ Len(parts[i]) \in Nat /\ o[i] = o[i - 1] + Len(parts[i])
                                 /\ Occurs(parts[i], w, o[i - 1])
            BY <1>1, <2>1, <3>1, PartsLie
        <3> HIDE DEF o
        <3> QED BY <3>2, Zenon
    <2>3. Count(w[p]) = n /\ At(w, p, Wire(t)) /\ o[n] = p + Len(e)
        BY <1>1, <1>2, <2>1, <2>2 DEF At
    <2>4. ASSUME NEW i \in 1..n
          PROVE  /\ o[i - 1] <= o[i]
                 /\ Reads(R[It(i)][o[i - 1]], L[It(i)][v[i]], M[It(i)][v[i]], o[i - 1], o[i])
                 /\ Reads(R[AnyOf(Wire(It(i)))][o[i - 1]], TRUE, 0, o[i - 1], o[i])
        <3>1. i - 1 \in 0..n
            OBVIOUS
        <3>2. o[i - 1] \in Nat /\ o[i - 1] # 0 /\ Len(parts[i]) \in Nat /\ o[i] = o[i - 1] + Len(parts[i])
            BY <2>2, <3>1
        <3>3. Occurs(W[It(i)][v[i]], w, o[i - 1]) /\ o[i] = o[i - 1] + Len(W[It(i)][v[i]])
            BY <1>1, <2>2
        <3>4. It(i) \in Universe /\ v[i] \in Universe /\ T[It(i)][v[i]]
            BY <1>1
        <3>5. /\ Reads(R[It(i)][o[i - 1]], L[It(i)][v[i]], M[It(i)][v[i]], o[i - 1], o[i])
              /\ Reads(R[AnyOf(Wire(It(i)))][o[i - 1]], TRUE, 0, o[i - 1], o[i])
            BY <3>2, <3>3, <3>4, PartUnderstood
        <3>6. o[i - 1] <= o[i]
            BY <3>2
        <3> QED BY <3>5, <3>6, Zenon
    <2>5. ItemsLie(R, t, w, p, o, bad, x)
        <3>1. \A i \in 1..n : ItemRead(t, w[p], i) = It(i)
            BY <1>0, Kinds DEF ItemRead, It
        <3>2. ASSUME NEW i \in 1..n
              PROVE  Reads(R[ItemRead(t, w[p], i)][o[i - 1]], i \notin bad, x[i], o[i - 1], o[i])
            BY <2>4, <3>1 DEF Reads
        <3> QED BY <2>2, <2>3, <2>4, <3>2 DEF ItemsLie
    <2> PICK nowhere : nowhere = {}
        OBVIOUS
    <2>6. ItemsLie(R, AnyOf(Wire(t)), w, p, o, nowhere, none)
        <3>1. \A i \in 1..n : ItemRead(AnyOf(Wire(t)), w[p], i) = AnyOf(Wire(It(i)))
            <4>1. CASE Wire(t) = "list"
                <5>1. b = ListBegin(Wire(t.of), n) /\ t.k # "map"
                    BY <1>0, <1>1, <4>1, Kinds DEF Begin
                <5>2. b.wire = Wire(t.of) /\ b.t = "list"
                    BY <5>1 DEF ListBegin
                <5> QED BY <2>1, <5>1, <5>2, AnyKinds DEF ItemRead, It, ItemType
            <4>2. CASE Wire(t) = "map"
                <5>1. b = MapBegin(Wire(t.key), Wire(t.of), n \div 2) /\ t.k = "map"
                    BY <1>0, <1>1, <4>2, Kinds DEF Begin
                <5>2. b.wire = Wire(t.of) /\ b.key = Wire(t.key) /\ b.t = "map"
                    BY <5>1 DEF MapBegin
                <5> QED BY <2>1, <5>1, <5>2, AnyKinds DEF ItemRead, It, ItemType
            <4> QED BY <4>1, <4>2
        <3>2. ASSUME NEW i \in 1..n
              PROVE  Reads(R[ItemRead(AnyOf(Wire(t)), w[p], i)][o[i - 1]], i \notin nowhere, none[i], o[i - 1], o[i])
            BY <2>4, <3>1 DEF Reads
        <3> QED BY <2>2, <2>3, <2>4, <3>2 DEF ItemsLie
    <2>7. Reads(ItemLoop(R, t, w, p)[n][p + 1], \A i \in 1..n : i \notin bad, x, p + 1, p + Len(e))
        <3> HIDE DEF bad
        <3>1. Reads(ItemLoop(R, t, w, p)[n][o[0]], \A i \in 1..n : i \notin bad,
                    [i \in 1..n |-> x[i]], o[0], o[n])
            <4> HIDE DEF x
            <4> QED BY <2>3, <2>5, ItemLoopReads
        <3>2. [i \in 1..n |-> x[i]] = x
            OBVIOUS
        <3> QED BY <2>2, <2>3, <3>1, <3>2
    <2>8. ItemLoop(R, AnyOf(Wire(t)), w, p)[n][p + 1] = Ok([i \in 1..n |-> none[i]], p + Len(e))
        <3> HIDE DEF none
        <3>1. Reads(ItemLoop(R, AnyOf(Wire(t)), w, p)[n][o[0]], \A i \in 1..n : i \notin nowhere,
                    [i \in 1..n |-> none[i]], o[0], o[n])
            <4>1. Count(w[p]) \in Nat
                BY <2>3
            <4>2. Reads(ItemLoop(R, AnyOf(Wire(t)), w, p)[Count(w[p])][o[0]],
                        \A i \in 1..Count(w[p]) : i \notin nowhere,
                        [i \in 1..Count(w[p]) |-> none[i]], o[0], o[Count(w[p])])
                BY <2>6, <4>1, ItemLoopReads
            <4> QED BY <2>3, <4>2, Zenon
        <3>2. \A i \in 1..n : i \notin nowhere
            OBVIOUS
        <3> QED BY <2>2, <2>3, <3>1, <3>2 DEF Reads
    <2> HIDE DEF bad, x, none
    <2>9. Reads(ReadBy(R, t, w, p), LegalBy(L, t, v), MeantBy(M, t, v), p, p + Len(e))
        <3> DEFINE r == ItemLoop(R, t, w, p)[n][p + 1]
        <3>1. ReadBy(R, t, w, p) = IF r.ok /\ Wire(t) = "map" THEN Ok(MapOf(r.v), r.p) ELSE r
            BY <1>0, <2>3, Kinds DEF ReadBy, Keep, ReadItems, Collect
        <3> HIDE DEF r
        <3>2. CASE \A i \in 1..n : i \notin bad
            <4>1. r = Ok(x, p + Len(e))
                BY <2>7, <3>2 DEF Reads, r
            <4>2. r.ok = TRUE /\ r.v = x /\ r.p = p + Len(e)
                BY <4>1 DEF Ok
            <4>3. ReadBy(R, t, w, p) = Ok(MeantBy(M, t, v), p + Len(e))
                BY <1>4, <3>1, <4>1, <4>2
            <4> QED BY <1>3, <3>2, <4>3 DEF Reads
        <3>3. CASE ~ \A i \in 1..n : i \notin bad
            <4>1. r.ok = FALSE /\ r.p \in (p + 1)..(p + Len(e))
                BY <2>7, <3>3 DEF Reads, r
            <4>2. ReadBy(R, t, w, p).ok = FALSE /\ ReadBy(R, t, w, p).p \in p..(p + Len(e))
                BY <1>2, <3>1, <4>1
            <4> QED BY <1>3, <3>3, <4>2 DEF Reads
        <3> QED BY <3>2, <3>3
    <2>10. Reads(ReadBy(R, AnyOf(Wire(t)), w, p), TRUE, 0, p, p + Len(e))
        <3> DEFINE a == AnyOf(Wire(t))
                   r == ItemLoop(R, a, w, p)[n][p + 1]
        <3>1. a.k = "any" /\ Wire(a) = Wire(t)
            BY AnyKinds
        <3>2. r.ok = TRUE /\ r.p = p + Len(e)
            BY <2>8 DEF Ok
        <3> HIDE DEF r, a
        <3>3. /\ ReadItems(R, a, w, p).ok = TRUE /\ ReadItems(R, a, w, p).p = p + Len(e)
            BY <2>3, <3>2 DEF ReadItems, Collect, r, Ok
        <3>4. ReadBy(R, a, w, p) = Ok(0, p + Len(e))
            BY <2>3, <3>1, <3>3 DEF ReadBy, Keep
        <3> QED BY <3>4 DEF Reads, a
    <2> QED BY <2>9, <2>10
<1> QED BY <1>e, <1>2, <1>5, Zenon DEF UnderstoodBy

-----------------------------------------------------------------------------
(* structs *)

\* A struct of the fields `all` has values of their types and an id for each.
Held(T, all, v) ==
    /\ DOMAIN v \subseteq DOMAIN all
    /\ \A n \in DOMAIN v :
        /\ v[n] \in Universe /\ all[n].type \in Universe /\ T[all[n].type][v[n]]
        /\ \A m \in DOMAIN all : all[m].id = all[n].id => m = n
        /\ \A order \in Orders : \E i \in DOMAIN order : order[i] = all[n].id

\* A reader knows some of these fields: it takes none of the others for its own.
Knows(G, all) ==
    \A n \in DOMAIN all :
        Arms(G, all[n].id) = {n} \cap DOMAIN G /\ (n \in DOMAIN G => G[n].type = all[n].type)

FieldParts(W, all, v, order) == [i \in 1..Len(order) |-> WriteField(W, all, v, order[i])]
Here(all, v, id) == {n \in DOMAIN v : all[n].id = id}
Values(M, all, v) == [n \in DOMAIN v |-> M[all[n].type][v[n]]]
Unread(L, all, v) == {n \in DOMAIN v : ~L[all[n].type][v[n]]}

\* What is written for an id: nothing, or a field that has it.
OneField(W, all, v, id) ==
    \/ Here(all, v, id) = {} /\ WriteField(W, all, v, id) = <<>>
    \/ \E n \in DOMAIN v :
        /\ Here(all, v, id) = {n} /\ all[n].id = id
        /\ WriteField(W, all, v, id) = <<Field(id, Wire(all[n].type))>> \o W[all[n].type][v[n]]
        /\ Field(id, Wire(all[n].type)) \in Tokens
\* One field at most has an id.
LEMMA FieldWritten ==
    ASSUME NEW W, NEW R, NEW T, NEW L, NEW M, NEW w, Faithful(W, R, T, L, M, w),
           NEW all, NEW v, Held(T, all, v), NEW id \in Int
    PROVE  WriteField(W, all, v, id) \in Seq(Tokens) /\ OneField(W, all, v, id)
<1>1. CASE Here(all, v, id) = {}
    <2>1. WriteField(W, all, v, id) = <<>>
        BY <1>1 DEF WriteField, Here, Some
    <2>2. <<>> \in Seq(Tokens)
        OBVIOUS
    <2> QED BY <1>1, <2>1, <2>2 DEF OneField
<1>2. CASE Here(all, v, id) # {}
    <2> DEFINE n == CHOOSE m \in Here(all, v, id) : TRUE
    <2>1. n \in Here(all, v, id)
        BY <1>2
    <2>2. n \in DOMAIN v /\ all[n].id = id
        BY <2>1 DEF Here
    <2>3. WriteField(W, all, v, id) = <<Field(id, Wire(all[n].type))>> \o W[all[n].type][v[n]]
        BY <1>2 DEF WriteField, Here, Some
    <2> HIDE DEF n
    <2>4. Here(all, v, id) = {n}
        BY <2>1, <2>2 DEF Here, Held
    <2>5. all[n].type \in Universe /\ v[n] \in Universe /\ T[all[n].type][v[n]]
        BY <2>2 DEF Held
    <2>6. WellFormed(all[n].type) /\ W[all[n].type][v[n]] \in Seq(Tokens)
        BY <2>5, PartUnderstood
    <2>7. Field(id, Wire(all[n].type)) \in Tokens
        BY <2>6, Kinds DEF Tokens
    <2>8. <<Field(id, Wire(all[n].type))>> \o W[all[n].type][v[n]] \in Seq(Tokens)
        BY <2>6, <2>7
    <2> QED BY <2>2, <2>3, <2>4, <2>7, <2>8 DEF OneField
<1> QED BY <1>1, <1>2

\* A struct is written as the fields of the ids in turn, and the stop byte.
LEMMA StructWritten ==
    ASSUME NEW W, NEW R, NEW T, NEW L, NEW M, NEW w, Faithful(W, R, T, L, M, w),
           NEW all, NEW v, Held(T, all, v), NEW order \in Orders
    PROVE  /\ Len(order) \in Nat /\ \A j \in 1..Len(order) : order[j] \in Int
           /\ FieldParts(W, all, v, order) \in Seq(Seq(Tokens))
           /\ Len(FieldParts(W, all, v, order)) = Len(order)
           /\ \A j \in 1..Len(order) : FieldParts(W, all, v, order)[j] = WriteField(W, all, v, order[j])
           /\ Stop \in Tokens
           /\ FlattenSeq(FieldParts(W, all, v, order)) \in Seq(Tokens)
           /\ WriteStruct(W, all, v, order) = FlattenSeq(FieldParts(W, all, v, order)) \o <<Stop>>
           /\ WriteStruct(W, all, v, order) \in Seq(Tokens)
           /\ Len(WriteStruct(W, all, v, order)) = Len(FlattenSeq(FieldParts(W, all, v, order))) + 1
<1>1. order \in Seq(Int)
    BY CodecAssumption
<1>2. PICK m \in Nat : m = Len(order) /\ \A j \in 1..m : order[j] \in Int
    BY <1>1
<1>3. \A j \in 1..m : WriteField(W, all, v, order[j]) \in Seq(Tokens)
    BY <1>2, FieldWritten
<1>4. /\ FieldParts(W, all, v, order) \in Seq(Seq(Tokens))
      /\ Len(FieldParts(W, all, v, order)) = m
      /\ \A j \in 1..m : FieldParts(W, all, v, order)[j] = WriteField(W, all, v, order[j])
    BY <1>2, <1>3 DEF FieldParts
<1>5. Stop \in Tokens
    BY DEF Tokens
<1>6. FlattenSeq(FieldParts(W, all, v, order)) \in Seq(Tokens)
    BY <1>4, FlattenSeqType
<1>7. WriteStruct(W, all, v, order) = FlattenSeq(FieldParts(W, all, v, order)) \o <<Stop>>
    BY DEF WriteStruct, FieldParts
<1>8. /\ WriteStruct(W, all, v, order) \in Seq(Tokens)
      /\ Len(WriteStruct(W, all, v, order)) = Len(FlattenSeq(FieldParts(W, all, v, order))) + 1
    <2>1. <<Stop>> \in Seq(Tokens) /\ Len(<<Stop>>) = 1
        BY <1>5
    <2> QED BY <1>6, <1>7, <2>1, ConcatProperties
<1> QED BY <1>2, <1>4, <1>5, <1>6, <1>7, <1>8

\* A reader that knows the fields G reads those of a struct that are in G.
LEMMA FieldsFound ==
    ASSUME NEW W, NEW R, NEW T, NEW L, NEW M, NEW w, Faithful(W, R, T, L, M, w), Len(w) \in Nat,
           NEW all, NEW v, Held(T, all, v), NEW order \in Orders, NEW G, Knows(G, all),
           NEW p \in Nat, p # 0, Occurs(WriteStruct(W, all, v, order), w, p), NEW l \in Nat,
           l = Len(FlattenSeq(FieldParts(W, all, v, order)))
    PROVE  LoopReads(FieldLoop(R, G, w)[Len(w)][p], DOMAIN v \cap DOMAIN G,
                     Unread(L, all, v), Values(M, all, v), p, p + l)
<1> DEFINE parts == FieldParts(W, all, v, order)
           bad == Unread(L, all, v)
           y == Values(M, all, v)
           here(j) == Here(all, v, order[j])
<1>1. PICK m \in Nat :
        /\ m = Len(order) /\ \A j \in 1..m : order[j] \in Int
        /\ parts \in Seq(Seq(Tokens)) /\ Len(parts) = m
        /\ \A j \in 1..m : parts[j] = WriteField(W, all, v, order[j])
        /\ Stop \in Tokens /\ FlattenSeq(parts) \in Seq(Tokens)
        /\ WriteStruct(W, all, v, order) = FlattenSeq(parts) \o <<Stop>>
    <2>1. /\ Len(order) \in Nat /\ \A j \in 1..Len(order) : order[j] \in Int
          /\ parts \in Seq(Seq(Tokens)) /\ Len(parts) = Len(order)
          /\ \A j \in 1..Len(order) : parts[j] = WriteField(W, all, v, order[j])
          /\ Stop \in Tokens /\ FlattenSeq(parts) \in Seq(Tokens)
          /\ WriteStruct(W, all, v, order) = FlattenSeq(parts) \o <<Stop>>
        BY StructWritten
    <2> HIDE DEF parts
    <2> QED BY <2>1, Zenon
<1> DEFINE names == [j \in 1..m |-> here(j) \cap DOMAIN G]
<1> HIDE DEF parts
<1>2. Occurs(FlattenSeq(parts), w, p) /\ Occurs(<<Stop>>, w, p + l)
    <2>1. Occurs(FlattenSeq(parts) \o <<Stop>>, w, p) /\ <<Stop>> \in Seq(Tokens)
        BY <1>1
    <2> QED BY <1>1, <2>1, OccursConcat DEF parts
<1>3. At(w, p + l, "stop")
    <2>1. p + l \in 1..Len(w) /\ w[p + l] = Stop
        BY <1>2, OccursOne
    <2> QED BY <2>1 DEF At, Stop
<1>4. PICK o :
        /\ o[0] = p /\ o[m] = p + l
        /\ \A i \in 0..m : o[i] \in Nat /\ p <= o[i]
        /\ \A i \in 1..m : /\ Len(parts[i]) \in Nat /\ o[i] = o[i - 1] + Len(parts[i])
                           /\ Occurs(parts[i], w, o[i - 1])
    <2> DEFINE o == Places(parts, p)
    <2>1. /\ o[0] = p /\ o[m] = p + Len(FlattenSeq(parts))
          /\ \A i \in 0..m : o[i] \in Nat /\ p <= o[i]
          /\ \A i \in 1..m : /\ Len(parts[i]) \in Nat /\ o[i] = o[i - 1] + Len(parts[i])
                             /\ Occurs(parts[i], w, o[i - 1])
        BY <1>1, <1>2, PartsLie
    <2>2. o[m] = p + l
        BY <2>1 DEF parts
    <2> HIDE DEF o
    <2> QED BY <2>1, <2>2, Zenon
<1>5. ASSUME NEW j \in 1..m
      PROVE  FieldLies(R, G, w, order[j], o[j - 1], o[j], names[j], bad, y)
    <2>1. j - 1 \in 0..m /\ j \in 0..m
        OBVIOUS
    <2>2. PICK a \in Nat, q \in Nat : /\ a = o[j - 1] /\ q = o[j] /\ a # 0
                                      /\ q = a + Len(parts[j]) /\ Occurs(parts[j], w, a)
        <3>1. o[j - 1] \in Nat /\ p <= o[j - 1] /\ o[j] \in Nat
            BY <1>4, <2>1, Zenon
        <3>2. o[j - 1] # 0
            BY <3>1
        <3>3. o[j] = o[j - 1] + Len(parts[j]) /\ Occurs(parts[j], w, o[j - 1])
            BY <1>4, Zenon
        <3> QED BY <3>1, <3>2, <3>3, Zenon
    <2>3. CASE here(j) = {} /\ parts[j] = <<>>
        <3>1. Len(parts[j]) = 0
            BY <2>3
        <3>2. a = q /\ names[j] = {}
            BY <2>2, <2>3, <3>1
        <3> QED BY <2>2, <3>2, Zenon DEF FieldLies
    <2>4. ASSUME NEW n \in DOMAIN v, here(j) = {n}, all[n].id = order[j],
                 parts[j] = <<Field(order[j], Wire(all[n].type))>> \o W[all[n].type][v[n]],
                 Field(order[j], Wire(all[n].type)) \in Tokens
          PROVE  FieldLies(R, G, w, order[j], o[j - 1], o[j], names[j], bad, y)
        <3> DEFINE t == all[n].type
                   f == Field(order[j], Wire(t))
        <3>1. t \in Universe /\ v[n] \in Universe /\ T[t][v[n]] /\ n \in DOMAIN all
            BY DEF Held
        <3>2. /\ W[t][v[n]] \in Seq(Tokens) /\ Len(W[t][v[n]]) \in Nat
              /\ \A h \in Nat : h # 0 /\ Occurs(W[t][v[n]], w, h) =>
                    /\ Reads(R[t][h], L[t][v[n]], M[t][v[n]], h, h + Len(W[t][v[n]]))
                    /\ Reads(R[AnyOf(Wire(t))][h], TRUE, 0, h, h + Len(W[t][v[n]]))
            BY <3>1, PartUnderstood
        <3>3. <<f>> \in Seq(Tokens) /\ Len(<<f>>) = 1
            BY <2>4
        <3>4. Occurs(<<f>>, w, a) /\ Occurs(W[t][v[n]], w, a + 1)
            <4>1. Occurs(<<f>> \o W[t][v[n]], w, a)
                BY <2>2, <2>4
            <4> QED BY <3>2, <3>3, <4>1, OccursConcat
        <3>5. a \in 1..Len(w) /\ w[a] = f
            BY <3>4, OccursOne
        <3>6. At(w, a, "field") /\ w[a].id = order[j] /\ w[a].wire = Wire(t)
            BY <3>5 DEF At, Field
        <3>7. q = a + 1 + Len(W[t][v[n]]) /\ a < q
            <4>1. Len(parts[j]) = 1 + Len(W[t][v[n]])
                BY <2>4, <3>2, <3>3, ConcatProperties
            <4>2. PICK k \in Nat : k = Len(W[t][v[n]])
                BY <3>2
            <4>3. q = a + (1 + k)
                BY <2>2, <4>1, <4>2
            <4>4. q = a + 1 + k /\ a < q
                BY <4>3
            <4> QED BY <4>2, <4>4
        <3>8. /\ Reads(R[t][a + 1], L[t][v[n]], M[t][v[n]], a + 1, q)
              /\ Reads(R[AnyOf(Wire(t))][a + 1], TRUE, 0, a + 1, q)
            <4>1. a + 1 \in Nat /\ a + 1 # 0
                OBVIOUS
            <4> QED BY <3>2, <3>4, <3>7, <4>1
        <3>9. names[j] = Arms(G, order[j])
            BY <2>4, <3>1 DEF Knows
        <3>10. CASE n \notin DOMAIN G
            <4>1. names[j] = {}
                BY <2>4, <3>10
            <4>2. Reads(R[AnyOf(w[a].wire)][a + 1], TRUE, 0, a + 1, q)
                BY <3>6, <3>8
            <4> QED BY <2>2, <3>6, <3>7, <3>9, <4>1, <4>2, Zenon DEF FieldLies
        <3>11. CASE n \in DOMAIN G
            <4>1. names[j] = {n} /\ G[n].type = t
                BY <2>4, <3>1, <3>11 DEF Knows
            <4>2. Reads(R[G[n].type][a + 1], n \notin bad, y[n], a + 1, q)
                BY <3>8, <4>1 DEF Reads, Unread, Values
            <4> HIDE DEF names, bad, y
            <4> QED BY <2>2, <3>6, <3>7, <3>9, <4>1, <4>2, Zenon DEF FieldLies
        <3> QED BY <3>10, <3>11
    <2>5. order[j] \in Int /\ parts[j] = WriteField(W, all, v, order[j])
        BY <1>1, Zenon
    <2>6. OneField(W, all, v, order[j])
        BY <2>5, FieldWritten
    <2> QED BY <2>3, <2>4, <2>5, <2>6, Zenon DEF OneField
<1>6. FieldsLie(R, G, w, order, m, o, names, bad, y)
    <2>1. \A j \in 0..m : o[j] \in Nat /\ o[j] # 0
        BY <1>4
    <2> HIDE DEF names, bad, y
    <2> QED BY <1>3, <1>4, <1>5, <2>1 DEF FieldsLie
<1>7. UNION {names[j] : j \in 1..m} = DOMAIN v \cap DOMAIN G
    <2>1. ASSUME NEW n \in DOMAIN v PROVE \E j \in 1..m : n \in here(j)
        <3>1. PICK j \in DOMAIN order : order[j] = all[n].id
            BY DEF Held
        <3>2. DOMAIN order = 1..m
            BY <1>1, CodecAssumption
        <3> QED BY <3>1, <3>2 DEF Here
    <2>2. \A j \in 1..m : here(j) \subseteq DOMAIN v
        BY DEF Here
    <2> HIDE DEF here
    <2> QED BY <2>1, <2>2
<1> HIDE DEF names, bad, y
<1>8. LoopReads(FieldLoop(R, G, w)[Len(w)][o[0]], UNION {names[j] : j \in 1..m}, bad, y, o[0], o[m])
    BY <1>6, FieldLoopReads
<1> QED BY <1>4, <1>7, <1>8 DEF bad, y

\* What the writer and the readers of a struct know of its fields.
LEMMA StructFields ==
    ASSUME NEW T, NEW t, NEW v, TypedBy(T, t, v), Wire(t) = "struct",
           NEW fields, fields = FieldsOf(t), NEW all, all = Sendable(fields)
    PROVE  /\ Held(T, all, v) /\ Knows(fields, all) /\ Knows(<<>>, all)
           /\ \A n \in DOMAIN fields : n \in DOMAIN all /\ all[n] = fields[n]
<1>1. /\ DOMAIN v \subseteq DOMAIN all
      /\ \A n \in DOMAIN v : v[n] \in Universe /\ T[all[n].type][v[n]]
    BY DEF TypedBy
<1>2. \A n \in DOMAIN all :
        /\ all[n].type \in Universe
        /\ Arms(fields, all[n].id) = {n} \cap DOMAIN fields
        /\ \A m \in DOMAIN all : all[m].id = all[n].id => m = n
        /\ \A order \in Orders : \E i \in DOMAIN order : order[i] = all[n].id
    <2>1. WellFormed(t)
        BY DEF TypedBy
    <2> QED BY <2>1 DEF WellFormed
<1>3. \A n \in DOMAIN fields : n \in DOMAIN all /\ all[n] = fields[n]
    BY DEF Sendable, Over
<1>4. Held(T, all, v)
    BY <1>1, <1>2 DEF Held
<1>5. Knows(fields, all)
    BY <1>2, <1>3 DEF Knows
<1>6. Knows(<<>>, all)
    <2>1. DOMAIN <<>> = {}
        OBVIOUS
    <2>2. \A id : Arms(<<>>, id) = {}
        BY <2>1 DEF Arms
    <2> QED BY <2>1, <2>2 DEF Knows
<1> QED BY <1>3, <1>4, <1>5, <1>6

\* The fields a reader read, and those it presets.
LEMMA StructMeant ==
    ASSUME NEW M, NEW t, NEW v, Wire(t) = "struct", NEW fields, fields = FieldsOf(t), NEW all,
           \A n \in DOMAIN fields : n \in DOMAIN all /\ all[n] = fields[n], NEW y, y = Values(M, all, v)
    PROVE  Over([n \in DOMAIN v \cap DOMAIN fields |-> y[n]],
                [n \in {m \in DOMAIN fields : fields[m].default} |-> 0]) = MeantBy(M, t, v)
<1> DEFINE N == DOMAIN v \cap DOMAIN fields
           P == {m \in DOMAIN fields : fields[m].default}
           f == [n \in N |-> y[n]]
           g == [n \in P |-> 0]
<1>1. MeantBy(M, t, v) =
        [n \in {m \in DOMAIN fields : m \in DOMAIN v \/ fields[m].default} |->
            IF n \in DOMAIN v THEN M[fields[n].type][v[n]] ELSE 0]
    BY DEF MeantBy
<1>2. Over(f, g) = [n \in N \cup P |-> IF n \in N THEN f[n] ELSE g[n]]
    BY DEF Over
<1>3. N \cup P = {m \in DOMAIN fields : m \in DOMAIN v \/ fields[m].default}
    OBVIOUS
<1>4. ASSUME NEW n \in N \cup P
      PROVE  (IF n \in N THEN f[n] ELSE g[n]) = (IF n \in DOMAIN v THEN M[fields[n].type][v[n]] ELSE 0)
    <2>1. CASE n \in N
        <3>1. f[n] = y[n] /\ n \in DOMAIN v /\ all[n] = fields[n]
            BY <2>1
        <3>2. y[n] = M[all[n].type][v[n]]
            BY <3>1 DEF Values
        <3> QED BY <2>1, <3>1, <3>2
    <2>2. CASE n \notin N
        BY <2>2
    <2> QED BY <2>1, <2>2
<1> HIDE DEF N, P, f, g
<1>5. [n \in N \cup P |-> IF n \in N THEN f[n] ELSE g[n]]
        = [n \in N \cup P |-> IF n \in DOMAIN v THEN M[fields[n].type][v[n]] ELSE 0]
    BY <1>4
<1>6. Over(f, g) = MeantBy(M, t, v)
    BY <1>1, <1>2, <1>3, <1>5
<1> QED BY <1>6 DEF N, P, f, g

\* Which structs a reader can make sense of.
LEMMA StructLegal ==
    ASSUME NEW L, NEW t, NEW v, Wire(t) = "struct", WellFormed(t), NEW fields, fields = FieldsOf(t), NEW all,
           \A n \in DOMAIN fields : n \in DOMAIN all /\ all[n] = fields[n]
    PROVE  LegalBy(L, t, v) <=>
            /\ (DOMAIN v \cap DOMAIN fields) \cap Unread(L, all, v) = {}
            /\ \A n \in DOMAIN fields : fields[n].required => n \in DOMAIN v \cap DOMAIN fields
<1>1. t.k # "enum"
    BY Kinds
<1>2. LegalBy(L, t, v) <=>
        \A n \in DOMAIN fields :
            IF n \in DOMAIN v THEN L[fields[n].type][v[n]] ELSE ~fields[n].required
    BY <1>1 DEF LegalBy
<1>3. (DOMAIN v \cap DOMAIN fields) \cap Unread(L, all, v) = {} <=>
        \A n \in DOMAIN v \cap DOMAIN fields : L[fields[n].type][v[n]]
    BY DEF Unread
<1> QED BY <1>2, <1>3

\* A struct is read field by field, in any order, and skipped as a whole.
LEMMA StructUnderstood ==
    ASSUME NEW W, NEW R, NEW T, NEW L, NEW M, NEW w, Faithful(W, R, T, L, M, w), Len(w) \in Nat,
           NEW t, NEW v, TypedBy(T, t, v), Wire(t) = "struct", NEW order \in Orders
    PROVE  UnderstoodBy(R, w, t, WriteBy(W, t, v, order), LegalBy(L, t, v), MeantBy(M, t, v))
<1>0. WellFormed(t) /\ t.k # "any"
    <2>1. WellFormed(t)
        BY DEF TypedBy
    <2> QED BY <2>1, Kinds
<1>1. PICK fields, all : fields = FieldsOf(t) /\ all = Sendable(fields)
    OBVIOUS
<1>2. /\ Held(T, all, v) /\ Knows(fields, all) /\ Knows(<<>>, all)
      /\ \A n \in DOMAIN fields : n \in DOMAIN all /\ all[n] = fields[n]
    BY <1>1, StructFields
<1>3. PICK e : e = WriteStruct(W, all, v, order) /\ e = WriteBy(W, t, v, order)
    BY <1>1 DEF WriteBy
<1>4. PICK l \in Nat : l = Len(FlattenSeq(FieldParts(W, all, v, order)))
    BY <1>2, StructWritten
<1>5. e \in Seq(Tokens) /\ Len(e) = l + 1
    <2>1. /\ WriteStruct(W, all, v, order) \in Seq(Tokens)
          /\ Len(WriteStruct(W, all, v, order)) = Len(FlattenSeq(FieldParts(W, all, v, order))) + 1
        BY <1>2, StructWritten
    <2> QED BY <1>3, <1>4, <2>1
<1>6. PICK bad, y, N : bad = Unread(L, all, v) /\ y = Values(M, all, v) /\ N = DOMAIN v \cap DOMAIN fields
    OBVIOUS
<1>7. LegalBy(L, t, v) <=> (N \cap bad = {} /\ \A n \in DOMAIN fields : fields[n].required => n \in N)
    BY <1>0, <1>1, <1>2, <1>6, StructLegal
<1>8. Over([n \in N |-> y[n]], [n \in {m \in DOMAIN fields : fields[m].default} |-> 0]) = MeantBy(M, t, v)
    BY <1>1, <1>2, <1>6, StructMeant
<1>9. ASSUME NEW p \in Nat, p # 0, Occurs(e, w, p)
      PROVE  /\ Reads(ReadBy(R, t, w, p), LegalBy(L, t, v), MeantBy(M, t, v), p, p + Len(e))
             /\ Reads(ReadBy(R, AnyOf(Wire(t)), w, p), TRUE, 0, p, p + Len(e))
    <2>1. LoopReads(FieldLoop(R, fields, w)[Len(w)][p], N, bad, y, p, p + l)
        BY <1>2, <1>3, <1>4, <1>6, <1>9, FieldsFound
    <2>2. LoopReads(FieldLoop(R, <<>>, w)[Len(w)][p], DOMAIN v \cap DOMAIN <<>>, bad, y, p, p + l)
        BY <1>2, <1>3, <1>4, <1>6, <1>9, FieldsFound
    <2>3. Reads(ReadBy(R, t, w, p), LegalBy(L, t, v), MeantBy(M, t, v), p, p + Len(e))
        <3> DEFINE r == FieldLoop(R, fields, w)[Len(w)][p]
                   pre == [n \in {m \in DOMAIN fields : fields[m].default} |-> 0]
        <3>1. ReadBy(R, t, w, p) = ReadStruct(R, fields, w, p)
            BY <1>0, <1>1 DEF ReadBy, Keep
        <3>2. ReadStruct(R, fields, w, p) =
                IF ~r.ok THEN r ELSE IF AllRequired(fields, r.v) THEN Ok(Over(r.v, pre), r.p) ELSE Err(r.p)
            BY DEF ReadStruct, Complete
        <3> HIDE DEF r
        <3>3. CASE N \cap bad # {}
            <4>1. r.ok = FALSE /\ r.p \in p..(p + l)
                BY <2>1, <3>3 DEF LoopReads, r
            <4>2. ReadBy(R, t, w, p) = r /\ r.p \in p..(p + Len(e))
                BY <1>5, <3>1, <3>2, <4>1
            <4> QED BY <1>7, <3>3, <4>1, <4>2 DEF Reads
        <3>4. CASE N \cap bad = {}
            <4>1. r = Ok([n \in N |-> y[n]], p + l + 1)
                BY <2>1, <3>4 DEF LoopReads, r
            <4>2. r.ok = TRUE /\ r.v = [n \in N |-> y[n]] /\ r.p = p + l + 1
                BY <4>1 DEF Ok
            <4>3. p + l + 1 = p + Len(e) /\ p + Len(e) \in p..(p + Len(e))
                BY <1>5
            <4>4. AllRequired(fields, r.v) <=> \A n \in DOMAIN fields : fields[n].required => n \in N
                BY <4>2 DEF AllRequired
            <4>5. CASE AllRequired(fields, r.v)
                <5>1. ReadBy(R, t, w, p) = Ok(MeantBy(M, t, v), p + Len(e))
                    <6> HIDE DEF pre
                    <6>1. ReadBy(R, t, w, p) = Ok(Over([n \in N |-> y[n]], pre), p + Len(e))
                        BY <3>1, <3>2, <4>2, <4>3, <4>5
                    <6> QED BY <1>8, <6>1 DEF pre
                <5> QED BY <1>7, <3>4, <4>4, <4>5, <5>1 DEF Reads
            <4>6. CASE ~AllRequired(fields, r.v)
                <5>1. ReadBy(R, t, w, p) = Err(p + Len(e))
                    BY <3>1, <3>2, <4>2, <4>3, <4>6
                <5> QED BY <1>7, <4>3, <4>4, <4>6, <5>1 DEF Reads, Err
            <4> QED BY <4>5, <4>6
        <3> QED BY <3>3, <3>4
    <2>4. Reads(ReadBy(R, AnyOf(Wire(t)), w, p), TRUE, 0, p, p + Len(e))
        <3> DEFINE a == AnyOf(Wire(t))
                   r == FieldLoop(R, <<>>, w)[Len(w)][p]
                   s == ReadStruct(R, <<>>, w, p)
        <3>0. DOMAIN <<>> = {}
            OBVIOUS
        <3>1. (DOMAIN v \cap DOMAIN <<>>) \cap bad = {}
            BY <3>0
        <3>2. r.ok = TRUE /\ r.p = p + l + 1
            BY <2>2, <3>1 DEF LoopReads, Ok
        <3>3. p + l + 1 = p + Len(e)
            BY <1>5
        <3>4. AllRequired(<<>>, r.v)
            BY <3>0 DEF AllRequired
        <3> HIDE DEF r
        <3>5. s.ok = TRUE /\ s.p = p + Len(e)
            BY <3>2, <3>3, <3>4 DEF ReadStruct, Complete, Ok, r
        <3>6. a.k = "any" /\ Wire(a) = "struct" /\ FieldsOf(a) = <<>>
            BY AnyKinds
        <3> HIDE DEF a, s
        <3>7. ReadBy(R, a, w, p) = Ok(0, p + Len(e))
            BY <3>5, <3>6 DEF ReadBy, Keep, s
        <3> QED BY <3>7 DEF Reads, a
    <2> QED BY <2>3, <2>4
<1> QED BY <1>3, <1>5, <1>9, Zenon DEF UnderstoodBy

-----------------------------------------------------------------------------
(* values of any depth, and messages *)

\* A value is read when its parts are.
LEMMA LevelUnderstood ==
    ASSUME NEW W, NEW R, NEW T, NEW L, NEW M, NEW w, Faithful(W, R, T, L, M, w), Len(w) \in Nat,
           NEW t, NEW v \in Universe, TypedBy(T, t, v), NEW order \in Orders
    PROVE  /\ WellFormed(t)
           /\ UnderstoodBy(R, w, t, WriteBy(W, t, v, order), LegalBy(L, t, v), MeantBy(M, t, v))
<1>1. WellFormed(t)
    BY DEF TypedBy
<1>2. Wire(t) \in Plain \/ Wire(t) \in {"list", "map"} \/ Wire(t) = "struct"
    BY <1>1, Kinds DEF Wires, Plain
<1> QED BY <1>1, <1>2, ScalarUnderstood, ItemsUnderstood, StructUnderstood

\* What is written of values nested to any depth, in any order of fields, is read.
LEMMA Faithfulness ==
    ASSUME NEW order \in Orders, NEW w, Len(w) \in Nat, NEW d \in 0..MaxDepth
    PROVE  Faithful(Writer(order)[d], Reader(w)[d], Typed[d], Legal[d], Meant[d], w)
<1> DEFINE W == Writer(order)
           R == Reader(w)
           Is(k) == Faithful(W[k], R[k], Typed[k], Legal[k], Meant[k], w)
           Good == {k \in Nat : k <= MaxDepth => Is(k)}
<1>0. MaxDepth \in Nat
    BY CodecAssumption
<1>1. \A k \in 0..MaxDepth : \A t, v \in Universe :
        /\ Typed[k][t][v] = IF k = 0 THEN FALSE ELSE TypedBy(Typed[k - 1], t, v)
        /\ Legal[k][t][v] = IF k = 0 THEN FALSE ELSE LegalBy(Legal[k - 1], t, v)
        /\ Meant[k][t][v] = IF k = 0 THEN 0 ELSE MeantBy(Meant[k - 1], t, v)
    <2>1. \A k \in 0..MaxDepth :
            /\ Typed[k] = TypedLevel(k, Typed[k - 1])
            /\ Legal[k] = LegalLevel(k, Legal[k - 1])
            /\ Meant[k] = MeantLevel(k, Meant[k - 1])
        BY TypedEquation, LegalEquation, MeantEquation
    <2>3. ASSUME NEW k \in 0..MaxDepth, NEW t \in Universe, NEW v \in Universe
          PROVE  /\ Typed[k][t][v] = IF k = 0 THEN FALSE ELSE TypedBy(Typed[k - 1], t, v)
                 /\ Legal[k][t][v] = IF k = 0 THEN FALSE ELSE LegalBy(Legal[k - 1], t, v)
                 /\ Meant[k][t][v] = IF k = 0 THEN 0 ELSE MeantBy(Meant[k - 1], t, v)
        <3>1. /\ Typed[k] = TypedLevel(k, Typed[k - 1]) /\ Legal[k] = LegalLevel(k, Legal[k - 1])
              /\ Meant[k] = MeantLevel(k, Meant[k - 1])
            BY <2>1
        <3>2. TypedLevel(k, Typed[k - 1])[t][v] = IF k = 0 THEN FALSE ELSE TypedBy(Typed[k - 1], t, v)
            BY DEF TypedLevel
        <3>3. LegalLevel(k, Legal[k - 1])[t][v] = IF k = 0 THEN FALSE ELSE LegalBy(Legal[k - 1], t, v)
            BY DEF LegalLevel
        <3>4. MeantLevel(k, Meant[k - 1])[t][v] = IF k = 0 THEN 0 ELSE MeantBy(Meant[k - 1], t, v)
            BY DEF MeantLevel
        <3> QED BY <3>1, <3>2, <3>3, <3>4, Zenon
    <2> QED BY <2>3
<1>2. \A k \in 0..MaxDepth : \A t, v \in Universe :
        W[k][t][v] = IF k = 0 THEN <<>> ELSE WriteBy(W[k - 1], t, v, order)
    <2>1. \A k \in 0..MaxDepth : W[k] = WriterLevel(order, k, W[k - 1])
        BY WriterEquation
    <2>2. \A k, x : \A t, v \in Universe :
            WriterLevel(order, k, x)[t][v] = IF k = 0 THEN <<>> ELSE WriteBy(x, t, v, order)
        BY DEF WriterLevel
    <2>3. ASSUME NEW k \in 0..MaxDepth, NEW t \in Universe, NEW v \in Universe
          PROVE  W[k][t][v] = IF k = 0 THEN <<>> ELSE WriteBy(W[k - 1], t, v, order)
        <3>1. W[k] = WriterLevel(order, k, W[k - 1])
            BY <2>1
        <3> HIDE DEF W
        <3>2. WriterLevel(order, k, W[k - 1])[t][v] = IF k = 0 THEN <<>> ELSE WriteBy(W[k - 1], t, v, order)
            BY <2>2
        <3> QED BY <3>1, <3>2, Zenon
    <2> QED BY <2>3
<1>3. \A k \in 0..MaxDepth : \A t \in Universe : \A p \in Nat :
        R[k][t][p] = IF k = 0 THEN Err(p) ELSE ReadBy(R[k - 1], t, w, p)
    <2>1. \A k \in 0..MaxDepth : R[k] = ReaderLevel(w, k, R[k - 1])
        BY ReaderEquation
    <2>2. \A k, x : \A t \in Universe : \A p \in Nat :
            ReaderLevel(w, k, x)[t][p] = IF k = 0 THEN Err(p) ELSE ReadBy(x, t, w, p)
        BY DEF ReaderLevel
    <2>3. ASSUME NEW k \in 0..MaxDepth, NEW t \in Universe, NEW p \in Nat
          PROVE  R[k][t][p] = IF k = 0 THEN Err(p) ELSE ReadBy(R[k - 1], t, w, p)
        <3>1. R[k] = ReaderLevel(w, k, R[k - 1])
            BY <2>1
        <3> HIDE DEF R
        <3>2. ReaderLevel(w, k, R[k - 1])[t][p] = IF k = 0 THEN Err(p) ELSE ReadBy(R[k - 1], t, w, p)
            BY <2>2
        <3> QED BY <3>1, <3>2, Zenon
    <2> QED BY <2>3
<1> HIDE DEF W, R
<1>4. 0 \in Good
    <2>1. \A t, v \in Universe : ~Typed[0][t][v]
        <3>1. 0 \in 0..MaxDepth
            BY <1>0
        <3> QED BY <1>1, <3>1
    <2>2. Is(0)
        BY <2>1, Zenon DEF Faithful
    <2> HIDE DEF Is
    <2> QED BY <2>2
<1>5. ASSUME NEW n \in Nat, n \in Good PROVE n + 1 \in Good
    <2> SUFFICES ASSUME n + 1 <= MaxDepth PROVE Is(n + 1)
        <3> HIDE DEF Is
        <3> QED BY <1>0
    <2>1. n <= MaxDepth /\ n + 1 \in 0..MaxDepth /\ n + 1 - 1 = n /\ n + 1 # 0
        BY <1>0
    <2>2. Faithful(W[n], R[n], Typed[n], Legal[n], Meant[n], w)
        BY <1>5, <2>1
    <2>3. ASSUME NEW t \in Universe, NEW v \in Universe, Typed[n + 1][t][v]
          PROVE  /\ WellFormed(t) /\ W[n + 1][t][v] \in Seq(Tokens)
                 /\ Understood(R[n + 1], w, t, W[n + 1][t][v], Legal[n + 1][t][v], Meant[n + 1][t][v])
        <3>1. /\ TypedBy(Typed[n], t, v)
              /\ Legal[n + 1][t][v] = LegalBy(Legal[n], t, v)
              /\ Meant[n + 1][t][v] = MeantBy(Meant[n], t, v)
              /\ W[n + 1][t][v] = WriteBy(W[n], t, v, order)
            <4>1. PICK k \in 0..MaxDepth : k = n + 1 /\ k # 0 /\ k - 1 = n
                BY <2>1
            <4>2. /\ Typed[k][t][v] = TypedBy(Typed[k - 1], t, v)
                  /\ Legal[k][t][v] = LegalBy(Legal[k - 1], t, v)
                  /\ Meant[k][t][v] = MeantBy(Meant[k - 1], t, v)
                  /\ W[k][t][v] = WriteBy(W[k - 1], t, v, order)
                BY <1>1, <1>2, <4>1
            <4> QED BY <2>3, <4>1, <4>2, Zenon
        <3>2. /\ WellFormed(t)
              /\ UnderstoodBy(R[n], w, t, WriteBy(W[n], t, v, order), LegalBy(Legal[n], t, v),
                              MeantBy(Meant[n], t, v))
            BY <2>2, <3>1, LevelUnderstood
        <3>3. AnyOf(Wire(t)) \in Universe
            BY <3>2, Kinds, CodecAssumption
        <3>4. \A p \in Nat : /\ R[n + 1][t][p] = ReadBy(R[n], t, w, p)
                             /\ R[n + 1][AnyOf(Wire(t))][p] = ReadBy(R[n], AnyOf(Wire(t)), w, p)
            BY <1>3, <2>1, <3>3
        <3>5. UnderstoodBy(R[n], w, t, W[n + 1][t][v], Legal[n + 1][t][v], Meant[n + 1][t][v])
            BY <3>1, <3>2
        <3> QED BY <3>2, <3>4, <3>5, Zenon DEF UnderstoodBy, Understood
    <2> QED BY <2>3, Zenon DEF Faithful
<1>6. d \in Good /\ d <= MaxDepth
    <2> HIDE DEF Good
    <2> QED BY <1>0, <1>4, <1>5, SetInduction
<1>7. Is(d)
    <2> HIDE DEF Is
    <2> QED BY <1>6
<1> QED BY <1>7 DEF W, R

\* One level of what the codec's functions say of a value.
LEMMA OneLevel ==
    ASSUME NEW d \in 1..MaxDepth, NEW t \in Universe, NEW v \in Universe
    PROVE  /\ Typed[d][t][v] = TypedBy(Typed[d - 1], t, v)
           /\ Legal[d][t][v] = LegalBy(Legal[d - 1], t, v)
           /\ Meant[d][t][v] = MeantBy(Meant[d - 1], t, v)
<1>1. d \in 0..MaxDepth /\ d # 0
    BY CodecAssumption
<1>2. /\ Typed[d] = TypedLevel(d, Typed[d - 1]) /\ Legal[d] = LegalLevel(d, Legal[d - 1])
      /\ Meant[d] = MeantLevel(d, Meant[d - 1])
    BY <1>1, TypedEquation, LegalEquation, MeantEquation
<1>3. TypedLevel(d, Typed[d - 1])[t][v] = TypedBy(Typed[d - 1], t, v)
    BY <1>1 DEF TypedLevel
<1>4. LegalLevel(d, Legal[d - 1])[t][v] = LegalBy(Legal[d - 1], t, v)
    BY <1>1 DEF LegalLevel
<1>5. MeantLevel(d, Meant[d - 1])[t][v] = MeantBy(Meant[d - 1], t, v)
    BY <1>1 DEF MeantLevel
<1> QED BY <1>2, <1>3, <1>4, <1>5, Zenon

\* One level of the writer and of the reader.
LEMMA OneLevelCode ==
    ASSUME NEW d \in 1..MaxDepth, NEW t \in Universe, NEW v \in Universe, NEW order, NEW w, NEW p \in Nat
    PROVE  /\ Writer(order)[d][t][v] = WriteBy(Writer(order)[d - 1], t, v, order)
           /\ Reader(w)[d][t][p] = ReadBy(Reader(w)[d - 1], t, w, p)
<1>1. d \in 0..MaxDepth /\ d # 0
    BY CodecAssumption
<1>2. /\ Writer(order)[d] = WriterLevel(order, d, Writer(order)[d - 1])
      /\ Reader(w)[d] = ReaderLevel(w, d, Reader(w)[d - 1])
    BY <1>1, WriterEquation, ReaderEquation
<1>3. WriterLevel(order, d, Writer(order)[d - 1])[t][v] = WriteBy(Writer(order)[d - 1], t, v, order)
    BY <1>1 DEF WriterLevel
<1>4. ReaderLevel(w, d, Reader(w)[d - 1])[t][p] = ReadBy(Reader(w)[d - 1], t, w, p)
    BY <1>1 DEF ReaderLevel
<1> QED BY <1>2, <1>3, <1>4, Zenon

\* Nothing of depth 0 has a type.
LEMMA TypedDeep ==
    ASSUME NEW t \in Universe, NEW v \in Universe, Typed[MaxDepth][t][v]
    PROVE  MaxDepth \in 1..MaxDepth /\ MaxDepth \in 0..MaxDepth /\ MaxDepth - 1 \in 0..MaxDepth
<1>1. MaxDepth # 0
    <2>1. ASSUME MaxDepth = 0 PROVE FALSE
        <3>1. Typed[0] = TypedLevel(0, Typed[0 - 1])
            BY <2>1, TypedEquation
        <3>2. TypedLevel(0, Typed[0 - 1])[t][v] = FALSE
            BY DEF TypedLevel
        <3> QED BY <2>1, <3>1, <3>2
    <2> QED BY <2>1
<1> QED BY <1>1, CodecAssumption

\* A message is a sequence of tokens, and not empty.
LEMMA WrittenTyped ==
    ASSUME NEW order \in Orders, NEW t \in Universe, NEW v \in Universe,
           Typed[MaxDepth][t][v], Wire(t) = "struct"
    PROVE  /\ Written(t, v, order) \in Seq(Tokens)
           /\ Len(Written(t, v, order)) \in Nat /\ Len(Written(t, v, order)) # 0
<1> DEFINE w == Written(t, v, order)
           D == MaxDepth
<1>0. D \in 1..D /\ D \in 0..D /\ D - 1 \in 0..D
    BY TypedDeep
<1>1. Len(<<>>) \in Nat
    OBVIOUS
<1>2. Faithful(Writer(order)[D - 1], Reader(<<>>)[D - 1], Typed[D - 1], Legal[D - 1], Meant[D - 1], <<>>)
    BY <1>0, <1>1, Faithfulness
<1>3. TypedBy(Typed[D - 1], t, v)
    BY <1>0, OneLevel
<1>4. PICK fields, all : fields = FieldsOf(t) /\ all = Sendable(fields)
    OBVIOUS
<1>5. Held(Typed[D - 1], all, v)
    BY <1>3, <1>4, StructFields
<1>6. w = WriteStruct(Writer(order)[D - 1], all, v, order)
    <2>1. w = WriteBy(Writer(order)[D - 1], t, v, order)
        <3>1. 0 \in Nat
            OBVIOUS
        <3> QED BY <1>0, <3>1, OneLevelCode DEF Written
    <2> QED BY <1>4, <2>1 DEF WriteBy
<1> HIDE DEF w
<1>7. w \in Seq(Tokens) /\ Len(w) = Len(FlattenSeq(FieldParts(Writer(order)[D - 1], all, v, order))) + 1
    BY <1>2, <1>5, <1>6, StructWritten
<1>8. Len(FlattenSeq(FieldParts(Writer(order)[D - 1], all, v, order))) \in Nat
    BY <1>2, <1>5, StructWritten
<1> QED BY <1>7, <1>8 DEF w

\* A message was read back: its meaning, to its last token, unless it has none.
Returned(t, v, w) ==
    IF Legal[MaxDepth][t][v] THEN ReadFrom(t, w) = Ok(Meant[MaxDepth][t][v], 1 + Len(w))
    ELSE ReadFrom(t, w).ok = FALSE
\* What write_to_out_protocol sends read_from_in_protocol reads again, for any struct
\* of any depth: from a peer that adds fields and writes them in any order the reader
\* gets the known fields, and uses the message up; a message that lacks a required
\* field or has an unknown enum value, at any depth, is turned down.
THEOREM RoundTrip ==
    ASSUME NEW order \in Orders, NEW t \in Universe, NEW v \in Universe,
           Typed[MaxDepth][t][v], Wire(t) = "struct"
    PROVE  Returned(t, v, Written(t, v, order))
<1> DEFINE w == Written(t, v, order)
           D == MaxDepth
<1>1. D \in 1..D /\ D \in 0..D /\ D - 1 \in 0..D
    BY TypedDeep
<1>2. w \in Seq(Tokens) /\ Len(w) \in Nat /\ Len(w) # 0
    BY WrittenTyped
<1>3. Reads(Reader(w)[D][t][1], Legal[D][t][v], Meant[D][t][v], 1, 1 + Len(w))
    <2>1. Faithful(Writer(order)[D], Reader(w)[D], Typed[D], Legal[D], Meant[D], w)
        BY <1>1, <1>2, Faithfulness
    <2>2. w = Writer(order)[D][t][v]
        BY DEF Written
    <2>3. Occurs(w, w, 1)
        <3>1. \A i \in 1..Len(w) : 1 + i - 1 = i
            BY <1>2
        <3> HIDE DEF w
        <3> QED BY <3>1 DEF Occurs
    <2> HIDE DEF w
    <2>4. \A p \in Nat : p # 0 /\ Occurs(w, w, p) => Reads(Reader(w)[D][t][p], Legal[D][t][v], Meant[D][t][v], p, p + Len(w))
        BY <2>1, <2>2, PartUnderstood
    <2>5. 1 \in Nat /\ 1 # 0
        OBVIOUS
    <2> QED BY <2>3, <2>4, <2>5
<1>4. ReadFrom(t, w) = Reader(w)[D][t][1]
    BY <1>2 DEF ReadFrom
<1> HIDE DEF w
<1>5. Returned(t, v, w)
    BY <1>3, <1>4 DEF Reads, Returned
<1> QED BY <1>5 DEF w

\* A struct without required fields that is turned down is turned down before its end.
LEMMA StopsBeforeEnd ==
    ASSUME NEW W, NEW R, NEW T, NEW L, NEW M, NEW w, Faithful(W, R, T, L, M, w), Len(w) \in Nat,
           NEW t, NEW v, TypedBy(T, t, v), Wire(t) = "struct", NEW order \in Orders,
           \A n \in DOMAIN FieldsOf(t) : ~FieldsOf(t)[n].required, ~LegalBy(L, t, v),
           w = WriteBy(W, t, v, order)
    PROVE  ReadBy(R, t, w, 1).p <= Len(w)
<1>0. WellFormed(t) /\ t.k # "any"
    <2>1. WellFormed(t)
        BY DEF TypedBy
    <2> QED BY <2>1, Kinds
<1>1. PICK fields, all : fields = FieldsOf(t) /\ all = Sendable(fields)
    OBVIOUS
<1>2. /\ Held(T, all, v) /\ Knows(fields, all)
      /\ \A n \in DOMAIN fields : n \in DOMAIN all /\ all[n] = fields[n]
    BY <1>1, StructFields
<1>3. w = WriteStruct(W, all, v, order)
    BY <1>1 DEF WriteBy
<1>4. PICK l \in Nat : l = Len(FlattenSeq(FieldParts(W, all, v, order)))
    BY <1>2, StructWritten
<1>5. Len(w) = l + 1
    <2>1. Len(WriteStruct(W, all, v, order)) = Len(FlattenSeq(FieldParts(W, all, v, order))) + 1
        BY <1>2, StructWritten
    <2> QED BY <1>3, <1>4, <2>1
<1>6. PICK bad, y, N : bad = Unread(L, all, v) /\ y = Values(M, all, v) /\ N = DOMAIN v \cap DOMAIN fields
    OBVIOUS
<1>7. N \cap bad # {}
    <2>1. LegalBy(L, t, v) <=> (N \cap bad = {} /\ \A n \in DOMAIN fields : fields[n].required => n \in N)
        BY <1>0, <1>1, <1>2, <1>6, StructLegal
    <2> QED BY <1>1, <2>1
<1>8. Occurs(WriteStruct(W, all, v, order), w, 1)
    <2>1. \A i \in 1..Len(w) : 1 + i - 1 = i
        OBVIOUS
    <2>2. Occurs(w, w, 1)
        BY <2>1 DEF Occurs
    <2> QED BY <1>3, <2>2
<1>9. LoopReads(FieldLoop(R, fields, w)[Len(w)][1], N, bad, y, 1, 1 + l)
    <2>1. 1 \in Nat /\ 1 # 0
        OBVIOUS
    <2> QED BY <1>2, <1>4, <1>6, <1>8, <2>1, FieldsFound
<1> DEFINE r == FieldLoop(R, fields, w)[Len(w)][1]
<1>10. r.ok = FALSE /\ r.p \in 1..(1 + l)
    BY <1>7, <1>9 DEF LoopReads
<1>11. ReadBy(R, t, w, 1) = r
    BY <1>0, <1>1, <1>10 DEF ReadBy, Keep, ReadStruct, Complete
<1> HIDE DEF r
<1> QED BY <1>5, <1>10, <1>11

-----------------------------------------------------------------------------
(* the messages of the service *)

\* A Result struct has one optional field.
LEMMA ResultFields ==
    ASSUME NEW n
    PROVE  /\ Wire(ResultType(n)) = "struct"
           /\ FieldsOf(ResultType(n)) = [success |-> Opt(0, Methods[n].ret)]
           /\ DOMAIN FieldsOf(ResultType(n)) = {"success"}
           /\ FieldsOf(ResultType(n))["success"].type = Methods[n].ret
           /\ FieldsOf(ResultType(n))["success"].required = FALSE
           /\ FieldsOf(ResultType(n))["success"].default = FALSE
<1>1. Wire(ResultType(n)) = "struct" /\ FieldsOf(ResultType(n)) = [success |-> Opt(0, Methods[n].ret)]
    BY DEF ResultType, Struct, Wire, FieldsOf
<1> QED BY <1>1 DEF Opt

\* Arguments reach the handler as they were passed.
LEMMA ArgsReach ==
    ASSUME NEW r \in Requests
    PROVE  ReadArgs(r) = [ok |-> TRUE, v |-> Meant[MaxDepth][ArgsType(r.name)][ArgsOf(r)]]
<1> DEFINE t == ArgsType(r.name)
           v == ArgsOf(r)
<1>1. /\ t \in Universe /\ v \in Universe /\ Typed[MaxDepth][t][v] /\ Legal[MaxDepth][t][v]
      /\ Ascending \in Orders /\ ReadArgs(r) = ArgsRead(r.name, v)
    BY MessagesAssumption
<1>2. Wire(t) = "struct"
    BY DEF ArgsType, Struct, Wire
<1>3. Returned(t, v, Written(t, v, Ascending))
    BY <1>1, <1>2, RoundTrip
<1> DEFINE d == ReadFrom(t, Written(t, v, Ascending))
<1>4. d.ok = TRUE /\ d.v = Meant[MaxDepth][t][v]
    BY <1>1, <1>3 DEF Returned, Ok
<1>5. ArgsRead(r.name, v) = [ok |-> d.ok, v |-> d.v]
    BY DEF ArgsRead
<1> HIDE DEF d, t, v
<1>6. ArgsRead(r.name, v) = [ok |-> TRUE, v |-> Meant[MaxDepth][t][v]]
    BY <1>4, <1>5
<1> QED BY <1>1, <1>6 DEF t, v

\* What the client makes of a reply.
ReplyMeans(n, b) ==
    LET res == ResultOf(n, b)
        legal == Legal[MaxDepth][ResultType(n)][res]
        ret == Methods[n].ret
    IN  /\ Decode(n, b).st = "undecodable" => ~legal
        /\ Decode(n, b).st = "missing" => "success" \notin DOMAIN res
        /\ Decode(n, b).st = "ok" =>
            /\ "success" \in DOMAIN res
            /\ Legal[MaxDepth - 1][ret][res["success"]]
            /\ Decode(n, b).v = Meant[MaxDepth - 1][ret][res["success"]]
\* The client makes of a reply what its sender meant.
LEMMA ReplyReached ==
    ASSUME NEW n \in Names, NEW b \in Bodies(n)
    PROVE  ReplyMeans(n, b)
<1> DEFINE t == ResultType(n)
           res == ResultOf(n, b)
           order == OrderOf(n, b)
           D == MaxDepth
           ret == Methods[n].ret
           w == Written(t, res, order)
           d == ReadFrom(t, w)
<1>1. /\ t \in Universe /\ res \in Universe /\ order \in Orders /\ Typed[D][t][res]
      /\ Decode(n, b) = ResultRead(n, res, order)
    BY MessagesAssumption
<1>2. Wire(t) = "struct"
    BY ResultFields
<1>3. Returned(t, res, w)
    BY <1>1, <1>2, RoundTrip
<1>4. D \in 1..D
    BY <1>1, TypedDeep
<1>5. Legal[D][t][res] = LegalBy(Legal[D - 1], t, res) /\ Meant[D][t][res] = MeantBy(Meant[D - 1], t, res)
    BY <1>1, <1>4, OneLevel
<1> DEFINE st == IF ~d.ok THEN "undecodable" ELSE IF "success" \in DOMAIN d.v THEN "ok" ELSE "missing"
<1>6. /\ Decode(n, b).st = st
      /\ st = "ok" => Decode(n, b).v = d.v["success"]
    BY <1>1 DEF ResultRead, OkOr
<1>7. /\ d.ok <=> Legal[D][t][res]
      /\ d.ok => d.v = Meant[D][t][res]
    BY <1>3 DEF Returned, Ok
<1>8. LegalBy(Legal[D - 1], t, res) => ("success" \in DOMAIN res => Legal[D - 1][ret][res["success"]])
    <2>1. t.k # "enum"
        BY DEF ResultType, Struct
    <2>2. FieldsOf(t)["success"].type = ret /\ DOMAIN FieldsOf(t) = {"success"}
        BY ResultFields
    <2> QED BY <1>2, <2>1, <2>2 DEF LegalBy
<1>9. /\ DOMAIN MeantBy(Meant[D - 1], t, res) = {"success"} \cap DOMAIN res
      /\ "success" \in DOMAIN res =>
            MeantBy(Meant[D - 1], t, res)["success"] = Meant[D - 1][ret][res["success"]]
    <2>1. PICK fields : /\ fields = FieldsOf(t) /\ DOMAIN fields = {"success"}
                        /\ fields["success"].type = ret /\ fields["success"].default = FALSE
        BY ResultFields
    <2>2. MeantBy(Meant[D - 1], t, res) =
            [m \in {k \in DOMAIN fields : k \in DOMAIN res \/ fields[k].default} |->
                IF m \in DOMAIN res THEN Meant[D - 1][fields[m].type][res[m]] ELSE 0]
        BY <1>2, <2>1 DEF MeantBy
    <2>3. {k \in DOMAIN fields : k \in DOMAIN res \/ fields[k].default} = {"success"} \cap DOMAIN res
        BY <2>1
    <2> HIDE DEF t, res, ret
    <2> QED BY <2>1, <2>2, <2>3
<1> HIDE DEF d, t, res, D, ret
<1>10. st = "undecodable" => ~Legal[D][t][res]
    BY <1>7
<1>11. st = "missing" => "success" \notin DOMAIN res
    BY <1>5, <1>7, <1>9
<1>12. st = "ok" => /\ "success" \in DOMAIN res /\ Legal[D - 1][ret][res["success"]]
                    /\ d.v["success"] = Meant[D - 1][ret][res["success"]]
    BY <1>5, <1>7, <1>8, <1>9
<1> HIDE DEF st
<1> QED BY <1>6, <1>10, <1>11, <1>12 DEF ReplyMeans, t, res, D, ret

\* The reader leaves part of a frame behind exactly when it gives up: what
\* RpcAssumption says of any decoder, this one does.
THEOREM LeavesWhenUndecodable ==
    ASSUME NEW n \in Names, NEW b \in Bodies(n)
    PROVE  LET x == ResultRead(n, ResultOf(n, b), OrderOf(n, b))
           IN  x.st \in {"ok", "missing", "undecodable"} /\ x.left = (x.st = "undecodable")
<1> DEFINE t == ResultType(n)
           res == ResultOf(n, b)
           order == OrderOf(n, b)
           D == MaxDepth
           w == Written(t, res, order)
           d == ReadFrom(t, w)
           x == ResultRead(n, res, order)
<1>1. t \in Universe /\ res \in Universe /\ order \in Orders /\ Typed[D][t][res]
    BY MessagesAssumption
<1>2. Wire(t) = "struct" /\ \A m \in DOMAIN FieldsOf(t) : ~FieldsOf(t)[m].required
    BY ResultFields
<1>3. Returned(t, res, w)
    BY <1>1, <1>2, RoundTrip
<1>4. D \in 1..D /\ D - 1 \in 0..D
    BY <1>1, TypedDeep
<1>5. w \in Seq(Tokens) /\ Len(w) \in Nat /\ Len(w) # 0
    BY <1>1, <1>2, WrittenTyped
<1>6. ~Legal[D][t][res] => d.p <= Len(w)
    <2>1. Faithful(Writer(order)[D - 1], Reader(w)[D - 1], Typed[D - 1], Legal[D - 1], Meant[D - 1], w)
        BY <1>1, <1>4, <1>5, Faithfulness
    <2>2. TypedBy(Typed[D - 1], t, res) /\ Legal[D][t][res] = LegalBy(Legal[D - 1], t, res)
        BY <1>1, <1>4, OneLevel
    <2>3. 1 \in Nat
        OBVIOUS
    <2>4. w = WriteBy(Writer(order)[D - 1], t, res, order)
        BY <1>1, <1>4, <2>3, OneLevelCode DEF Written
    <2>5. d = ReadBy(Reader(w)[D - 1], t, w, 1)
        BY <1>1, <1>4, <1>5, <2>3, OneLevelCode DEF ReadFrom
    <2> HIDE DEF w, d, t, res, order, D
    <2> QED BY <1>1, <1>2, <1>5, <2>1, <2>2, <2>4, <2>5, StopsBeforeEnd
<1>7. Legal[D][t][res] => d.ok = TRUE /\ d.p = 1 + Len(w)
    BY <1>3 DEF Returned, Ok
<1>8. ~Legal[D][t][res] => d.ok = FALSE
    BY <1>3 DEF Returned
<1>9. /\ x.st = IF ~d.ok THEN "undecodable" ELSE IF "success" \in DOMAIN d.v THEN "ok" ELSE "missing"
      /\ x.left = (d.p <= Len(w))
    BY DEF ResultRead, OkOr
<1> HIDE DEF d, w, x
<1>10. CASE Legal[D][t][res]
    <2>1. ~(d.p <= Len(w))
        BY <1>5, <1>7, <1>10
    <2>2. x.st \in {"ok", "missing"}
        BY <1>7, <1>9, <1>10
    <2> QED BY <1>9, <2>1, <2>2 DEF x
<1>11. CASE ~Legal[D][t][res]
    BY <1>6, <1>8, <1>9, <1>11 DEF x
<1> QED BY <1>10, <1>11

-----------------------------------------------------------------------------
(* what a call delivers *)

\* What the server last handled it read as ReadArgs does; what a call returned it
\* read, as Decode does, from a body its method may be answered with.
HandledRead == handled # None => \E r \in Requests : handled = [req |-> r, args |-> ReadArgs(r)]
GotRead ==
    result \in {"ok", "missing", "undecodable"} =>
        \E n \in Names : \E b \in Bodies(n) :
            result = Decode(n, b).st /\ got = [name |-> n, body |-> b, v |-> Decode(n, b).v]

\* Only the server reads requests.
LEMMA HandledReadKept ==
    ASSUME RpcInv, HandledRead, [Next]_vars
    PROVE  HandledRead'
<1>1. CASE handled' = None \/ handled' = handled
    BY <1>1 DEF HandledRead
<1>2. CASE Serve
    <2>1. Head(sent) \in Messages
        BY <1>2 DEF Serve, RpcInv, TypeOK
    <2>2. Head(sent).req \in Requests
        BY <2>1 DEF Messages
    <2>3. handled' = [req |-> Head(sent).req, args |-> ReadArgs(Head(sent).req)]
        BY <1>2 DEF Serve
    <2> QED BY <2>2, <2>3 DEF HandledRead
<1> QED BY <1>1, <1>2 DEF Next, ReadStep, vars, Open, ConnectAddr, SetUp, Call, ReadReply, ReadRest, ReadOver, ReadEof, Break

\* Only ReadReply reads replies, and it takes a body that the server sent.
LEMMA GotReadKept ==
    ASSUME RpcInv, GotRead, [Next]_vars
    PROVE  GotRead'
<1>1. CASE result' = result /\ got' = got
    BY <1>1 DEF GotRead
<1>2. CASE result' \notin {"ok", "missing", "undecodable"}
    BY <1>2 DEF GotRead
<1>3. CASE ReadReply
    <2> DEFINE f == Head(inbox)
    <2>1. inbox \in Seq(Frames) /\ inbox # <<>>
        BY <1>3 DEF ReadReply, RpcInv, TypeOK
    <2>2. f \in Frames /\ 1 \in 1..Len(inbox) /\ f = inbox[1]
        BY <2>1
    <2>3. f.kind = "reply" => f.body \in Bodies(f.name)
        BY <2>2 DEF RpcInv, BodiesFit
    <2>4. f.name \in Names
        BY <2>2 DEF Frames
    <2>5. CASE result' \in {"mismatch", "exception"}
        BY <1>2, <2>5
    <2>6. CASE /\ f.kind = "reply" /\ result' = Decode(f.name, f.body).st
               /\ got' = [name |-> f.name, body |-> f.body, v |-> Decode(f.name, f.body).v]
        BY <2>3, <2>4, <2>6 DEF GotRead
    <2> QED BY <1>3, <2>5, <2>6 DEF ReadReply
<1>4. CASE ConnectAddr
    <2>1. result' \in {"unresolved", "refused", "none"} \/ (result' = result /\ got' = got)
        BY <1>4 DEF ConnectAddr
    <2> QED BY <1>1, <1>2, <2>1
<1>5. CASE Open \/ ReadRest \/ ReadOver \/ ReadEof \/ \E r \in Requests : Call(r)
    <2>1. result' \in {"none", "lookup", "mismatch", "transport"}
        BY <1>5 DEF Open, ReadRest, ReadOver, ReadEof, Call
    <2> QED BY <1>2, <2>1
<1>7. CASE SetUp
    <2>1. result' = "setup" \/ (result' = result /\ got' = got)
        BY <1>7 DEF SetUp
    <2> QED BY <1>1, <1>2, <2>1
<1>6. CASE Serve \/ Break \/ UNCHANGED vars
    BY <1>1, <1>6 DEF Serve, Break, vars
<1> QED BY <1>3, <1>4, <1>5, <1>6, <1>7 DEF Next, ReadStep

\* Both hold throughout.
LEMMA ReadThroughout == Spec => [](HandledRead /\ GotRead)
<1>1. Init => HandledRead /\ GotRead
    BY DEF Init, HandledRead, GotRead
<1>2. RpcInv /\ HandledRead /\ GotRead /\ [Next]_vars => (HandledRead /\ GotRead)'
    BY HandledReadKept, GotReadKept
<1> QED BY <1>1, <1>2, RpcInvariant, PTL DEF Spec

\* The arguments of a call reach the handler as the caller passed them, for every
\* method, whichever optional fields are set: the generated writer and the generated
\* reader of an Args struct are each other's inverse.
THEOREM ArgsAlwaysDelivered == Spec => []ArgsDelivered
<1>1. HandledRead => ArgsDelivered
    <2> SUFFICES ASSUME HandledRead, handled # None
                 PROVE  handled.args =
                    [ok |-> TRUE, v |-> Meant[MaxDepth][ArgsType(handled.req.name)][ArgsOf(handled.req)]]
        BY DEF ArgsDelivered
    <2>1. PICK r \in Requests : handled = [req |-> r, args |-> ReadArgs(r)]
        BY DEF HandledRead
    <2>2. handled.req = r /\ handled.args = ReadArgs(r)
        BY <2>1
    <2> QED BY <2>2, ArgsReach
<1> QED BY <1>1, ReadThroughout, PTL

\* What a call returns of its reply.
LEMMA ReplyUnderstood ==
    ASSUME GotRead, result \in {"ok", "missing", "undecodable"}
    PROVE  \E n \in Names : \E b \in Bodies(n) :
            /\ result = Decode(n, b).st /\ ReplyMeans(n, b)
            /\ got.name = n /\ got.body = b /\ got.v = Decode(n, b).v
<1>1. PICK n \in Names : \E b \in Bodies(n) :
            result = Decode(n, b).st /\ got = [name |-> n, body |-> b, v |-> Decode(n, b).v]
    BY DEF GotRead
<1>2. PICK b \in Bodies(n) :
            result = Decode(n, b).st /\ got = [name |-> n, body |-> b, v |-> Decode(n, b).v]
    BY <1>1
<1>3. ReplyMeans(n, b)
    BY ReplyReached
<1> QED BY <1>2, <1>3

\* A client method that returns a result returns the one the server sent, from a
\* peer of any version that writes its fields in any order, and never one that lacks
\* a required field or has an unknown enum value.
THEOREM ReplyAlwaysIntact == Spec => []ReplyIntact
<1>1. GotRead => ReplyIntact
    <2> SUFFICES ASSUME GotRead, result = "ok"
                 PROVE  LET ret == Methods[got.name].ret
                            sentValue == ResultOf(got.name, got.body)["success"]
                        IN  /\ "success" \in DOMAIN ResultOf(got.name, got.body)
                            /\ Legal[MaxDepth - 1][ret][sentValue]
                            /\ got.v = Meant[MaxDepth - 1][ret][sentValue]
        BY DEF ReplyIntact
    <2>1. PICK n \in Names : \E b \in Bodies(n) :
            /\ result = Decode(n, b).st /\ ReplyMeans(n, b)
            /\ got.name = n /\ got.body = b /\ got.v = Decode(n, b).v
        BY ReplyUnderstood
    <2>2. PICK b \in Bodies(n) :
            /\ result = Decode(n, b).st /\ ReplyMeans(n, b)
            /\ got.name = n /\ got.body = b /\ got.v = Decode(n, b).v
        BY <2>1
    <2>3. /\ "success" \in DOMAIN ResultOf(n, b)
          /\ Legal[MaxDepth - 1][Methods[n].ret][ResultOf(n, b)["success"]]
          /\ Decode(n, b).v = Meant[MaxDepth - 1][Methods[n].ret][ResultOf(n, b)["success"]]
        BY <2>2 DEF ReplyMeans
    <2> QED BY <2>2, <2>3
<1> QED BY <1>1, ReadThroughout, PTL

\* A reply is turned down only when it lacks a required field or has an unknown enum
\* value somewhere in it, and reported as missing only when it has no result.
THEOREM ReplyAlwaysTolerated == Spec => []ReplyTolerated
<1>1. GotRead => ReplyTolerated
    <2>1. ASSUME GotRead, result \in {"undecodable", "missing"} PROVE ReplyTolerated
        <3>1. PICK n \in Names : \E b \in Bodies(n) :
                /\ result = Decode(n, b).st /\ ReplyMeans(n, b)
                /\ got.name = n /\ got.body = b /\ got.v = Decode(n, b).v
            BY <2>1, ReplyUnderstood
        <3>2. PICK b \in Bodies(n) :
                /\ result = Decode(n, b).st /\ ReplyMeans(n, b)
                /\ got.name = n /\ got.body = b /\ got.v = Decode(n, b).v
            BY <3>1
        <3>3. /\ result = "undecodable" => ~Legal[MaxDepth][ResultType(n)][ResultOf(n, b)]
              /\ result = "missing" => "success" \notin DOMAIN ResultOf(n, b)
            BY <3>2 DEF ReplyMeans
        <3> QED BY <3>2, <3>3 DEF ReplyTolerated
    <2> QED BY <2>1 DEF ReplyTolerated
<1> QED BY <1>1, ReadThroughout, PTL
==============================================================================
