-------------------------- MODULE HttpServerProofs --------------------------
(***************************************************************************)
(* What holds of answerToConnection's bookkeeping for any number of        *)
(* connections, requests and postStatus blocks: the types, whose block     *)
(* *con_cls points to, what is allocated, that no POST hands over another's*)
(* data, and that the calls are those of libmicrohttpd's contract.  Last,  *)
(* what its answers tell where bodies come in one packet.                  *)
(***************************************************************************)
EXTENDS HttpServer, SequenceTheorems, TLAPS

(* The buffer of a POST under way holds nothing yet, or a part of its own  *)
(* body that ends where the calls have got to.                             *)
BuffersAreOwn ==
  \A c \in Conns : InPost(c) =>
    LET buff == post[con_cls[c]].buff
    IN  buff # Garbage => \E i \in 1 .. given[c] : buff = SubSeq(rq[c].body, i, given[c])

(* A connection that waits for its first call carries nothing over, and    *)
(* the final call comes when all of the body was given.                    *)
Between ==
  \A c \in Conns : /\ conn[c] \in {"init", "headers"} => con_cls[c] = NULL
                   /\ conn[c] # "init" => rq[c] \in Asks
                   /\ conn[c] = "final" => given[c] = Len(rq[c].body)

Histories == handed = [c \in Conns |-> handed[c]] /\ leaked \subseteq Posts

(* The inductive invariant.                                                *)
HInv ==
  /\ TypeOK /\ Histories /\ Between
  /\ PostPointers /\ PostsAccounted /\ BuffersAreOwn /\ NothingMixed

(* What the actions use of a body.                                         *)
LEMMA BodyFacts ==
  ASSUME NEW a \in Asks
  PROVE  Len(a.body) \in Nat /\ DOMAIN a.body = 1 .. Len(a.body)
  BY HSAssumption

(* A part of a body is text, not the garbage of an unset buff.             *)
LEMMA PartIsText ==
  ASSUME NEW a \in Asks, NEW i \in Nat, NEW j \in Nat, 1 <= i, i <= j, j <= Len(a.body)
  PROVE  IsText(SubSeq(a.body, i, j))
  <1>1. i \in DOMAIN a.body /\ j \in DOMAIN a.body
    BY BodyFacts
  <1>2. QED
    BY <1>1 DEF IsText

(* The program starts in the inductive invariant.                          *)
LEMMA InitHInv == Init => HInv
  <1> SUFFICES ASSUME Init PROVE HInv
    OBVIOUS
  <1> USE HSAssumption DEF Init
  <1>1. TypeOK
    <2>2. post = [p \in Posts |-> [status |-> post[p].status, buff |-> post[p].buff]]
      OBVIOUS
    <2>3. \A p \in Posts : post[p].status \in BOOLEAN /\ IsText(post[p].buff)
      BY DEF IsText
    <2>4. AreTexts(db)
      BY DEF AreTexts
    <2>5. /\ conn \in [Conns -> {"init", "headers", "body", "final", "reply"}]
          /\ rq \in [Conns -> Asks \cup {NULL}]
          /\ sent \in [Conns -> Nat] /\ given \in [Conns -> Nat]
          /\ \A c \in Conns : conn[c] = "init"
      OBVIOUS
    <2>6. running \in Conns \cup {NULL, "crashed"} /\ con_cls \in [Conns -> Posts \cup {NULL}]
      OBVIOUS
    <2>7. postLive \subseteq Posts /\ postWithDataFlag \in BOOLEAN
      OBVIOUS
    <2>8. asks \in 0 .. MaxAsks
      OBVIOUS
    <2>9. QED
      BY <2>2, <2>3, <2>4, <2>5, <2>6, <2>7, <2>8 DEF TypeOK
  <1>2. Histories /\ Between
    BY DEF Histories, Between
  <1>3. PostPointers /\ PostsAccounted /\ BuffersAreOwn
    BY DEF PostPointers, PostsAccounted, BuffersAreOwn, InPost
  <1>4. NothingMixed
    BY DEF NothingMixed
  <1>5. QED
    BY <1>1, <1>2, <1>3, <1>4 DEF HInv

(* What a response does to its connection.                                 *)
LEMMA SendResponseFacts ==
  ASSUME HInv, NEW c \in Conns, NEW json, SendResponse(c, json)
  PROVE  /\ running' = NULL
         /\ conn' \in [Conns -> {"init", "headers", "body", "final", "reply"}]
         /\ conn'[c] \in {"init", "reply"}
         /\ conn'[c] = "reply" => conn[c] \in {"headers", "final"} /\ con_cls'[c] = con_cls[c]
         /\ conn'[c] = "init" => con_cls'[c] = NULL
         /\ \A d \in Conns \ {c} : conn'[d] = conn[d] /\ con_cls'[d] = con_cls[d]
         /\ con_cls' \in [Conns -> Posts \cup {NULL}]
  BY DEF SendResponse, HInv, TypeOK

(* The callback goes on with a POST.                                       *)
LEMMA ContinueFacts ==
  ASSUME HInv, NEW c \in Conns, Continue(c)
  PROVE  /\ running' \in Conns \cup {NULL}
         /\ conn' \in [Conns -> {"init", "headers", "body", "final", "reply"}]
         /\ conn'[c] \in {"body", "final"}
         /\ conn'[c] = "final" => given'[c] = Len(rq[c].body)
         /\ \A d \in Conns \ {c} : conn'[d] = conn[d]
  BY DEF Continue, HInv, TypeOK

(* What is stored stays a sequence of texts.                               *)
LEMMA Grows ==
  ASSUME NEW s, AreTexts(s), NEW t, IsText(t)
  PROVE  AreTexts(Append(s, t))
  <1> DEFINE S == {s[i] : i \in DOMAIN s} \cup {t}
             r == Append(s, t)
             R == {r[i] : i \in DOMAIN r}
  <1>1. s \in Seq(S)
    BY SeqMonotonic DEF AreTexts
  <1>2. t \in S
    OBVIOUS
  <1> HIDE DEF S
  <1>3. /\ r \in Seq(S) /\ Len(r) = Len(s) + 1 /\ r[Len(s) + 1] = t
        /\ \A i \in 1 .. Len(s) : r[i] = s[i]
    BY <1>1, <1>2, AppendProperties
  <1>4. Len(s) \in Nat /\ DOMAIN s = 1 .. Len(s)
    BY <1>1, LenProperties
  <1> HIDE DEF r
  <1>5. DOMAIN r = 1 .. Len(r) /\ r \in [1 .. Len(r) -> S] /\ Len(r) \in Nat
    BY <1>3, LenProperties
  <1>6. r \in [1 .. Len(r) -> R]
    BY <1>5
  <1> HIDE DEF R
  <1>7. r \in Seq(R)
    BY <1>5, <1>6, SeqDef
  <1>8. \A i \in DOMAIN r : IsText(r[i])
    BY <1>3, <1>4, <1>5 DEF AreTexts
  <1>9. QED
    BY <1>7, <1>8 DEF AreTexts, r, R

(* A new buff changes nothing else of its block, and no other block.       *)
LEMMA BuffOnly ==
  ASSUME TypeOK, NEW p \in Posts, NEW buff, post' = [post EXCEPT ![p].buff = buff]
  PROVE  /\ post' = [q \in Posts |-> [status |-> post'[q].status, buff |-> post'[q].buff]]
         /\ \A q \in Posts : post'[q].status = post[q].status
         /\ \A q \in Posts \ {p} : post'[q] = post[q]
         /\ post'[p].buff = buff
  <1>0. post = [q \in Posts |-> [status |-> post[q].status, buff |-> post[q].buff]]
    BY DEF TypeOK
  <1>1. post' = [q \in Posts |-> IF q = p THEN [post[q] EXCEPT !.buff = buff] ELSE post[q]]
    BY <1>0
  <1>2. [post[p] EXCEPT !.buff = buff] = [status |-> post[p].status, buff |-> buff]
    <2>1. post[p] = [status |-> post[p].status, buff |-> post[p].buff]
      BY <1>0
    <2>2. QED
      BY <2>1
  <1>3. post'[p].buff = buff /\ post'[p].status = post[p].status
    BY <1>1, <1>2
  <1>4. \A q \in Posts \ {p} : post'[q] = post[q]
    BY <1>1
  <1>5. post'[p] = [status |-> post'[p].status, buff |-> post'[p].buff]
    BY <1>1, <1>2, <1>3
  <1>6. \A q \in Posts : post'[q] = [status |-> post'[q].status, buff |-> post'[q].buff]
    BY <1>0, <1>4, <1>5
  <1>7. post' = [q \in Posts |-> [status |-> post'[q].status, buff |-> post'[q].buff]]
    BY <1>1, <1>6
  <1>8. QED
    BY <1>3, <1>4, <1>7

(* What a connection with a POST under way holds.                          *)
LEMMA InPostFacts ==
  ASSUME HInv, NEW c \in Conns, InPost(c)
  PROVE  /\ con_cls[c] \in postLive /\ con_cls[c] \in Posts /\ con_cls[c] # NULL
         /\ rq[c] \in Asks
  <1>1. con_cls[c] \in postLive
    BY DEF HInv, PostPointers
  <1>2. postLive \subseteq Posts
    BY DEF HInv, TypeOK
  <1>3. rq[c] \in Asks
    BY DEF HInv, Between, InPost
  <1>4. QED
    BY <1>1, <1>2, <1>3, HSAssumption

(* Types.                                                                  *)
LEMMA NextTypeOK == HInv /\ [Next]_vars => TypeOK'
  <1> SUFFICES ASSUME HInv, [Next]_vars PROVE TypeOK'
    OBVIOUS
  <1> USE HSAssumption DEF HInv, TypeOK, postVars, heapVars, inputVars
  <1>1. ASSUME NEW c \in Conns, NEW a \in Asks, SendHeaders(c, a) PROVE TypeOK'
    BY <1>1 DEF SendHeaders
  <1>2. ASSUME NEW c \in Conns, SendPart(c) PROVE TypeOK'
    BY <1>2, SMTT(60) DEF SendPart
  <1>3. ASSUME NEW c \in Conns, SendEnd(c) PROVE TypeOK'
    BY <1>3 DEF SendEnd
  <1>4. ASSUME NEW c \in Conns, Abort(c) PROVE TypeOK'
    BY <1>4 DEF Abort
  <1>5. ASSUME NEW c \in Conns, ResponseSent(c) PROVE TypeOK'
    BY <1>5 DEF ResponseSent
  <1>6. ASSUME NEW c \in Conns, Refuse(c) PROVE TypeOK'
    BY <1>6, SendResponseFacts DEF Refuse
  <1>7. ASSUME NEW c \in Conns, AnswerGet(c) PROVE TypeOK'
    BY <1>7, SendResponseFacts DEF AnswerGet
  <1>8. ASSUME NEW c \in Conns, RefuseEndPoint(c) PROVE TypeOK'
    BY <1>8, SendResponseFacts, ZenonT(60) DEF RefuseEndPoint
  <1>9. ASSUME NEW c \in Conns, NEW p \in Posts, FirstCall(c, p) PROVE TypeOK'
    <2>1. post' = [q \in Posts |-> [status |-> post'[q].status, buff |-> post'[q].buff]]
      BY <1>9 DEF FirstCall
    <2>2. \A q \in Posts : post'[q].status \in BOOLEAN /\ IsText(post'[q].buff)
      <3>1. \A q \in Posts \ {p} : post'[q] = post[q]
        BY <1>9 DEF FirstCall
      <3>2. post'[p].status = TRUE /\ post'[p].buff = Garbage
        BY <1>9 DEF FirstCall
      <3>3. IsText(Garbage)
        BY DEF IsText
      <3>4. \A q \in Posts \ {p} : post'[q].status \in BOOLEAN /\ IsText(post'[q].buff)
        BY <3>1
      <3>5. post'[p].status \in BOOLEAN /\ IsText(post'[p].buff)
        BY <3>2, <3>3
      <3>6. QED
        BY <3>4, <3>5
    <2>3. conn[c] = "headers" /\ postLive' \subseteq Posts /\ con_cls' \in [Conns -> Posts \cup {NULL}]
      BY <1>9 DEF FirstCall
    <2>4. Continue(c) /\ UNCHANGED <<inputVars, given, postWithDataFlag, db>>
      BY <1>9 DEF FirstCall
    <2>5. \A d \in Conns : conn'[d] # "init" => conn[d] # "init"
      BY <2>3, <2>4, ContinueFacts, SMTT(60)
    <2>6. QED
      BY <2>1, <2>2, <2>3, <2>4, <2>5, ContinueFacts
  <1>10. ASSUME NEW c \in Conns, DataCall(c) PROVE TypeOK'
    <2> DEFINE buff == SubSeq(rq[c].body, given[c] + 1, sent[c])
    <2>1. /\ conn[c] = "body" /\ given[c] < sent[c] /\ Continue(c)
          /\ post' = [post EXCEPT ![con_cls[c]].buff = buff]
          /\ given' = [given EXCEPT ![c] = sent[c]] /\ postWithDataFlag' = TRUE
          /\ UNCHANGED <<inputVars, con_cls, postLive, db>>
      BY <1>10 DEF DataCall, SetBuff, UploadData, UploadDataTaken
    <2>2. con_cls[c] \in Posts /\ rq[c] \in Asks
      BY <2>1, InPostFacts DEF InPost
    <2>3. IsText(buff)
      <3>1. given[c] \in Nat /\ sent[c] \in Nat /\ sent[c] <= Len(rq[c].body)
        BY <2>1
      <3>2. given[c] + 1 \in Nat /\ 1 <= given[c] + 1 /\ given[c] + 1 <= sent[c]
        BY <2>1, <3>1
      <3>3. QED
        BY <2>2, <3>1, <3>2, PartIsText
    <2> HIDE DEF buff
    <2>4. /\ post' = [q \in Posts |-> [status |-> post'[q].status, buff |-> post'[q].buff]]
          /\ \A q \in Posts : post'[q].status \in BOOLEAN /\ IsText(post'[q].buff)
      <3>1. \A q \in Posts : post[q].status \in BOOLEAN /\ IsText(post[q].buff)
        OBVIOUS
      <3>2. TypeOK /\ post' = [post EXCEPT ![con_cls[c]].buff = buff]
        BY <2>1
      <3> HIDE DEF TypeOK, HInv
      <3>3. /\ post' = [q \in Posts |-> [status |-> post'[q].status, buff |-> post'[q].buff]]
            /\ \A q \in Posts : post'[q].status = post[q].status
            /\ \A q \in Posts \ {con_cls[c]} : post'[q] = post[q]
            /\ post'[con_cls[c]].buff = buff
        BY <2>2, <3>2, BuffOnly
      <3>4. QED
        BY <2>3, <3>1, <3>3
    <2>6. \A d \in Conns : conn'[d] # "init" => conn[d] # "init"
      BY <2>1, ContinueFacts
    <2>7. QED
      BY <2>1, <2>4, <2>6, ContinueFacts
  <1>11. ASSUME NEW c \in Conns, FinalCallWithData(c) PROVE TypeOK'
    <2> DEFINE json == post[con_cls[c]].buff
    <2>1. /\ conn[c] = "final" /\ SendResponse(c, AnswerToPost(db))
          /\ db' = Append(db, json) /\ postWithDataFlag' = FALSE
          /\ postLive' = postLive \ {con_cls[c]}
          /\ UNCHANGED <<inputVars, given, post>>
      BY <1>11 DEF FinalCallWithData, PostCall
    <2>2. con_cls[c] \in Posts
      BY <2>1, InPostFacts DEF InPost
    <2>3. IsText(json)
      BY <2>2
    <2> HIDE DEF json
    <2>4. \A d \in Conns : conn'[d] # "init" => conn[d] # "init"
      BY <2>1, SendResponseFacts
    <2>5. AreTexts(db')
      BY <2>1, <2>3, Grows
    <2>6. QED
      BY <2>1, <2>4, <2>5, SendResponseFacts, ZenonT(60)
  <1>12. ASSUME NEW c \in Conns, FinalCallWithoutData(c) PROVE TypeOK'
    BY <1>12, SendResponseFacts DEF FinalCallWithoutData, PostCall
  <1>13. ASSUME NEW c \in Conns, FirstCallWithoutMemory(c) \/ ReadUnsetBuff(c) PROVE TypeOK'
    BY <1>13 DEF FirstCallWithoutMemory, ReadUnsetBuff
  <1>14. CASE UNCHANGED vars
    BY <1>14 DEF vars
  <1>15. QED
    BY <1>1, <1>2, <1>3, <1>4, <1>5, <1>6, <1>7, <1>8, <1>9, <1>10, <1>11, <1>12, <1>13, <1>14
    DEF Next, Client, AnswerToConnection


(* Nothing is carried over.                                                *)
LEMMA NextBetween == HInv /\ [Next]_vars => (Histories /\ Between)'
  <1> SUFFICES ASSUME HInv, [Next]_vars PROVE (Histories /\ Between)'
    OBVIOUS
  <1> USE HSAssumption DEF HInv, TypeOK, postVars, heapVars, inputVars, Histories, Between
  <1>1. ASSUME NEW c \in Conns, NEW a \in Asks, SendHeaders(c, a) PROVE (Histories /\ Between)'
    BY <1>1 DEF SendHeaders
  <1>2. ASSUME NEW c \in Conns, SendPart(c) PROVE (Histories /\ Between)'
    BY <1>2 DEF SendPart
  <1>3. ASSUME NEW c \in Conns, SendEnd(c) PROVE (Histories /\ Between)'
    BY <1>3 DEF SendEnd
  <1>4. ASSUME NEW c \in Conns, Abort(c) PROVE (Histories /\ Between)'
    BY <1>4 DEF Abort
  <1>5. ASSUME NEW c \in Conns, ResponseSent(c) PROVE (Histories /\ Between)'
    BY <1>5 DEF ResponseSent
  <1>6. ASSUME NEW c \in Conns, Refuse(c) PROVE (Histories /\ Between)'
    BY <1>6, SendResponseFacts DEF Refuse
  <1>7. ASSUME NEW c \in Conns, AnswerGet(c) PROVE (Histories /\ Between)'
    <2>1. /\ \E json : SendResponse(c, json) /\ UNCHANGED <<inputVars, given, leaked>>
          /\ \E h : handed' = [handed EXCEPT ![c] = h]
      BY <1>7 DEF AnswerGet
    <2>2. QED
      BY <2>1, SendResponseFacts, ZenonT(60)
  <1>8. ASSUME NEW c \in Conns, RefuseEndPoint(c) PROVE (Histories /\ Between)'
    BY <1>8, SendResponseFacts DEF RefuseEndPoint
  <1>9. ASSUME NEW c \in Conns, NEW p \in Posts, FirstCall(c, p) PROVE (Histories /\ Between)'
    BY <1>9, ContinueFacts DEF FirstCall, PostCall
  <1>10. ASSUME NEW c \in Conns, DataCall(c) PROVE (Histories /\ Between)'
    BY <1>10, ContinueFacts DEF DataCall, PostCall, SetBuff, UploadData, UploadDataTaken
  <1>11. ASSUME NEW c \in Conns, FinalCallWithData(c) PROVE (Histories /\ Between)'
    <2>1. /\ SendResponse(c, AnswerToPost(db)) /\ UNCHANGED <<inputVars, given, leaked>>
          /\ \E h : handed' = [handed EXCEPT ![c] = h]
      BY <1>11 DEF FinalCallWithData
    <2>2. QED
      BY <2>1, SendResponseFacts, ZenonT(60)
  <1>12. ASSUME NEW c \in Conns, FinalCallWithoutData(c) PROVE (Histories /\ Between)'
    BY <1>12, SendResponseFacts DEF FinalCallWithoutData, PostCall
  <1>13. ASSUME NEW c \in Conns, FirstCallWithoutMemory(c) \/ ReadUnsetBuff(c) PROVE (Histories /\ Between)'
    BY <1>13 DEF FirstCallWithoutMemory, ReadUnsetBuff
  <1>14. CASE UNCHANGED vars
    BY <1>14 DEF vars
  <1>15. QED
    BY <1>1, <1>2, <1>3, <1>4, <1>5, <1>6, <1>7, <1>8, <1>9, <1>10, <1>11, <1>12, <1>13, <1>14
    DEF Next, Client, AnswerToConnection


(***************************************************************************)
(* What a step does to the POSTs under way and their blocks is one of four *)
(* things: nothing, the end of a POST, the start of one, or a part of a    *)
(* body for one.  The invariants about blocks follow from these alone.     *)
(***************************************************************************)
Keeps(c) ==
  /\ InPost(c) <=> InPost(c)'
  /\ InPost(c) => con_cls'[c] = con_cls[c] /\ rq'[c] = rq[c] /\ given'[c] = given[c]

Others(c) == \A d \in Conns \ {c} : Keeps(d)

NothingHappens == UNCHANGED heapVars /\ \A c \in Conns : Keeps(c)

PostEnds(c) ==
  /\ InPost(c) /\ ~InPost(c)' /\ Others(c)
  /\ UNCHANGED post
  /\ \/ postLive' = postLive \ {con_cls[c]} /\ UNCHANGED leaked
     \/ leaked' = leaked \cup {con_cls[c]} /\ UNCHANGED postLive

PostStarts(c, p) ==
  /\ ~InPost(c) /\ InPost(c)' /\ Others(c)
  /\ p \notin postLive /\ con_cls'[c] = p
  /\ postLive' = postLive \cup {p} /\ UNCHANGED leaked
  /\ post' = [post EXCEPT ![p] = [status |-> TRUE, buff |-> Garbage]]

PartArrives(c) ==
  /\ InPost(c) /\ InPost(c)' /\ Others(c)
  /\ con_cls'[c] = con_cls[c] /\ rq'[c] = rq[c] /\ given'[c] = sent[c] /\ given[c] < sent[c]
  /\ post' = [post EXCEPT ![con_cls[c]].buff = SubSeq(rq[c].body, given[c] + 1, sent[c])]
  /\ UNCHANGED <<postLive, leaked>>

Kinds ==
  \/ NothingHappens
  \/ \E c \in Conns : PostEnds(c) \/ PartArrives(c) \/ \E p \in Posts : PostStarts(c, p)

(* The first call: a response, if any, is not one for a POST under way.    *)
LEMMA HeadersAreNoPost ==
  ASSUME HInv, NEW c \in Conns, conn[c] = "headers"
  PROVE  ~InPost(c) /\ con_cls[c] = NULL
  BY DEF InPost, HInv, Between

(* Every step is one of the kinds of step that the proofs tell apart.      *)
LEMMA StepKinds == HInv /\ [Next]_vars => Kinds
  <1> SUFFICES ASSUME HInv, [Next]_vars PROVE Kinds
    OBVIOUS
  <1> USE DEF InPost, Keeps, Others, heapVars, postVars
  <1>0. conn \in [Conns -> {"init", "headers", "body", "final", "reply"}]
    BY DEF HInv, TypeOK
  <1>1. ASSUME NEW c \in Conns, NEW a \in Asks, SendHeaders(c, a) PROVE NothingHappens
    BY <1>0, <1>1 DEF SendHeaders, NothingHappens
  <1>2. ASSUME NEW c \in Conns, SendPart(c) PROVE NothingHappens
    BY <1>0, <1>2 DEF SendPart, NothingHappens
  <1>3. ASSUME NEW c \in Conns, SendEnd(c) PROVE NothingHappens
    BY <1>0, <1>3 DEF SendEnd, NothingHappens, inputVars
  <1>4. ASSUME NEW c \in Conns, Abort(c) PROVE NothingHappens \/ PostEnds(c)
    <2>1. CASE conn[c] = "headers"
      BY <1>0, <1>4, <2>1, HeadersAreNoPost DEF Abort, NothingHappens, inputVars
    <2>2. CASE conn[c] = "body"
      <3>1. con_cls[c] # NULL
        BY <2>2, InPostFacts
      <3>2. QED
        BY <1>0, <1>4, <2>2, <3>1 DEF Abort, PostEnds, inputVars
    <2>3. QED
      BY <1>4, <2>1, <2>2 DEF Abort
  <1>5. ASSUME NEW c \in Conns, ResponseSent(c) PROVE NothingHappens
    BY <1>0, <1>5 DEF ResponseSent, NothingHappens, inputVars
  <1>6. ASSUME NEW c \in Conns, Refuse(c) \/ AnswerGet(c) PROVE NothingHappens
    <2>1. conn[c] = "headers" /\ (\E json : SendResponse(c, json)) /\ UNCHANGED <<rq, given, heapVars>>
      BY <1>6 DEF Refuse, AnswerGet, inputVars
    <2>2. QED
      BY <1>0, <2>1, SendResponseFacts DEF NothingHappens
  <1>7. ASSUME NEW c \in Conns, RefuseEndPoint(c) PROVE NothingHappens \/ PostEnds(c)
    <2>1. /\ \E json : SendResponse(c, json)
          /\ conn[c] \in {"headers", "body", "final"}
          /\ leaked' = leaked \cup ({con_cls[c]} \ {NULL}) /\ UNCHANGED <<rq, given, postLive, post>>
      BY <1>7 DEF RefuseEndPoint, PostCall, inputVars
    <2>2. CASE conn[c] = "headers"
      BY <1>0, <2>1, <2>2, SendResponseFacts, HeadersAreNoPost DEF NothingHappens
    <2>3. CASE conn[c] # "headers"
      <3>1. con_cls[c] # NULL
        BY <2>1, <2>3, InPostFacts
      <3>2. QED
        BY <1>0, <2>1, <2>3, <3>1, SendResponseFacts DEF PostEnds
    <2>4. QED
      BY <2>2, <2>3
  <1>8. ASSUME NEW c \in Conns, NEW p \in Posts, FirstCall(c, p) PROVE PostStarts(c, p)
    <2>1. con_cls \in [Conns -> Posts \cup {NULL}]
      BY DEF HInv, TypeOK
    <2>2. QED
      BY <1>0, <1>8, <2>1, ContinueFacts DEF FirstCall, PostStarts, inputVars
  <1>9. ASSUME NEW c \in Conns, DataCall(c) PROVE PartArrives(c)
    <2>1. given \in [Conns -> Nat]
      BY DEF HInv, TypeOK
    <2>2. QED
      BY <1>0, <1>9, <2>1, ContinueFacts
      DEF DataCall, PartArrives, SetBuff, UploadData, UploadDataTaken, inputVars
  <1>10. ASSUME NEW c \in Conns, FinalCallWithData(c) \/ FinalCallWithoutData(c) PROVE PostEnds(c)
    <2>1. conn[c] = "final" /\ (\E json : SendResponse(c, json)) /\ UNCHANGED <<rq, given, post, leaked>>
          /\ postLive' = postLive \ {con_cls[c]}
      BY <1>10 DEF FinalCallWithData, FinalCallWithoutData, inputVars
    <2>2. QED
      BY <1>0, <2>1, SendResponseFacts DEF PostEnds
  <1>11. ASSUME NEW c \in Conns, FirstCallWithoutMemory(c) \/ ReadUnsetBuff(c) PROVE NothingHappens
    BY <1>0, <1>11 DEF FirstCallWithoutMemory, ReadUnsetBuff, NothingHappens, inputVars
  <1>12. CASE UNCHANGED vars
    <2>1. UNCHANGED <<conn, con_cls, rq, given, heapVars>>
      BY <1>12 DEF vars
    <2>2. QED
      <3>1. UNCHANGED heapVars
        BY <2>1
      <3>2. \A c \in Conns : Keeps(c)
        BY <2>1
      <3>3. QED
        BY <3>1, <3>2 DEF NothingHappens, Kinds
  <1>13. QED
    BY <1>1, <1>2, <1>3, <1>4, <1>5, <1>6, <1>7, <1>8, <1>9, <1>10, <1>11, <1>12
    DEF Kinds, Next, Client, AnswerToConnection

(* The blocks of the POSTs under way.                                      *)
Held == {con_cls[c] : c \in {d \in Conns : InPost(d)}}

OwnBlock(c) ==
  /\ con_cls[c] \in postLive /\ post[con_cls[c]].status
  /\ \A d \in Conns \ {c} : InPost(d) => con_cls[d] # con_cls[c]

(* No kind of step makes two POSTs share a postStatus block.               *)
LEMMA NextPostPointers == HInv /\ Kinds /\ Between' => PostPointers'
  <1> SUFFICES ASSUME HInv, Kinds, Between' PROVE PostPointers'
    OBVIOUS
  <1>0. /\ \A c \in Conns : InPost(c) => con_cls[c] \in postLive /\ con_cls[c] \in Posts
        /\ \A c \in Conns : InPost(c) => post[con_cls[c]].status
        /\ \A c, d \in Conns : InPost(c) /\ InPost(d) /\ c # d => con_cls[c] # con_cls[d]
    BY InPostFacts DEF HInv, PostPointers
  <1>1. \A c \in Conns : conn'[c] = "headers" => con_cls'[c] = NULL
    BY DEF Between
  <1>2. SUFFICES ASSUME NEW c \in Conns, InPost(c)' PROVE OwnBlock(c)'
    BY <1>1 DEF PostPointers, OwnBlock
  <1>3. CASE NothingHappens
    BY <1>0, <1>2, <1>3 DEF NothingHappens, Keeps, heapVars, OwnBlock
  <1>4. ASSUME NEW e \in Conns, PostEnds(e) PROVE OwnBlock(c)'
    <2>1. c # e /\ InPost(c) /\ con_cls'[c] = con_cls[c]
      BY <1>2, <1>4 DEF PostEnds, Others, Keeps
    <2>2. con_cls[c] # con_cls[e]
      BY <1>0, <1>4, <2>1 DEF PostEnds
    <2>3. con_cls'[c] \in postLive' /\ post'[con_cls'[c]].status
      BY <1>0, <1>4, <2>1, <2>2 DEF PostEnds
    <2>4. \A d \in Conns \ {c} : InPost(d)' => con_cls'[d] # con_cls'[c]
      BY <1>0, <1>4, <2>1 DEF PostEnds, Others, Keeps
    <2>5. QED
      BY <2>3, <2>4 DEF OwnBlock
  <1>5. ASSUME NEW e \in Conns, PartArrives(e) PROVE OwnBlock(c)'
    <2>1. InPost(c) /\ con_cls'[c] = con_cls[c]
      BY <1>2, <1>5 DEF PartArrives, Others, Keeps
    <2>2. post'[con_cls[c]].status
      <3>1. post' = [post EXCEPT ![con_cls[e]].buff = SubSeq(rq[e].body, given[e] + 1, sent[e])]
            /\ InPost(e)
        BY <1>5 DEF PartArrives
      <3>2. CASE c = e
        BY <1>0, <2>1, <3>1, <3>2, BuffOnly
      <3>3. CASE c # e
        BY <1>0, <2>1, <3>1, <3>3, BuffOnly
      <3>4. QED
        BY <3>2, <3>3
    <2>3. \A d \in Conns \ {c} : InPost(d)' => con_cls'[d] # con_cls'[c]
      BY <1>0, <1>5, <2>1 DEF PartArrives, Others, Keeps
    <2>4. QED
      BY <1>0, <1>5, <2>1, <2>2, <2>3 DEF PartArrives, OwnBlock
  <1>6. ASSUME NEW e \in Conns, NEW p \in Posts, PostStarts(e, p) PROVE OwnBlock(c)'
    <2>1. CASE c = e
      <3>1. con_cls'[c] = p /\ p \in postLive'
        BY <1>6, <2>1 DEF PostStarts
      <3>2. post'[p].status
        <4>1. post'[p] = [status |-> TRUE, buff |-> Garbage]
          BY <1>6 DEF PostStarts, HInv, TypeOK
        <4>2. QED
          BY <4>1
      <3>3. \A d \in Conns \ {c} : InPost(d)' => con_cls'[d] # p
        BY <1>0, <1>6, <2>1 DEF PostStarts, Others, Keeps
      <3>4. QED
        BY <3>1, <3>2, <3>3 DEF OwnBlock
    <2>2. CASE c # e
      <3>1. InPost(c) /\ con_cls'[c] = con_cls[c] /\ con_cls[c] # p
        BY <1>0, <1>2, <1>6, <2>2 DEF PostStarts, Others, Keeps
      <3>2. post'[con_cls[c]] = post[con_cls[c]]
        BY <1>0, <1>6, <3>1 DEF PostStarts, HInv, TypeOK
      <3>3. con_cls'[c] \in postLive' /\ post'[con_cls'[c]].status
        BY <1>0, <1>6, <3>1, <3>2 DEF PostStarts
      <3>4. \A d \in Conns \ {c} : InPost(d)' => con_cls'[d] # con_cls'[c]
        BY <1>0, <1>6, <3>1 DEF PostStarts, Others, Keeps
      <3>5. QED
        BY <3>3, <3>4 DEF OwnBlock
    <2>3. QED
      BY <2>1, <2>2
  <1>7. QED
    BY <1>3, <1>4, <1>5, <1>6 DEF Kinds

(* A step hands out a block, frees it, or counts it as left behind.        *)
LEMMA NextPostsAccounted == HInv /\ Kinds => PostsAccounted'
  <1> SUFFICES ASSUME HInv, Kinds PROVE PostsAccounted'
    OBVIOUS
  <1>0. /\ \A q : q \in Held <=> \E c \in Conns : InPost(c) /\ con_cls[c] = q
        /\ \A q : q \in Held' <=> \E c \in Conns : InPost(c)' /\ con_cls'[c] = q
    BY DEF Held
  <1>1. postLive = Held \cup leaked /\ Held \cap leaked = {}
    BY DEF HInv, PostsAccounted, Held
  <1>2. \A c, d \in Conns : InPost(c) /\ InPost(d) /\ c # d => con_cls[c] # con_cls[d]
    BY DEF HInv, PostPointers
  <1>3. SUFFICES postLive' = Held' \cup leaked' /\ Held' \cap leaked' = {}
    BY DEF PostsAccounted, Held
  <1> HIDE DEF Held
  <1>4. CASE NothingHappens
    <2>1. Held' = Held
      BY <1>0, <1>4 DEF NothingHappens, Keeps
    <2>2. QED
      BY <1>1, <1>4, <2>1 DEF NothingHappens, heapVars
  <1>5. ASSUME NEW e \in Conns, PostEnds(e) PROVE postLive' = Held' \cup leaked' /\ Held' \cap leaked' = {}
    <2>1. Held' = Held \ {con_cls[e]} /\ con_cls[e] \in Held
      BY <1>0, <1>2, <1>5 DEF PostEnds, Others, Keeps
    <2>2. QED
      BY <1>1, <1>5, <2>1 DEF PostEnds
  <1>6. ASSUME NEW e \in Conns, PartArrives(e) PROVE postLive' = Held' \cup leaked' /\ Held' \cap leaked' = {}
    <2>1. Held' = Held
      BY <1>0, <1>6 DEF PartArrives, Others, Keeps
    <2>2. QED
      BY <1>1, <1>6, <2>1 DEF PartArrives
  <1>7. ASSUME NEW e \in Conns, NEW p \in Posts, PostStarts(e, p) PROVE postLive' = Held' \cup leaked' /\ Held' \cap leaked' = {}
    <2>1. Held' = Held \cup {p}
      BY <1>0, <1>7 DEF PostStarts, Others, Keeps
    <2>2. QED
      BY <1>1, <1>7, <2>1 DEF PostStarts
  <1>8. QED
    BY <1>4, <1>5, <1>6, <1>7 DEF Kinds

(* A buff keeps to what its own connection was given.                      *)
LEMMA NextBuffersAreOwn == HInv /\ Kinds => BuffersAreOwn'
  <1> SUFFICES ASSUME HInv, Kinds PROVE BuffersAreOwn'
    OBVIOUS
  <1>1. \A c, d \in Conns : InPost(c) /\ InPost(d) /\ c # d => con_cls[c] # con_cls[d]
    BY DEF HInv, PostPointers
  <1>2. \A c \in Conns : InPost(c) => con_cls[c] \in postLive /\ con_cls[c] \in Posts
    BY InPostFacts
  <1>3. SUFFICES ASSUME NEW c \in Conns, InPost(c)', post'[con_cls'[c]].buff # Garbage
                 PROVE  \E i \in 1 .. given'[c] :
                          post'[con_cls'[c]].buff = SubSeq(rq'[c].body, i, given'[c])
    BY DEF BuffersAreOwn
  <1>4. ASSUME Keeps(c), post'[con_cls[c]] = post[con_cls[c]]
        PROVE  \E i \in 1 .. given'[c] :
                 post'[con_cls'[c]].buff = SubSeq(rq'[c].body, i, given'[c])
    BY <1>3, <1>4 DEF HInv, BuffersAreOwn, Keeps
  <1>5. CASE NothingHappens
    BY <1>4, <1>5 DEF NothingHappens, heapVars
  <1>6. ASSUME NEW e \in Conns, PostEnds(e)
        PROVE  Keeps(c) /\ post'[con_cls[c]] = post[con_cls[c]]
    BY <1>3, <1>6 DEF PostEnds, Others
  <1>7. ASSUME NEW e \in Conns, NEW p \in Posts, PostStarts(e, p)
        PROVE  \E i \in 1 .. given'[c] :
                 post'[con_cls'[c]].buff = SubSeq(rq'[c].body, i, given'[c])
    <2>1. post'[p] = [status |-> TRUE, buff |-> Garbage]
      BY <1>7 DEF PostStarts, HInv, TypeOK
    <2>2. c # e
      BY <1>3, <1>7, <2>1 DEF PostStarts
    <2>3. Keeps(c) /\ InPost(c)
      BY <1>3, <1>7, <2>2 DEF PostStarts, Others, Keeps
    <2>4. post'[con_cls[c]] = post[con_cls[c]]
      BY <1>2, <1>7, <2>3 DEF PostStarts, HInv, TypeOK
    <2>5. QED
      BY <1>4, <2>3, <2>4
  <1>8. ASSUME NEW e \in Conns, PartArrives(e)
        PROVE  \E i \in 1 .. given'[c] :
                 post'[con_cls'[c]].buff = SubSeq(rq'[c].body, i, given'[c])
    <2> DEFINE buff == SubSeq(rq[e].body, given[e] + 1, sent[e])
    <2>1. InPost(e) /\ post' = [post EXCEPT ![con_cls[e]].buff = buff]
      BY <1>8 DEF PartArrives
    <2> HIDE DEF buff
    <2>2. post'[con_cls[e]].buff = buff /\ \A q \in Posts \ {con_cls[e]} : post'[q] = post[q]
      BY <1>2, <2>1, BuffOnly DEF HInv
    <2>3. CASE c = e
      <3>1. con_cls'[e] = con_cls[e] /\ rq'[e] = rq[e] /\ given'[e] = sent[e] /\ given[e] < sent[e]
        BY <1>8 DEF PartArrives
      <3>2. given[e] \in Nat /\ sent[e] \in Nat
        BY DEF HInv, TypeOK
      <3>3. given[e] + 1 \in 1 .. given'[e]
        BY <3>1, <3>2
      <3>4. post'[con_cls'[e]].buff = SubSeq(rq'[e].body, given[e] + 1, given'[e])
        BY <2>2, <3>1 DEF buff
      <3>5. QED
        BY <2>3, <3>3, <3>4
    <2>4. CASE c # e
      <3>1. Keeps(c) /\ InPost(c)
        BY <1>3, <1>8, <2>4 DEF PartArrives, Others, Keeps
      <3>2. post'[con_cls[c]] = post[con_cls[c]]
        BY <1>1, <1>2, <2>1, <2>2, <2>4, <3>1
      <3>3. QED
        BY <1>4, <3>1, <3>2
    <2>5. QED
      BY <2>3, <2>4
  <1>9. QED
    BY <1>4, <1>5, <1>6, <1>7, <1>8 DEF Kinds

(* Of all steps only SendHeaders, AnswerGet and FinalCallWithData touch    *)
(* what NothingMixed speaks of.                                            *)
LEMMA NextNothingMixed == HInv /\ [Next]_vars => NothingMixed'
  <1> SUFFICES ASSUME HInv, [Next]_vars PROVE NothingMixed'
    OBVIOUS
  <1>0. /\ handed = [d \in Conns |-> handed[d]] /\ rq = [d \in Conns |-> rq[d]]
        /\ NothingMixed
    BY DEF HInv, Histories, TypeOK
  <1>1. ASSUME NEW c \in Conns, NEW a \in Asks, SendHeaders(c, a) PROVE NothingMixed'
    BY <1>0, <1>1 DEF SendHeaders, NothingMixed
  <1>2. ASSUME NEW c \in Conns, AnswerGet(c) PROVE NothingMixed'
    <2>1. rq[c].method = "GET" /\ rq' = rq /\ \E h : handed' = [handed EXCEPT ![c] = h]
      BY <1>2 DEF AnswerGet, inputVars
    <2>2. QED
      BY <1>0, <2>1 DEF NothingMixed
  <1>3. ASSUME NEW c \in Conns, FinalCallWithData(c) PROVE NothingMixed'
    <2> DEFINE json == post[con_cls[c]].buff
    <2>1. /\ conn[c] = "final" /\ rq' = rq
          /\ handed' = [handed EXCEPT ![c] = [termId |-> -1, json |-> json]]
      BY <1>3 DEF FinalCallWithData, inputVars
    <2>2. given[c] = Len(rq[c].body) /\ InPost(c)
      BY <2>1 DEF HInv, Between, InPost
    <2>3. json # Garbage => \E i \in 1 .. Len(rq[c].body) : json = SubSeq(rq[c].body, i, Len(rq[c].body))
      BY <2>2 DEF HInv, BuffersAreOwn
    <2> HIDE DEF json
    <2>4. handed'[c].json = json /\ \A d \in Conns \ {c} : handed'[d] = handed[d]
      BY <1>0, <2>1
    <2>5. QED
      BY <1>0, <2>1, <2>3, <2>4 DEF NothingMixed
  <1>4. ASSUME UNCHANGED <<rq, handed>> PROVE NothingMixed'
    BY <1>0, <1>4 DEF NothingMixed
  <1>5. ASSUME NEW c \in Conns, Client(c) PROVE NothingMixed'
    BY <1>1, <1>4, <1>5 DEF Client, SendPart, SendEnd, Abort, inputVars
  <1>6. ASSUME NEW c \in Conns, AnswerToConnection(c) PROVE NothingMixed'
    BY <1>2, <1>3, <1>4, <1>6
    DEF AnswerToConnection, Refuse, RefuseEndPoint, FirstCall, FirstCallWithoutMemory, DataCall,
        FinalCallWithoutData, ReadUnsetBuff, inputVars
  <1>7. ASSUME NEW c \in Conns, ResponseSent(c) PROVE NothingMixed'
    BY <1>4, <1>7 DEF ResponseSent, inputVars
  <1>8. CASE UNCHANGED vars
    BY <1>4, <1>8 DEF vars
  <1>9. QED
    BY <1>5, <1>6, <1>7, <1>8 DEF Next

(* The inductive invariant holds of every behaviour.                       *)
THEOREM HttpInvariant == Spec => []HInv
  <1>1. Init => HInv
    BY InitHInv
  <1>2. HInv /\ [Next]_vars => HInv'
    <2> SUFFICES ASSUME HInv, [Next]_vars PROVE HInv'
      OBVIOUS
    <2>1. Kinds /\ TypeOK' /\ Histories' /\ Between'
      BY StepKinds, NextTypeOK, NextBetween
    <2>2. PostPointers' /\ PostsAccounted' /\ BuffersAreOwn' /\ NothingMixed'
      BY <2>1, NextPostPointers, NextPostsAccounted, NextBuffersAreOwn, NextNothingMixed
    <2>3. QED
      BY <2>1, <2>2 DEF HInv
  <1>3. QED
    BY <1>1, <1>2, PTL DEF Spec

(* The state of answerToConnection keeps its types for any number of       *)
(* connections, requests and postStatus blocks.                            *)
THEOREM HttpTypes == Spec => []TypeOK
  BY HttpInvariant, PTL DEF HInv

(* A POST under way finds in *con_cls a block that is allocated, set up    *)
(* and no other POST's, and a new request finds NULL: no call uses or frees*)
(* a block twice.                                                          *)
THEOREM PointersAreOwn == Spec => []PostPointers
  BY HttpInvariant, PTL DEF HInv

(* Every postStatus block that malloc gave is held by a POST under way or  *)
(* was left behind by one that did not get to its final call.              *)
THEOREM BlocksAreAccounted == Spec => []PostsAccounted
  BY HttpInvariant, PTL DEF HInv

(* What a POST hands to the manager is garbage or an end of its own body,  *)
(* however the calls of different connections interleave.                  *)
THEOREM BodiesAreNotMixed == Spec => []NothingMixed
  BY HttpInvariant, PTL DEF HInv

(***************************************************************************)
(* The calls answerToConnection is modelled for are those of the contract. *)
(***************************************************************************)
CallsOf == [c \in Conns |-> CASE InPost(c) -> "started" [] conn[c] = "reply" -> "answered" [] OTHER -> "none"]
SizeOf == [c \in Conns |-> IF conn[c] = "init" THEN 0 ELSE Len(rq[c].body)]
GivenOf == [c \in Conns |-> IF conn[c] = "init" THEN 0 ELSE given[c]]

(* What the contract sees of a connection, by where its request is.        *)
LEMMA CallsValues ==
  ASSUME NEW c \in Conns
  PROVE  /\ InPost(c) => CallsOf[c] = "started"
         /\ conn[c] = "reply" => CallsOf[c] = "answered"
         /\ conn[c] \in {"init", "headers"} => CallsOf[c] = "none"
  BY DEF CallsOf, InPost

(* The same after the step.                                                *)
LEMMA CallsValuesNext ==
  ASSUME NEW c \in Conns
  PROVE  /\ InPost(c)' => CallsOf'[c] = "started"
         /\ conn'[c] = "reply" => CallsOf'[c] = "answered"
         /\ conn'[c] \in {"init", "headers"} => CallsOf'[c] = "none"
  BY DEF CallsOf, InPost

(* A connection that is not touched looks the same.                        *)
Same(d) == /\ conn'[d] = conn[d] /\ rq'[d] = rq[d] /\ given'[d] = given[d] /\ con_cls'[d] = con_cls[d]

(* Steps that leave a connection alone leave what the contract sees of it. *)
LEMMA SameViews ==
  ASSUME NEW d \in Conns, Same(d)
  PROVE  CallsOf'[d] = CallsOf[d] /\ SizeOf'[d] = SizeOf[d] /\ GivenOf'[d] = GivenOf[d]
  BY DEF Same, CallsOf, SizeOf, GivenOf, InPost

(* A connection that is closed, or ready for its next request, has ended.  *)
LEMMA Ended ==
  ASSUME HInv, NEW c \in Conns, conn'[c] = "init", con_cls'[c] = NULL,
         con_cls' = [d \in Conns |-> con_cls'[d]], \A d \in Conns \ {c} : Same(d)
  PROVE  Callback!NextCallback
  <1>1. CallsOf' = [d \in Conns |-> IF d \in {c} THEN "none" ELSE CallsOf[d]]
    <2>1. CallsOf'[c] = "none"
      BY CallsValuesNext
    <2>2. \A d \in Conns \ {c} : CallsOf'[d] = CallsOf[d]
      BY SameViews
    <2>3. CallsOf' = [d \in Conns |-> CallsOf'[d]]
      BY DEF CallsOf
    <2>4. QED
      BY <2>1, <2>2, <2>3
  <1>2. SizeOf' = [d \in Conns |-> IF d \in {c} THEN 0 ELSE SizeOf[d]]
    <2>1. SizeOf'[c] = 0 /\ SizeOf' = [d \in Conns |-> SizeOf'[d]]
      BY DEF SizeOf
    <2>2. QED
      BY <2>1, SameViews
  <1>3. GivenOf' = [d \in Conns |-> IF d \in {c} THEN 0 ELSE GivenOf[d]]
    <2>1. GivenOf'[c] = 0 /\ GivenOf' = [d \in Conns |-> GivenOf'[d]]
      BY DEF GivenOf
    <2>2. QED
      BY <2>1, SameViews
  <1>4. con_cls' = [d \in Conns |-> IF d \in {c} THEN NULL ELSE con_cls[d]]
    BY DEF Same
  <1>5. Callback!End({c})
    BY <1>1, <1>2, <1>3, <1>4 DEF Callback!End, CallsOf, SizeOf, GivenOf
  <1>6. QED
    BY <1>5 DEF Callback!NextCallback

(* A call made for a request, whatever the application does in it: what    *)
(* the library's FirstCall and FinalCall have in common.                   *)
LEMMA Called ==
  ASSUME HInv, NEW c \in Conns, conn[c] \in {"headers", "final"}, conn'[c] \in {"body", "final", "reply"},
         UNCHANGED <<rq, given>>, \A d \in Conns \ {c} : Same(d)
  PROVE  Callback!NextCallback
  <1>1. \E outcome \in {"started", "answered"} : CallsOf' = [CallsOf EXCEPT ![c] = outcome]
    <2>1. CallsOf'[c] \in {"started", "answered"}
      BY CallsValuesNext DEF InPost
    <2>2. \A d \in Conns \ {c} : CallsOf'[d] = CallsOf[d]
      BY SameViews
    <2>3. CallsOf' = [d \in Conns |-> CallsOf'[d]] /\ CallsOf = [d \in Conns |-> CallsOf[d]]
      BY DEF CallsOf
    <2>4. CallsOf' = [CallsOf EXCEPT ![c] = CallsOf'[c]]
      BY <2>2, <2>3
    <2>5. QED
      BY <2>1, <2>4
  <1>2. \A d \in Conns : SizeOf'[d] = SizeOf[d] /\ GivenOf'[d] = GivenOf[d]
    <2>1. SizeOf'[c] = SizeOf[c] /\ GivenOf'[c] = GivenOf[c]
      BY DEF SizeOf, GivenOf
    <2>2. QED
      BY <2>1, SameViews
  <1>3. UNCHANGED <<SizeOf, GivenOf>>
    BY <1>2 DEF SizeOf, GivenOf
  <1>4. \A d \in Conns \ {c} : con_cls'[d] = con_cls[d]
    BY DEF Same
  <1>5. Callback!Call(c)
    BY <1>1, <1>3, <1>4 DEF Callback!Call, CallsOf, SizeOf
  <1>6. CASE conn[c] = "headers"
    <2>1. CallsOf[c] = "none" /\ con_cls[c] = NULL
      BY <1>6, CallsValues, HeadersAreNoPost
    <2>2. Callback!FirstCall(c)
      BY <1>3, <1>5, <2>1 DEF Callback!FirstCall, CallsOf, GivenOf
    <2>3. QED
      BY <2>2 DEF Callback!NextCallback
  <1>7. CASE conn[c] = "final"
    <2>1. CallsOf[c] = "started"
      BY <1>7, CallsValues DEF InPost
    <2>2. GivenOf[c] = SizeOf[c]
      BY <1>7 DEF GivenOf, SizeOf, HInv, Between
    <2>3. Callback!FinalCall(c)
      BY <1>3, <1>5, <2>1, <2>2 DEF Callback!FinalCall, CallsOf, GivenOf, SizeOf
    <2>4. QED
      BY <2>3 DEF Callback!NextCallback
  <1>8. QED
    BY <1>6, <1>7

(* A call that ends with a response, or closes the connection.             *)
LEMMA Answers ==
  ASSUME HInv, NEW c \in Conns, NEW json, SendResponse(c, json), UNCHANGED <<rq, given>>
  PROVE  Callback!NextCallback
  <1>1. \A d \in Conns \ {c} : Same(d)
    BY SendResponseFacts DEF Same
  <1>2. CASE conn'[c] = "init"
    <2>1. con_cls'[c] = NULL /\ con_cls' = [d \in Conns |-> con_cls'[d]]
      BY <1>2, SendResponseFacts
    <2>2. QED
      BY <1>1, <1>2, <2>1, Ended
  <1>3. CASE conn'[c] = "reply"
    <2>1. conn[c] \in {"headers", "final"}
      BY <1>3, SendResponseFacts
    <2>2. QED
      BY <1>1, <1>3, <2>1, Called
  <1>4. QED
    BY <1>2, <1>3, SendResponseFacts

(* A new request.                                                          *)
LEMMA Requested ==
  ASSUME HInv, NEW c \in Conns, NEW a \in Asks, SendHeaders(c, a)
  PROVE  Callback!NextCallback
  <1>0. /\ conn[c] = "init" /\ conn' = [conn EXCEPT ![c] = "headers"]
        /\ rq' = [rq EXCEPT ![c] = a] /\ given' = [given EXCEPT ![c] = 0]
        /\ con_cls' = con_cls
    BY DEF SendHeaders, postVars
  <1>1. \A d \in Conns \ {c} : Same(d)
    BY <1>0 DEF Same, HInv, TypeOK
  <1>2. conn'[c] = "headers" /\ rq'[c] = a /\ given'[c] = 0
    BY <1>0 DEF HInv, TypeOK
  <1>3. CallsOf[c] = "none" /\ CallsOf'[c] = "none"
    BY <1>0, <1>2, CallsValues, CallsValuesNext
  <1>4. UNCHANGED CallsOf
    <2>1. \A d \in Conns : CallsOf'[d] = CallsOf[d]
      BY <1>1, <1>3, SameViews
    <2>2. QED
      BY <2>1 DEF CallsOf
  <1>5. UNCHANGED GivenOf
    <2>1. GivenOf[c] = 0 /\ GivenOf'[c] = 0
      BY <1>0, <1>2 DEF GivenOf
    <2>2. \A d \in Conns : GivenOf'[d] = GivenOf[d]
      BY <1>1, <2>1, SameViews
    <2>3. QED
      BY <2>2 DEF GivenOf
  <1>6. SizeOf'[c] \in Nat
    BY <1>2, BodyFacts DEF SizeOf
  <1>7. \A d \in Conns \ {c} : SizeOf'[d] = SizeOf[d]
    BY <1>1, SameViews
  <1>8. Callback!NewRequest(c)
    BY <1>0, <1>3, <1>4, <1>5, <1>6, <1>7 DEF Callback!NewRequest, CallsOf, SizeOf, GivenOf
  <1>9. QED
    BY <1>8 DEF Callback!NextCallback

(* A part of a body.                                                       *)
LEMMA PartGiven ==
  ASSUME HInv, NEW c \in Conns, DataCall(c)
  PROVE  Callback!NextCallback
  <1>0. /\ conn[c] = "body" /\ given[c] < sent[c] /\ Continue(c) /\ rq' = rq
        /\ given' = [given EXCEPT ![c] = sent[c]] /\ con_cls' = con_cls
    BY DEF DataCall, UploadDataTaken, inputVars
  <1>1. \A d \in Conns \ {c} : Same(d)
    BY <1>0, ContinueFacts DEF Same, HInv, TypeOK
  <1>2. conn'[c] \in {"body", "final"} /\ given'[c] = sent[c]
    BY <1>0, ContinueFacts DEF HInv, TypeOK
  <1>3. CallsOf[c] = "started" /\ CallsOf'[c] = "started"
    BY <1>0, <1>2, CallsValues, CallsValuesNext DEF InPost
  <1>4. UNCHANGED CallsOf
    <2>1. \A d \in Conns : CallsOf'[d] = CallsOf[d]
      BY <1>1, <1>3, SameViews
    <2>2. QED
      BY <2>1 DEF CallsOf
  <1>5. UNCHANGED SizeOf
    <2>1. SizeOf'[c] = SizeOf[c]
      BY <1>0, <1>2 DEF SizeOf
    <2>2. \A d \in Conns : SizeOf'[d] = SizeOf[d]
      BY <1>1, <2>1, SameViews
    <2>3. QED
      BY <2>2 DEF SizeOf
  <1>6. GivenOf[c] = given[c] /\ GivenOf'[c] = sent[c] /\ SizeOf[c] = Len(rq[c].body)
    BY <1>0, <1>2 DEF GivenOf, SizeOf
  <1>7. GivenOf' = [GivenOf EXCEPT ![c] = sent[c]]
    <2>1. \A d \in Conns \ {c} : GivenOf'[d] = GivenOf[d]
      BY <1>1, SameViews
    <2>2. GivenOf' = [d \in Conns |-> GivenOf'[d]] /\ GivenOf = [d \in Conns |-> GivenOf[d]]
      BY DEF GivenOf
    <2>3. QED
      BY <1>6, <2>1, <2>2
  <1>8. sent[c] \in GivenOf[c] + 1 .. SizeOf[c]
    <2>1. given[c] \in Nat /\ sent[c] \in Nat /\ sent[c] <= Len(rq[c].body) /\ rq[c] \in Asks
      BY <1>0 DEF HInv, TypeOK, Between
    <2>2. Len(rq[c].body) \in Nat
      BY <2>1, BodyFacts
    <2>3. QED
      BY <1>0, <1>6, <2>1, <2>2
  <1>9. Callback!DataCall(c)
    BY <1>0, <1>3, <1>4, <1>5, <1>7, <1>8 DEF Callback!DataCall, CallsOf, SizeOf, GivenOf
  <1>10. QED
    BY <1>9 DEF Callback!NextCallback

(* The steps the contract does not see at all.                             *)
LEMMA Unseen ==
  ASSUME UNCHANGED <<CallsOf, SizeOf, GivenOf, con_cls>>
  PROVE  UNCHANGED Callback!callbackVars
  BY DEF Callback!callbackVars, CallsOf, SizeOf, GivenOf

(* Every step of the program is one of the contract, or a stutter.         *)
LEMMA NextKeeps == HInv /\ [Next]_vars => [Callback!NextCallback]_(Callback!callbackVars)
  <1> SUFFICES ASSUME HInv, [Next]_vars PROVE Callback!NextCallback \/ UNCHANGED Callback!callbackVars
    OBVIOUS
  <1>1. ASSUME NEW c \in Conns, NEW a \in Asks, SendHeaders(c, a) PROVE Callback!NextCallback
    BY <1>1, Requested
  <1>2. ASSUME UNCHANGED <<conn, rq, given, con_cls>> PROVE UNCHANGED Callback!callbackVars
    <2>1. UNCHANGED <<CallsOf, SizeOf, GivenOf>>
      BY <1>2 DEF CallsOf, SizeOf, GivenOf, InPost
    <2>2. QED
      BY <1>2, <2>1, Unseen
  <1>3. ASSUME NEW c \in Conns, SendEnd(c) PROVE UNCHANGED Callback!callbackVars
    <2>1. conn[c] = "body" /\ conn' = [conn EXCEPT ![c] = "final"] /\ UNCHANGED <<rq, given, con_cls>>
      BY <1>3 DEF SendEnd, inputVars, postVars
    <2>2. /\ conn'[c] = "final" /\ \A d \in Conns \ {c} : conn'[d] = conn[d]
      BY <2>1 DEF HInv, TypeOK
    <2>3. CallsOf[c] = "started" /\ CallsOf'[c] = "started"
      BY <2>1, <2>2, CallsValues, CallsValuesNext DEF InPost
    <2>4. SizeOf'[c] = SizeOf[c] /\ GivenOf'[c] = GivenOf[c]
      BY <2>1, <2>2 DEF SizeOf, GivenOf
    <2>5. \A d \in Conns \ {c} : Same(d)
      BY <2>1, <2>2 DEF Same
    <2>6. \A d \in Conns : CallsOf'[d] = CallsOf[d] /\ SizeOf'[d] = SizeOf[d] /\ GivenOf'[d] = GivenOf[d]
      BY <2>3, <2>4, <2>5, SameViews
    <2>7. UNCHANGED <<CallsOf, SizeOf, GivenOf>>
      BY <2>6 DEF CallsOf, SizeOf, GivenOf
    <2>8. QED
      BY <2>1, <2>7, Unseen
  <1>4. ASSUME NEW c \in Conns, Abort(c) \/ ResponseSent(c) PROVE Callback!NextCallback
    <2>1. /\ conn' = [conn EXCEPT ![c] = "init"] /\ con_cls' = [con_cls EXCEPT ![c] = NULL]
          /\ UNCHANGED <<rq, given>>
      BY <1>4 DEF Abort, ResponseSent, inputVars
    <2>2. conn'[c] = "init" /\ con_cls'[c] = NULL /\ con_cls' = [d \in Conns |-> con_cls'[d]]
      BY <2>1 DEF HInv, TypeOK
    <2>3. \A d \in Conns \ {c} : Same(d)
      BY <2>1 DEF Same, HInv, TypeOK
    <2>4. QED
      BY <2>2, <2>3, Ended
  <1>5. ASSUME NEW c \in Conns,
               \/ Refuse(c) \/ AnswerGet(c) \/ RefuseEndPoint(c)
               \/ FinalCallWithData(c) \/ FinalCallWithoutData(c)
        PROVE  Callback!NextCallback
    <2>1. (\E json : SendResponse(c, json)) /\ UNCHANGED <<rq, given>>
      BY <1>5 DEF Refuse, AnswerGet, RefuseEndPoint, FinalCallWithData, FinalCallWithoutData, inputVars
    <2>2. QED
      BY <2>1, Answers
  <1>6. ASSUME NEW c \in Conns, NEW p \in Posts, FirstCall(c, p) PROVE Callback!NextCallback
    <2>1. /\ conn[c] = "headers" /\ Continue(c) /\ UNCHANGED <<rq, given>>
          /\ con_cls' = [con_cls EXCEPT ![c] = p]
      BY <1>6 DEF FirstCall, inputVars
    <2>2. \A d \in Conns \ {c} : Same(d)
      BY <2>1, ContinueFacts DEF Same, HInv, TypeOK
    <2>3. conn'[c] \in {"body", "final", "reply"}
      BY <2>1, ContinueFacts
    <2>4. QED
      BY <2>1, <2>2, <2>3, Called
  <1>7. ASSUME NEW c \in Conns, Client(c) PROVE Callback!NextCallback \/ UNCHANGED Callback!callbackVars
    BY <1>1, <1>2, <1>3, <1>4, <1>7 DEF Client, SendPart, postVars
  <1>8. ASSUME NEW c \in Conns, AnswerToConnection(c)
        PROVE  Callback!NextCallback \/ UNCHANGED Callback!callbackVars
    BY <1>2, <1>5, <1>6, <1>8, PartGiven
    DEF AnswerToConnection, FirstCallWithoutMemory, ReadUnsetBuff, inputVars, postVars
  <1>9. CASE UNCHANGED vars
    BY <1>2, <1>9 DEF vars
  <1>10. QED
    BY <1>4, <1>7, <1>8, <1>9 DEF Next

(* The calls of a request come in the order of the library's contract:     *)
(* one for the headers with an empty *con_cls, then the parts of its body, *)
(* the final one when all of the body was given, and no more once it is    *)
(* answered.                                                               *)
THEOREM CallsKeepToCallback == Spec => KeepsToCallback
  <1>1. Init => Callback!InitCallback
    BY DEF Init, Callback!InitCallback, InPost
  <1>2. QED
    BY <1>1, NextKeeps, HttpInvariant, PTL DEF Spec, KeepsToCallback, Callback!SpecCallback

(***************************************************************************)
(* Bodies that fit one packet, and an endPoint that starts out empty: then *)
(* the data call is followed by the final call before any other callback,  *)
(* so that the one global flag is the running connection's own.            *)
(***************************************************************************)
Undivided == EndPoints = {NULL} /\ \A a \in Asks : Len(a.body) <= 1 /\ ~a.chunked

NullIsNoRequest == \A termId, json : NULL # [termId |-> termId, json |-> json]

(* What was answered agrees with what was stored and asked for.            *)
Told(c) ==
  /\ response[c].kind = "posted" =>
       /\ rq[c].body # << >> /\ handed[c] # NULL /\ handed[c].json = rq[c].body
       /\ response[c].ids[1] \in 1 .. Len(db) /\ db[response[c].ids[1]] = rq[c].body
  /\ response[c].kind = "noData" => rq[c].body = << >>
  /\ rq[c].method = "GET" /\ handed[c] # NULL =>
       handed[c].termId = IF rq[c].endPoint = NULL THEN ALL ELSE rq[c].endPoint

(* A request on its way there.                                             *)
OnTheWay(c) ==
  /\ conn[c] = "headers" => given[c] = 0 /\ handed[c] = NULL
  /\ conn[c] = "body" => given[c] = 0 /\ rq[c].body # << >>
  /\ InPost(c) => rq[c].endPoint = NULL /\ rq[c].method = "POST"
  /\ conn[c] = "final" =>
       /\ running \in {c, "crashed"} /\ (postWithDataFlag <=> rq[c].body # << >>)
       /\ rq[c].body # << >> => post[con_cls[c]].buff = rq[c].body
  /\ conn[c] = "reply" => Told(c)

FlagIsOurs == postWithDataFlag => \E c \in Conns : conn[c] = "final"

Responses == response = [c \in Conns |-> response[c]]

WInv == HInv /\ Responses /\ FlagIsOurs /\ \A c \in Conns : OnTheWay(c)

(* A step of connection c that leaves the others alone.                    *)
Alone(c) ==
  /\ \A d \in Conns \ {c} : /\ conn'[d] = conn[d] /\ rq'[d] = rq[d] /\ given'[d] = given[d]
                            /\ con_cls'[d] = con_cls[d] /\ handed'[d] = handed[d] /\ response'[d] = response[d]
  /\ db' = db \/ \E json : db' = Append(db, json)
  /\ running \in {NULL, c} \/ UNCHANGED <<running, post, postWithDataFlag>>

(* Appending keeps what is stored.                                         *)
LEMMA StoredStays ==
  ASSUME AreTexts(db), NEW json
  PROVE  /\ Len(db) \in Nat /\ Len(Append(db, json)) = Len(db) + 1
         /\ Append(db, json)[Len(db) + 1] = json
         /\ \A i \in 1 .. Len(db) : Append(db, json)[i] = db[i]
  <1> DEFINE S == {db[i] : i \in DOMAIN db} \cup {json}
  <1>1. db \in Seq(S)
    BY SeqMonotonic DEF AreTexts
  <1>2. json \in S
    OBVIOUS
  <1> HIDE DEF S
  <1>3. QED
    BY <1>1, <1>2, AppendProperties, LenProperties

(* The other connections stay on their way.                                *)
LEMMA OthersOnTheWay ==
  ASSUME WInv, NEW c \in Conns, Alone(c), NEW d \in Conns \ {c}
  PROVE  OnTheWay(d)'
  <1>1. /\ conn'[d] = conn[d] /\ rq'[d] = rq[d] /\ given'[d] = given[d]
        /\ con_cls'[d] = con_cls[d] /\ handed'[d] = handed[d] /\ response'[d] = response[d]
    BY DEF Alone
  <1>2. OnTheWay(d) /\ AreTexts(db)
    BY DEF WInv, HInv, TypeOK
  <1>3. conn[d] = "final" => UNCHANGED <<running, post, postWithDataFlag>>
    BY <1>2, HSAssumption DEF OnTheWay, Alone
  <1>4. Told(d) => Told(d)'
    <2>1. \A i \in 1 .. Len(db) : i \in 1 .. Len(db') /\ db'[i] = db[i]
      <3>1. CASE db' = db
        BY <3>1
      <3>2. ASSUME NEW json, db' = Append(db, json)
            PROVE  \A i \in 1 .. Len(db) : i \in 1 .. Len(db') /\ db'[i] = db[i]
        BY <1>2, <3>2, StoredStays
      <3>3. QED
        BY <3>1, <3>2 DEF Alone
    <2>2. QED
      BY <1>1, <2>1 DEF Told
  <1>5. QED
    BY <1>1, <1>2, <1>3, <1>4 DEF OnTheWay, InPost

(* A callback runs, and no final call is due elsewhere.                    *)
LEMMA NoOtherFinal ==
  ASSUME WInv, NEW c \in Conns, CanRun(c)
  PROVE  /\ running \in {NULL, c} /\ \A d \in Conns \ {c} : conn[d] # "final"
         /\ conn[c] # "final" => postWithDataFlag = FALSE
  <1>1. running \in {NULL, c}
    BY DEF CanRun
  <1>2. \A d \in Conns : OnTheWay(d)
    BY DEF WInv
  <1>3. \A d \in Conns \ {c} : conn[d] # "final"
    BY <1>1, <1>2, HSAssumption DEF OnTheWay
  <1>4. postWithDataFlag \in BOOLEAN /\ (postWithDataFlag => \E d \in Conns : conn[d] = "final")
    BY DEF WInv, HInv, TypeOK, FlagIsOurs
  <1>5. QED
    BY <1>1, <1>3, <1>4

(* What a response does to the answers.                                    *)
LEMMA ResponseFacts ==
  ASSUME WInv, NEW c \in Conns, NEW json, SendResponse(c, json)
  PROVE  /\ Responses' /\ \A d \in Conns \ {c} : response'[d] = response[d]
         /\ conn'[c] = "reply" => response'[c] = json
         /\ conn'[c] \in {"init", "reply"}
         /\ \A d \in Conns \ {c} : conn'[d] = conn[d] /\ con_cls'[d] = con_cls[d]
  <1>1. HInv /\ conn = [d \in Conns |-> conn[d]] /\ response = [d \in Conns |-> response[d]]
    BY DEF WInv, HInv, TypeOK, Responses
  <1>2. /\ conn'[c] \in {"init", "reply"}
        /\ \A d \in Conns \ {c} : conn'[d] = conn[d] /\ con_cls'[d] = con_cls[d]
    BY <1>1, SendResponseFacts
  <1>3. \/ response' = [response EXCEPT ![c] = json]
        \/ response' = response /\ conn' = [conn EXCEPT ![c] = "init"]
    BY DEF SendResponse
  <1>4. QED
    BY <1>1, <1>2, <1>3 DEF Responses

(* A callback of c that answers: what is left to show is what c was told.  *)
LEMMA Answering ==
  ASSUME WInv, NEW c \in Conns, CanRun(c), NEW json, SendResponse(c, json),
         rq' = rq, given' = given, NEW h, handed' = [handed EXCEPT ![c] = h],
         db' = db \/ \E text : db' = Append(db, text), postWithDataFlag' = FALSE,
         conn'[c] = "reply" => Told(c)'
  PROVE  Responses' /\ FlagIsOurs' /\ \A d \in Conns : OnTheWay(d)'
  <1>1. handed = [d \in Conns |-> handed[d]]
    BY DEF WInv, HInv, Histories
  <1>2. \A d \in Conns \ {c} : handed'[d] = handed[d]
    BY <1>1
  <1>3. running \in {NULL, c}
    BY NoOtherFinal
  <1>4. Alone(c)
    BY <1>2, <1>3, ResponseFacts DEF Alone
  <1>5. conn'[c] \in {"init", "reply"} /\ Responses'
    BY ResponseFacts
  <1>6. OnTheWay(c)'
    BY <1>5 DEF OnTheWay, InPost
  <1>7. FlagIsOurs'
    BY DEF FlagIsOurs
  <1>8. QED
    BY <1>4, <1>5, <1>6, <1>7, OthersOnTheWay

(* An answer that is given in the first call.                              *)
LEMMA FirstAnswers ==
  ASSUME WInv, NEW c \in Conns, CanRun(c), conn[c] = "headers", NEW json, SendResponse(c, json),
         json.kind \notin {"posted", "noData"},
         rq' = rq, given' = given, db' = db, postWithDataFlag' = postWithDataFlag,
         NEW h, handed' = [handed EXCEPT ![c] = h],
         \/ h = NULL \/ rq[c].method # "GET"
         \/ h.termId = IF rq[c].endPoint = NULL THEN ALL ELSE rq[c].endPoint
  PROVE  Responses' /\ FlagIsOurs' /\ \A d \in Conns : OnTheWay(d)'
  <1>1. handed = [d \in Conns |-> handed[d]]
    BY DEF WInv, HInv, Histories
  <1>2. handed'[c] = h
    BY <1>1
  <1>3. conn'[c] = "reply" => response'[c] = json
    BY ResponseFacts
  <1>4. conn'[c] = "reply" => Told(c)'
    BY <1>2, <1>3 DEF Told
  <1>5. postWithDataFlag' = FALSE
    BY NoOtherFinal
  <1>6. QED
    BY <1>4, <1>5, Answering

(* The final call: it has the whole body, or tells that there was none.    *)
LEMMA FinalCallsTell ==
  ASSUME WInv, NullIsNoRequest, NEW c \in Conns, FinalCallWithData(c) \/ FinalCallWithoutData(c)
  PROVE  Responses' /\ FlagIsOurs' /\ \A d \in Conns : OnTheWay(d)'
  <1>1. conn[c] = "final" /\ CanRun(c) /\ rq' = rq /\ given' = given /\ rq[c].method = "POST"
    BY DEF FinalCallWithData, FinalCallWithoutData, PostCall, inputVars
  <1>2. /\ (postWithDataFlag <=> rq[c].body # << >>)
        /\ rq[c].body # << >> => post[con_cls[c]].buff = rq[c].body
    BY <1>1 DEF WInv, OnTheWay
  <1>3. handed = [d \in Conns |-> handed[d]] /\ AreTexts(db)
    BY DEF WInv, HInv, Histories, TypeOK
  <1>4. CASE FinalCallWithData(c)
    <2> DEFINE h == [termId |-> -1, json |-> rq[c].body]
               answer == AnswerToPost(db)
    <2>1. rq[c].body # << >> /\ post[con_cls[c]].buff = rq[c].body
      BY <1>2, <1>4 DEF FinalCallWithData
    <2>2. /\ SendResponse(c, answer) /\ handed' = [handed EXCEPT ![c] = h]
          /\ db' = Append(db, rq[c].body) /\ postWithDataFlag' = FALSE
      BY <1>4, <2>1 DEF FinalCallWithData
    <2>3. answer.kind = "posted" /\ answer.ids[1] = Len(db) + 1
      BY DEF AnswerToPost, Posted
    <2>4. Len(db) + 1 \in 1 .. Len(db') /\ db'[Len(db) + 1] = rq[c].body
      BY <1>3, <2>2, StoredStays
    <2>5. handed'[c] # NULL /\ handed'[c].json = rq[c].body
      BY <1>3, <2>2 DEF NullIsNoRequest
    <2> HIDE DEF h, answer
    <2>6. conn'[c] = "reply" => response'[c] = answer
      BY <2>2, ResponseFacts
    <2>7. conn'[c] = "reply" => Told(c)'
      BY <1>1, <2>1, <2>3, <2>4, <2>5, <2>6 DEF Told
    <2>8. QED
      BY <1>1, <2>2, <2>7, Answering
  <1>5. CASE FinalCallWithoutData(c)
    <2> DEFINE h == handed[c]
    <2>1. /\ SendResponse(c, JsonPostWithNoData) /\ handed' = [handed EXCEPT ![c] = h]
          /\ db' = db /\ postWithDataFlag' = FALSE /\ rq[c].body = << >>
      <3>1. handed' = [handed EXCEPT ![c] = h]
        BY <1>3, <1>5 DEF FinalCallWithoutData
      <3>2. postWithDataFlag \in BOOLEAN
        BY DEF WInv, HInv, TypeOK
      <3>3. QED
        BY <1>2, <1>5, <3>1, <3>2 DEF FinalCallWithoutData
    <2>2. JsonPostWithNoData.kind = "noData"
      BY DEF JsonPostWithNoData
    <2> HIDE DEF h
    <2>3. conn'[c] = "reply" => response'[c] = JsonPostWithNoData
      BY <2>1, ResponseFacts
    <2>4. conn'[c] = "reply" => Told(c)'
      BY <1>1, <2>1, <2>2, <2>3 DEF Told
    <2>5. QED
      BY <1>1, <2>1, <2>4, Answering
  <1>6. QED
    BY <1>4, <1>5

(* The client's steps and the end of a request keep all this.              *)
LEMMA ClientKeeps ==
  ASSUME WInv, Undivided, NEW c \in Conns, Client(c) \/ ResponseSent(c)
  PROVE  Responses' /\ FlagIsOurs' /\ \A d \in Conns : OnTheWay(d)'
  <1>1. /\ HInv /\ conn = [d \in Conns |-> conn[d]] /\ rq = [d \in Conns |-> rq[d]]
        /\ sent = [d \in Conns |-> sent[d]] /\ given = [d \in Conns |-> given[d]]
        /\ con_cls = [d \in Conns |-> con_cls[d]] /\ handed = [d \in Conns |-> handed[d]]
        /\ response = [d \in Conns |-> response[d]]
    BY DEF WInv, HInv, TypeOK, Histories, Responses
  <1>2. OnTheWay(c) /\ FlagIsOurs
    BY DEF WInv
  <1>3. CASE \E a \in Asks : SendHeaders(c, a)
    <2>1. PICK a \in Asks : SendHeaders(c, a)
      BY <1>3
    <2>2. /\ conn[c] = "init" /\ conn' = [conn EXCEPT ![c] = "headers"] /\ rq' = [rq EXCEPT ![c] = a]
          /\ given' = [given EXCEPT ![c] = 0] /\ response' = [response EXCEPT ![c] = NULL]
          /\ handed' = [handed EXCEPT ![c] = NULL]
          /\ con_cls' = con_cls /\ running' = running /\ post' = post
          /\ postWithDataFlag' = postWithDataFlag /\ db' = db
      BY <2>1 DEF SendHeaders, postVars, heapVars
    <2>3. Alone(c) /\ Responses'
      BY <1>1, <2>2 DEF Alone, Responses
    <2>4. conn'[c] = "headers" /\ given'[c] = 0 /\ handed'[c] = NULL
      BY <1>1, <2>2
    <2>5. OnTheWay(c)'
      BY <2>4 DEF OnTheWay, InPost
    <2>6. FlagIsOurs'
      BY <1>1, <1>2, <2>2 DEF FlagIsOurs
    <2>7. QED
      BY <2>3, <2>5, <2>6, OthersOnTheWay
  <1>4. CASE SendPart(c)
    <2>1. UNCHANGED <<conn, rq, given, running, con_cls, post, postWithDataFlag, db, response, handed>>
      BY <1>4 DEF SendPart, postVars, heapVars
    <2>2. QED
      BY <1>1, <2>1 DEF WInv, OnTheWay, InPost, Told, FlagIsOurs, Responses
  <1>5. CASE SendEnd(c)
    <2>1. conn[c] = "body" /\ rq[c].chunked
      BY <1>5 DEF SendEnd
    <2>2. rq[c] \in Asks
      BY <1>1, <2>1 DEF HInv, Between
    <2>3. QED
      BY <2>1, <2>2 DEF Undivided
  <1>6. CASE Abort(c) \/ ResponseSent(c)
    <2>1. /\ conn[c] # "final" /\ conn' = [conn EXCEPT ![c] = "init"]
          /\ con_cls' = [con_cls EXCEPT ![c] = NULL]
          /\ UNCHANGED <<rq, given, running, post, postWithDataFlag, db, response, handed>>
      BY <1>6 DEF Abort, ResponseSent, inputVars, heapVars
    <2>2. Alone(c) /\ Responses' /\ conn'[c] = "init"
      BY <1>1, <2>1 DEF Alone, Responses
    <2>3. OnTheWay(c)'
      BY <2>2 DEF OnTheWay, InPost
    <2>4. FlagIsOurs'
      BY <1>1, <1>2, <2>1 DEF FlagIsOurs
    <2>5. QED
      BY <2>2, <2>3, <2>4, OthersOnTheWay
  <1>7. QED
    BY <1>3, <1>4, <1>5, <1>6 DEF Client

(* So do the calls that answer at once.                                    *)
LEMMA FirstCallsTell ==
  ASSUME WInv, Undivided, NEW c \in Conns, Refuse(c) \/ AnswerGet(c) \/ RefuseEndPoint(c)
  PROVE  Responses' /\ FlagIsOurs' /\ \A d \in Conns : OnTheWay(d)'
  <1>1. handed = [d \in Conns |-> handed[d]] /\ OnTheWay(c) /\ HInv
    BY DEF WInv, HInv, Histories
  <1>2. JsonError.kind \notin {"posted", "noData"}
    BY DEF JsonError
  <1>3. CASE Refuse(c) \/ (RefuseEndPoint(c) /\ conn[c] = "headers")
    <2> DEFINE h == handed[c]
    <2>1. /\ conn[c] = "headers" /\ CanRun(c) /\ SendResponse(c, JsonError)
          /\ rq' = rq /\ given' = given /\ db' = db /\ postWithDataFlag' = postWithDataFlag /\ handed' = handed
      BY <1>3 DEF Refuse, RefuseEndPoint, PostCall, inputVars
    <2>2. handed' = [handed EXCEPT ![c] = h] /\ h = NULL
      BY <1>1, <2>1 DEF OnTheWay
    <2> HIDE DEF h
    <2>3. QED
      BY <1>2, <2>1, <2>2, FirstAnswers
  <1>4. CASE RefuseEndPoint(c) /\ conn[c] # "headers"
    <2>1. InPost(c) /\ \E endPoint \in EndPointOf(c) : endPoint # NULL
      BY <1>4 DEF RefuseEndPoint, PostCall, InPost
    <2>2. rq[c].endPoint = NULL
      BY <1>1, <2>1 DEF OnTheWay
    <2>3. QED
      BY <2>1, <2>2 DEF EndPointOf, Undivided
  <1>5. CASE AnswerGet(c)
    <2> DEFINE Asked(endPoint) == IF endPoint = NULL THEN ALL ELSE endPoint
    <2>1. PICK endPoint \in EndPointOf(c) :
            /\ SendResponse(c, AnswerToGet(db, Asked(endPoint)))
            /\ handed' = [handed EXCEPT ![c] = [termId |-> Asked(endPoint), json |-> NULL]]
      BY <1>5 DEF AnswerGet
    <2>2. endPoint = rq[c].endPoint
      BY <2>1 DEF EndPointOf, Undivided
    <2>3. /\ conn[c] = "headers" /\ CanRun(c)
          /\ rq' = rq /\ given' = given /\ db' = db /\ postWithDataFlag' = postWithDataFlag
      BY <1>5 DEF AnswerGet, inputVars
    <2> DEFINE h == [termId |-> Asked(endPoint), json |-> NULL]
               answer == AnswerToGet(db, Asked(endPoint))
    <2>4. answer.kind \notin {"posted", "noData"}
      BY DEF AnswerToGet, TerminalsOf, NoSuchTerminal
    <2>5. h.termId = IF rq[c].endPoint = NULL THEN ALL ELSE rq[c].endPoint
      BY <2>2
    <2>6. SendResponse(c, answer) /\ handed' = [handed EXCEPT ![c] = h]
      BY <2>1
    <2> HIDE DEF h, answer
    <2>7. QED
      BY <2>3, <2>4, <2>5, <2>6, FirstAnswers
  <1>6. QED
    BY <1>3, <1>4, <1>5

(* A POST goes on: the flag is set by its data call, and is its own.       *)
LEMMA PostsGoOn ==
  ASSUME WInv, Undivided, NEW c \in Conns, (\E p \in Posts : FirstCall(c, p)) \/ DataCall(c)
  PROVE  Responses' /\ FlagIsOurs' /\ \A d \in Conns : OnTheWay(d)'
  <1>1. /\ HInv /\ conn = [d \in Conns |-> conn[d]] /\ given = [d \in Conns |-> given[d]]
        /\ con_cls = [d \in Conns |-> con_cls[d]]
        /\ post = [p \in Posts |-> [status |-> post[p].status, buff |-> post[p].buff]]
    BY DEF WInv, HInv, TypeOK
  <1>2. OnTheWay(c) /\ FlagIsOurs /\ Responses
    BY DEF WInv
  <1>3. /\ Continue(c) /\ CanRun(c) /\ conn[c] \in {"headers", "body"} /\ rq[c].method = "POST"
        /\ UNCHANGED <<rq, db, handed, response>>
        /\ \E endPoint \in EndPointOf(c) : endPoint = NULL
    BY DEF FirstCall, DataCall, PostCall, Continue, inputVars
  <1>4. /\ rq[c].endPoint = NULL /\ rq[c] \in Asks /\ ~rq[c].chunked
        /\ Len(rq[c].body) \in Nat /\ Len(rq[c].body) <= 1
    <2>1. rq[c] \in Asks
      BY <1>1, <1>3 DEF HInv, Between
    <2>2. rq[c].endPoint = NULL
      BY <1>3 DEF EndPointOf
    <2>3. Len(rq[c].body) \in Nat /\ Len(rq[c].body) <= 1 /\ ~rq[c].chunked
      BY <2>1, BodyFacts DEF Undivided
    <2>4. QED
      BY <2>1, <2>2, <2>3
  <1>5. Responses' /\ Alone(c)
    <2>1. \A d \in Conns \ {c} : conn'[d] = conn[d] /\ con_cls'[d] = con_cls[d] /\ given'[d] = given[d]
      BY <1>1, <1>3, ContinueFacts DEF FirstCall, DataCall, UploadDataTaken
    <2>2. running \in {NULL, c}
      BY <1>3 DEF CanRun
    <2>3. QED
      BY <1>2, <1>3, <2>1, <2>2 DEF Alone, Responses
  <1>6. postWithDataFlag = FALSE
    BY <1>3, NoOtherFinal
  <1>7. /\ conn'[c] = IF given'[c] = Len(rq[c].body) THEN "final" ELSE "body"
        /\ given'[c] = Len(rq[c].body) => running' = c
    BY <1>1, <1>3, <1>4 DEF Continue
  <1>8. /\ conn'[c] = "body" => given'[c] = 0 /\ rq[c].body # << >> /\ postWithDataFlag' = FALSE
        /\ conn'[c] = "final" =>
             /\ running' = c /\ (postWithDataFlag' <=> rq[c].body # << >>)
             /\ rq[c].body # << >> => post'[con_cls'[c]].buff = rq[c].body
    <2>1. CASE \E p \in Posts : FirstCall(c, p)
      <3>1. given'[c] = 0 /\ postWithDataFlag' = FALSE
        BY <1>2, <1>6, <2>1 DEF FirstCall, OnTheWay
      <3>2. Len(rq[c].body) = 0 <=> rq[c].body = << >>
        BY <1>4, HSAssumption
      <3>3. QED
        BY <1>7, <3>1, <3>2
    <2>2. CASE DataCall(c)
      <3>1. /\ given[c] = 0 /\ sent[c] = 1 /\ Len(rq[c].body) = 1
        <4>1. conn[c] = "body" /\ given[c] < sent[c] /\ given[c] = 0
          BY <1>2, <2>2 DEF DataCall, OnTheWay
        <4>2. sent[c] \in Nat /\ sent[c] <= Len(rq[c].body)
          BY <1>1, <4>1 DEF HInv, TypeOK
        <4>3. \A s, n \in Nat : 0 < s /\ s <= n /\ n <= 1 => s = 1 /\ n = 1
          OBVIOUS
        <4>4. QED
          BY <1>4, <4>1, <4>2, <4>3
      <3>2. rq[c].body # << >> /\ SubSeq(rq[c].body, 1, 1) = rq[c].body
        <4>1. rq[c].body \in Seq({rq[c].body[i] : i \in DOMAIN rq[c].body})
          BY <1>4, HSAssumption
        <4>2. SubSeq(rq[c].body, 1, Len(rq[c].body)) = rq[c].body
          BY <4>1, SubSeqFull
        <4>3. rq[c].body # << >>
          BY <1>2, <2>2 DEF OnTheWay, DataCall
        <4>4. QED
          BY <3>1, <4>2, <4>3
      <3>3. given'[c] = 1 /\ postWithDataFlag' = TRUE /\ con_cls' = con_cls
        BY <1>1, <2>2, <3>1 DEF DataCall, UploadDataTaken
      <3>4. con_cls[c] \in Posts
        BY <1>1, <2>2 DEF DataCall, HInv, TypeOK, PostPointers, InPost
      <3>5. post'[con_cls[c]].buff = rq[c].body
        <4>1. post' = [post EXCEPT ![con_cls[c]].buff = SubSeq(rq[c].body, 1, 1)]
          BY <2>2, <3>1 DEF DataCall, SetBuff, UploadData
        <4>2. "buff" \in DOMAIN post[con_cls[c]] /\ con_cls[c] \in DOMAIN post
          BY <1>1, <3>4
        <4>3. QED
          BY <3>2, <4>1, <4>2
      <3>6. QED
        BY <1>7, <3>1, <3>2, <3>3, <3>5
    <2>3. QED
      BY <2>1, <2>2
  <1>9. conn'[c] \in {"body", "final"} /\ rq'[c] = rq[c]
    BY <1>3, <1>7
  <1>10. OnTheWay(c)'
    BY <1>3, <1>4, <1>8, <1>9 DEF OnTheWay, InPost
  <1>11. FlagIsOurs'
    <2>1. postWithDataFlag' => conn'[c] = "final"
      BY <1>8, <1>9
    <2>2. QED
      BY <2>1 DEF FlagIsOurs
  <1>12. QED
    BY <1>5, <1>10, <1>11, OthersOnTheWay

(* A crash of the process ends all calls.                                  *)
LEMMA CrashesTell ==
  ASSUME WInv, NEW c \in Conns, FirstCallWithoutMemory(c) \/ ReadUnsetBuff(c)
  PROVE  Responses' /\ FlagIsOurs' /\ \A d \in Conns : OnTheWay(d)'
  <1>1. /\ running' = "crashed"
        /\ UNCHANGED <<conn, rq, given, con_cls, post, postWithDataFlag, db, response, handed>>
    BY DEF FirstCallWithoutMemory, ReadUnsetBuff, inputVars, postVars, heapVars
  <1>2. Responses /\ FlagIsOurs /\ \A d \in Conns : OnTheWay(d)
    BY DEF WInv
  <1>3. \A d \in Conns : OnTheWay(d)'
    BY <1>1, <1>2 DEF OnTheWay, InPost, Told
  <1>4. QED
    BY <1>1, <1>2, <1>3 DEF Responses, FlagIsOurs

(* An interleaving of undivided requests keeps every one on its way.       *)
THEOREM WholeInvariant ==
  ASSUME Undivided, NullIsNoRequest
  PROVE  Spec => []WInv
  <1>1. Init => Responses /\ FlagIsOurs /\ \A c \in Conns : OnTheWay(c)
    BY DEF Init, Responses, FlagIsOurs, OnTheWay, InPost
  <1>2. WInv /\ [Next]_vars => Responses' /\ FlagIsOurs' /\ \A c \in Conns : OnTheWay(c)'
    <2> SUFFICES ASSUME WInv, [Next]_vars
                 PROVE  Responses' /\ FlagIsOurs' /\ \A c \in Conns : OnTheWay(c)'
      OBVIOUS
    <2>1. CASE \E c \in Conns : Client(c) \/ ResponseSent(c)
      BY <2>1, ClientKeeps
    <2>2. CASE \E c \in Conns : AnswerToConnection(c)
      BY <2>2, FirstCallsTell, PostsGoOn, FinalCallsTell, CrashesTell DEF AnswerToConnection
    <2>3. CASE UNCHANGED vars
      <3>1. Responses /\ FlagIsOurs /\ \A c \in Conns : OnTheWay(c)
        BY DEF WInv
      <3>2. UNCHANGED <<conn, rq, given, running, con_cls, post, postWithDataFlag, db, response, handed>>
        BY <2>3 DEF vars
      <3>3. QED
        BY <3>1, <3>2 DEF OnTheWay, InPost, Told, Responses, FlagIsOurs
    <2>4. QED
      BY <2>1, <2>2, <2>3 DEF Next
  <1>3. /\ WInv <=> HInv /\ Responses /\ FlagIsOurs /\ \A c \in Conns : OnTheWay(c)
        /\ WInv' <=> HInv' /\ Responses' /\ FlagIsOurs' /\ \A c \in Conns : OnTheWay(c)'
    BY DEF WInv
  <1>4. HInv /\ Init => WInv
    BY <1>1, <1>3
  <1>5. WInv /\ HInv' /\ [Next]_vars => WInv'
    BY <1>2, <1>3
  <1>6. QED
    BY <1>4, <1>5, HttpInvariant, PTL DEF Spec

(* With bodies of one packet, a POST that is told an id has stored its     *)
(* whole body under it, whatever the other connections send meanwhile.     *)
THEOREM WholeBodiesAreStored ==
  ASSUME Undivided, NullIsNoRequest
  PROVE  Spec => []PostStoresItsBody
  <1>1. WInv => PostStoresItsBody
    BY DEF WInv, OnTheWay, Told, PostStoresItsBody, Answered
  <1>2. Spec => []WInv
    BY WholeInvariant
  <1>3. QED
    BY <1>1, <1>2, PTL

(* The same POSTs are answered by jsonPostWithNoData exactly if they had   *)
(* no data: the global flag is the running request's own.                  *)
THEOREM NoDataIsToldRight ==
  ASSUME Undivided, NullIsNoRequest
  PROVE  Spec => []NoDataIsTold
  <1>1. WInv => NoDataIsTold
    BY DEF WInv, OnTheWay, Told, NoDataIsTold, Answered
  <1>2. Spec => []WInv
    BY WholeInvariant
  <1>3. QED
    BY <1>1, <1>2, PTL

(* Where an unset endPoint is empty, a GET looks up what its URL names.    *)
THEOREM GetsServeTheirUrl ==
  ASSUME Undivided, NullIsNoRequest
  PROVE  Spec => []GetServesItsUrl
  <1>1. WInv => GetServesItsUrl
    BY DEF WInv, OnTheWay, Told, GetServesItsUrl
  <1>2. Spec => []WInv
    BY WholeInvariant
  <1>3. QED
    BY <1>1, <1>2, PTL
=============================================================================
